--------------------------- MODULE ProgramsProofs ---------------------------
(***************************************************************************)
(* The small programs of Programs, for any values of their constants.      *)
(* Each has a section of its own.                                          *)
(***************************************************************************)
EXTENDS Programs, FiniteSetTheorems, SequenceTheorems, WellFoundedInduction, TLAPS

-----------------------------------------------------------------------------
(* The mailbox of prodcons.c                                               *)

\* The items meant for consumer k that it has been told of, the one whose
\* store is still to come included.
Told(k) == num_items[k] + IF producer = "item" /\ c = k THEN 1 ELSE 0

\* The items consumer k has read or is going to read.
Taken(k) == mb_count[k] + IF M0 = k /\ consumer[k] \in {"poll", "read"} THEN 1 ELSE 0

BoxTypes ==
    /\ M0 \in 0 .. n + 1 /\ M1 \in Nat
    /\ producer \in {"fork", "clear", "poll", "item", "wait", "over", "failed"}
    /\ mb_i \in 0 .. t /\ c \in 0 .. n /\ forked \in 0 .. n
    /\ num_items \in [Box!Consumers -> Nat]
    /\ consumer \in [Box!Consumers -> {"unborn", "poll", "read", "answer", "over"}]
    /\ mb_count \in [Box!Consumers -> Nat] /\ mb_item \in [Box!Consumers -> Nat]

\* M1 is the last item, or the one before while the store is to come.
LastItem ==
    /\ M1 = IF producer = "item" THEN mb_i - 1 ELSE mb_i
    /\ producer = "item" => mb_i > 0 /\ c \in Box!Consumers

\* Before the first item nobody is named, and after the last one everybody is
\* told to stop.
Turns ==
    /\ producer \in {"fork", "clear", "failed"} =>
          M0 = 0 /\ \A k \in Box!Consumers : consumer[k] \in {"unborn", "poll"}
    /\ producer \in {"poll", "item"} =>
          M0 # n + 1 /\ \A k \in Box!Consumers : consumer[k] \in {"poll", "read", "answer"}
    /\ producer \in {"wait", "over"} =>
          mb_i = t /\ M0 = n + 1 /\ \A k \in Box!Consumers : consumer[k] \in {"poll", "over"}
    /\ producer = "fork" => \A k \in Box!Consumers : k <= forked => consumer[k] = "poll"
    /\ producer = "clear" => \A k \in Box!Consumers : consumer[k] = "poll"

\* The one named has an item to read, and nobody else is at work.
Counted ==
    \A k \in Box!Consumers :
        /\ Taken(k) = Told(k) /\ Told(k) <= mb_i
        /\ consumer[k] \in {"read", "answer"} => M0 = k
        /\ consumer[k] = "answer" => mb_item[k] \in {mb_i - 1, mb_i}
        /\ mb_item[k] <= t

BoxInv == BoxTypes /\ LastItem /\ Turns /\ Counted

\* What each step of the mailbox leaves alone.
LEMMA BoxStep ==
  ASSUME Box!MailboxAssumption, BoxInv, [Box!Next]_(Box!vars)
  PROVE  BoxInv'
<1> USE DEF Box!Consumers, Box!Nobody, Box!Stop
<1>0. /\ n \in Nat \ {0} /\ t \in Nat \ {0} /\ mb_i \in Nat /\ M0 \in Nat /\ M1 \in Nat
      /\ \A k \in 1 .. n : num_items[k] \in Nat /\ mb_count[k] \in Nat /\ mb_item[k] \in Nat
  BY DEF Box!MailboxAssumption, BoxInv, BoxTypes
<1> USE DEF BoxInv
<1>1. CASE UNCHANGED Box!vars
  BY <1>1 DEF Box!vars, Box!mine, Box!theirs, BoxTypes, LastItem, Turns, Counted, Taken, Told
<1>2. CASE Box!Fork
  <2>1. /\ producer = "fork" /\ forked < n
        /\ UNCHANGED <<M0, M1, mb_i, c, num_items, mb_count, mb_item>>
        /\ \/ /\ producer' = IF forked + 1 = n THEN "clear" ELSE "fork"
              /\ forked' = forked + 1
              /\ consumer' = [consumer EXCEPT ![forked + 1] = "poll"]
           \/ producer' = "failed" /\ UNCHANGED <<forked, consumer>>
    BY <1>2 DEF Box!Fork, Box!Goto
  <2>2. forked \in Nat /\ M0 = 0
    BY <2>1 DEF BoxTypes, Turns
  <2>9. /\ forked + 1 \in 1 .. n /\ forked + 1 \in 0 .. n
        /\ consumer \in [1 .. n -> {"unborn", "poll", "read", "answer", "over"}]
    BY <2>1, <2>2, <1>0 DEF BoxTypes
  <2>10. /\ consumer' \in [1 .. n -> {"unborn", "poll", "read", "answer", "over"}]
         /\ forked' \in 0 .. n
         /\ producer' \in {"fork", "clear", "poll", "item", "wait", "over", "failed"}
    BY <2>1, <2>9 DEF BoxTypes
  <2>3. BoxTypes'
    BY <2>1, <2>10 DEF BoxTypes
  <2>4. \A k \in 1 .. n : consumer'[k] \in {"unborn", "poll"}
    BY <2>1 DEF BoxTypes, Turns
  <2>5. producer' # "failed" => \A k \in 1 .. n : k <= forked' => consumer'[k] = "poll"
    <3> SUFFICES ASSUME producer' # "failed", NEW k \in 1 .. n, k <= forked'
                 PROVE  consumer'[k] = "poll"
      OBVIOUS
    <3>1. forked' = forked + 1 /\ consumer' = [consumer EXCEPT ![forked + 1] = "poll"]
      BY <2>1
    <3>2. k = forked + 1 \/ k <= forked
      BY <3>1, <2>2
    <3>3. k <= forked => consumer[k] = "poll"
      BY <2>1 DEF Turns
    <3> QED
      BY <3>1, <3>2, <3>3, <2>9
  <2>6. Turns'
    BY <2>1, <2>2, <2>4, <2>5, <1>0 DEF Turns
  <2>7. LastItem'
    BY <2>1 DEF LastItem
  <2>8. Counted'
    BY <2>1, <2>2, <2>4 DEF Counted, Taken, Told
  <2> QED
    BY <2>3, <2>6, <2>7, <2>8
<1>3. CASE Box!Clear
  <2>1. /\ producer = "clear" /\ producer' = "poll" /\ M0' = 0 /\ M0 = 0
        /\ UNCHANGED <<M1, mb_i, c, forked, num_items, consumer, mb_count, mb_item>>
    BY <1>3 DEF Box!Clear, Box!Goto, Box!theirs, Turns
  <2>2. M0' # n + 1
    BY <2>1, <1>0
  <2> QED
    BY <2>1, <2>2 DEF BoxTypes, LastItem, Turns, Counted, Taken, Told
<1>4. CASE Box!Notify
  <2>1. PICK k \in 1 .. n :
          /\ mb_i < t /\ M0 = 0 /\ producer = "poll" /\ producer' = "item"
          /\ mb_i' = mb_i + 1 /\ c' = k /\ M0' = k
          /\ UNCHANGED <<M1, forked, num_items, consumer, mb_count, mb_item>>
    BY <1>4 DEF Box!Notify, Box!Goto, Box!theirs
  <2>2. /\ k # 0 /\ k # n + 1 /\ k \in 0 .. n + 1 /\ k \in 0 .. n /\ mb_i' \in 0 .. t
        /\ mb_i' - 1 = mb_i /\ mb_i' > 0
    BY <2>1, <1>0
  <2>3. \A l \in 1 .. n : consumer[l] = "poll" /\ l # 0
    BY <2>1, <1>0 DEF Turns, Counted
  <2>4. BoxTypes'
    BY <2>1, <2>2 DEF BoxTypes
  <2>5. LastItem'
    BY <2>1, <2>2, <1>0 DEF LastItem
  <2>6. Turns'
    BY <2>1, <2>2, <2>3 DEF Turns
  <2>7. Counted'
    <3> SUFFICES ASSUME NEW l \in 1 .. n
                 PROVE  Taken(l)' = Told(l)' /\ Told(l)' <= mb_i'
      BY <2>1, <2>3 DEF Counted
    <3>1. mb_count[l] = num_items[l] /\ num_items[l] <= mb_i
      BY <2>1, <2>3, <1>0 DEF Counted, Taken, Told
    <3>2. Taken(l)' = mb_count[l] + IF k = l THEN 1 ELSE 0
      BY <2>1, <2>3 DEF Taken
    <3>3. Told(l)' = num_items[l] + IF k = l THEN 1 ELSE 0
      BY <2>1 DEF Told
    <3> QED
      BY <3>1, <3>2, <3>3, <2>1, <1>0
  <2> QED
    BY <2>4, <2>5, <2>6, <2>7
<1>5. CASE Box!StoreItem
  <2>1. /\ producer = "item" /\ producer' = "poll" /\ M1' = mb_i
        /\ num_items' = [num_items EXCEPT ![c] = @ + 1]
        /\ UNCHANGED <<M0, mb_i, c, forked, consumer, mb_count, mb_item>>
        /\ c \in 1 .. n
    BY <1>5 DEF Box!StoreItem, Box!Goto, Box!theirs, LastItem
  <2>2. /\ num_items' \in [1 .. n -> Nat]
        /\ \A l \in 1 .. n : num_items'[l] = num_items[l] + IF c = l THEN 1 ELSE 0
    BY <2>1, <1>0 DEF BoxTypes
  <2>3. BoxTypes'
    BY <2>1, <2>2, <1>0 DEF BoxTypes
  <2>4. LastItem'
    BY <2>1, <1>0 DEF LastItem
  <2>5. Turns'
    BY <2>1 DEF Turns
  <2>6. \A l \in 1 .. n : Told(l)' = Told(l) /\ Taken(l)' = Taken(l)
    BY <2>1, <2>2, <1>0 DEF Told, Taken
  <2>7. Counted'
    BY <2>1, <2>6 DEF Counted
  <2> QED
    BY <2>3, <2>4, <2>5, <2>7
<1>6. CASE Box!Announce
  <2>1. /\ mb_i = t /\ M0 = 0 /\ producer = "poll" /\ producer' = "wait" /\ M0' = n + 1
        /\ UNCHANGED <<M1, mb_i, c, forked, num_items, consumer, mb_count, mb_item>>
    BY <1>6 DEF Box!Announce, Box!Goto, Box!theirs
  <2>2. \A l \in 1 .. n : consumer[l] = "poll" /\ l # 0 /\ l # n + 1
    BY <2>1, <1>0 DEF Turns, Counted
  <2>3. BoxTypes' /\ LastItem'
    BY <2>1, <1>0 DEF BoxTypes, LastItem
  <2>4. Turns'
    BY <2>1, <2>2 DEF Turns
  <2>5. \A l \in 1 .. n : Told(l)' = Told(l) /\ Taken(l)' = Taken(l)
    BY <2>1, <2>2 DEF Told, Taken
  <2>6. Counted'
    BY <2>1, <2>2, <2>5 DEF Counted
  <2> QED
    BY <2>3, <2>4, <2>6
<1>7. CASE Box!WaitAll
  <2>1. /\ producer = "wait" /\ producer' = "over"
        /\ UNCHANGED <<M0, M1, mb_i, c, forked, num_items, consumer, mb_count, mb_item>>
    BY <1>7 DEF Box!WaitAll, Box!Goto, Box!theirs
  <2> QED
    BY <2>1 DEF BoxTypes, LastItem, Turns, Counted, Taken, Told
<1>8. ASSUME NEW k \in 1 .. n, Box!Consumer(k) PROVE BoxInv'
  <2>0. k # 0 /\ k # n + 1 /\ 0 \in 0 .. n + 1
    BY <1>0
  <2>1. CASE Box!Notice(k)
    <3>1. /\ M0 \in {k, n + 1} /\ consumer[k] = "poll"
          /\ consumer' = [consumer EXCEPT ![k] = IF M0 = k THEN "read" ELSE "over"]
          /\ UNCHANGED <<M0, M1, producer, mb_i, c, forked, num_items, mb_count, mb_item>>
      BY <2>1 DEF Box!Notice, Box!Move, Box!mine
    <3>2. /\ consumer'[k] = IF M0 = k THEN "read" ELSE "over"
          /\ \A l \in 1 .. n : l # k => consumer'[l] = consumer[l]
      BY <3>1 DEF BoxTypes
    <3>3. BoxTypes' /\ LastItem'
      BY <3>1 DEF BoxTypes, LastItem
    <3>4. M0 # 0 /\ M0 <= n + 1
      BY <3>1, <1>0
    <3>5. Turns'
      BY <3>1, <3>2, <3>4, <2>0 DEF Turns, BoxTypes
    <3>6. \A l \in 1 .. n : Told(l)' = Told(l) /\ Taken(l)' = Taken(l)
      BY <3>1, <3>2, <2>0 DEF Told, Taken
    <3>7. Counted'
      BY <3>1, <3>2, <3>6 DEF Counted
    <3> QED
      BY <3>3, <3>5, <3>7
  <2>2. CASE Box!Read(k)
    <3>1. /\ consumer[k] = "read" /\ consumer' = [consumer EXCEPT ![k] = "answer"]
          /\ mb_item' = [mb_item EXCEPT ![k] = M1] /\ mb_count' = [mb_count EXCEPT ![k] = @ + 1]
          /\ UNCHANGED <<M0, M1, producer, mb_i, c, forked, num_items>>
      BY <2>2 DEF Box!Read, Box!Move, Box!mine
    <3>2. /\ consumer'[k] = "answer" /\ mb_item'[k] = M1 /\ mb_count'[k] = mb_count[k] + 1
          /\ \A l \in 1 .. n : l # k => consumer'[l] = consumer[l] /\ mb_item'[l] = mb_item[l] /\ mb_count'[l] = mb_count[l]
      BY <3>1 DEF BoxTypes
    <3>3. BoxTypes' /\ LastItem' /\ M0 = k /\ M1 \in {mb_i - 1, mb_i} /\ M1 <= t
      BY <3>1, <1>0 DEF BoxTypes, LastItem, Counted
    <3>4. producer \in {"poll", "item"}
      BY <3>1 DEF BoxTypes, Turns
    <3>5. Turns'
      BY <3>1, <3>2, <3>4 DEF Turns
    <3>6. \A l \in 1 .. n : Told(l)' = Told(l) /\ Taken(l)' = Taken(l)
      BY <3>1, <3>2, <3>3, <1>0 DEF Told, Taken
    <3>7. Counted'
      BY <3>1, <3>2, <3>3, <3>6 DEF Counted
    <3> QED
      BY <3>3, <3>5, <3>7
  <2>3. CASE Box!Answer(k)
    <3>1. /\ consumer[k] = "answer" /\ consumer' = [consumer EXCEPT ![k] = "poll"] /\ M0' = 0
          /\ UNCHANGED <<M1, producer, mb_i, c, forked, num_items, mb_count, mb_item>>
      BY <2>3 DEF Box!Answer, Box!Move, Box!mine
    <3>2. consumer'[k] = "poll" /\ \A l \in 1 .. n : l # k => consumer'[l] = consumer[l]
      BY <3>1 DEF BoxTypes
    <3>3. BoxTypes' /\ LastItem' /\ M0 = k
      BY <3>1, <2>0 DEF BoxTypes, LastItem, Counted
    <3>9. producer \in {"poll", "item"}
      BY <3>1 DEF BoxTypes, Turns
    <3>4. producer \in {"poll", "item"} /\ M0' # n + 1 /\ \A l \in 1 .. n : l # 0
      BY <3>1, <3>9, <1>0
    <3>5. Turns'
      BY <3>1, <3>2, <3>4 DEF Turns
    <3>6. \A l \in 1 .. n : Told(l)' = Told(l) /\ Taken(l)' = Taken(l)
      BY <3>1, <3>2, <3>3, <3>4 DEF Told, Taken
    <3>7. \A l \in 1 .. n : l # k => consumer[l] \notin {"read", "answer"}
      BY <3>3 DEF Counted
    <3>8. Counted'
      BY <3>1, <3>2, <3>6, <3>7 DEF Counted
    <3> QED
      BY <3>3, <3>5, <3>8
  <2> QED
    BY <1>8, <2>1, <2>2, <2>3 DEF Box!Consumer
<1> QED
  BY <1>1, <1>2, <1>3, <1>4, <1>5, <1>6, <1>7, <1>8 DEF Box!Next, Box!Producer

\* Consumers of the mailbox have the item in hand that they were told of or the
\* one before it, one at a time, and have read as often as they were told to
\* when they stop (prodcons.c:57-71, 101-117), for any number of consumers and
\* items.
THEOREM ItemsCounted == ASSUME Box!MailboxAssumption PROVE Box!Spec => []CountsRight
<1>1. Box!Init => BoxInv
  <2> SUFFICES ASSUME Box!Init PROVE BoxInv
    OBVIOUS
  <2>1. n \in Nat \ {0} /\ t \in Nat \ {0}
    BY DEF Box!MailboxAssumption
  <2>2. BoxTypes /\ LastItem
    BY <2>1 DEF Box!Init, BoxTypes, LastItem, Box!Consumers, Box!Nobody
  <2>3. \A k \in Box!Consumers : k > 0 /\ k # 0 /\ ~(k <= 0)
    BY <2>1 DEF Box!Consumers
  <2>4. Turns
    BY <2>3 DEF Box!Init, Turns, Box!Nobody
  <2>5. Counted
    BY <2>1, <2>3 DEF Box!Init, Counted, Taken, Told, Box!Nobody
  <2> QED
    BY <2>2, <2>4, <2>5 DEF BoxInv
<1>2. BoxInv /\ [Box!Next]_(Box!vars) => BoxInv'
  BY BoxStep
<1>3. BoxInv => CountsRight
  <2> SUFFICES ASSUME BoxInv PROVE CountsRight
    OBVIOUS
  <2>0. n \in Nat \ {0} /\ t \in Nat \ {0} /\ mb_i \in 0 .. t
    BY DEF Box!MailboxAssumption, BoxInv, BoxTypes
  <2>1. \A k \in Box!Consumers : /\ num_items[k] \in 0 .. t /\ mb_count[k] \in 0 .. t /\ mb_item[k] \in 0 .. t
                                 /\ mb_count[k] <= t
    <3> SUFFICES ASSUME NEW k \in Box!Consumers
                 PROVE  num_items[k] \in 0 .. t /\ mb_count[k] \in 0 .. t /\ mb_item[k] \in 0 .. t
      BY <2>0
    <3>1. num_items[k] \in Nat /\ mb_count[k] \in Nat /\ mb_item[k] \in Nat
      BY DEF BoxInv, BoxTypes
    <3>2. Taken(k) = Told(k) /\ Told(k) <= mb_i /\ mb_item[k] <= t
      BY DEF BoxInv, Counted
    <3> QED
      BY <2>0, <3>1, <3>2 DEF Taken, Told
  <2>2. M1 \in 0 .. t
    BY <2>0 DEF BoxInv, BoxTypes, LastItem
  <2>3. Box!TypeOK
    BY <2>1, <2>2 DEF Box!TypeOK, BoxInv, BoxTypes
  <2>4. ASSUME NEW k \in Box!Consumers, consumer[k] = "over" PROVE mb_count[k] = num_items[k] /\ mb_i = t
    <3>1. producer \in {"wait", "over"} /\ mb_i = t /\ M0 = n + 1
      BY <2>4 DEF BoxInv, BoxTypes, Turns
    <3>2. M0 # k
      BY <3>1, <2>0 DEF Box!Consumers
    <3> QED
      BY <2>4, <3>1, <3>2 DEF BoxInv, BoxTypes, Counted, Taken, Told
  <2> QED
    BY <2>3, <2>4 DEF CountsRight, Box!CountsRight, BoxInv, Counted
<1> QED
  BY <1>1, <1>2, <1>3, PTL DEF Box!Spec

-----------------------------------------------------------------------------
(* The bounded buffer of producer_consumer.c                               *)

\* Items produced, the one the producer has just put down included.
Made == bb_i["producer"] + IF bb_at["producer"] \in {"signal", "unlock"} THEN 1 ELSE 0

Held == {buffer[k] : k \in 0 .. bb_count - 1}
Gone == {consumed[k] : k \in 1 .. Len(consumed)}

BufTypes ==
    /\ main \in {"create", "join", "over"} /\ bb_count \in 0 .. BUFFER_SIZE
    /\ buffer \in [0 .. BUFFER_SIZE - 1 -> 0 .. ITEMS] /\ bb_i \in [Buf!Sides -> 0 .. ITEMS]
    /\ bb_spurious \in 0 .. MAX_SPURIOUS
    /\ bb_at \in [Buf!Sides -> {"unborn", "lock", "waiting", "over"} \cup Buf!Locked]
    /\ consumed \in Seq(0 .. ITEMS)

\* One mutex; and a thread that has turns left is not over.
OneInside ==
    /\ bb_at["producer"] \in Buf!Locked => bb_at["consumer"] \notin Buf!Locked
    /\ main = "create" => bb_at["producer"] = "unborn" /\ bb_at["consumer"] = "unborn"
    /\ \A u \in Buf!Sides : bb_at[u] # "over" => bb_i[u] < ITEMS

\* A thread that is at work has found what it needs, and one that waits has not,
\* unless the other one is about to tell it.
Room ==
    /\ bb_at["producer"] = "use" => bb_count < BUFFER_SIZE
    /\ bb_at["consumer"] = "use" => bb_count > 0
    /\ bb_at["producer"] = "waiting" => bb_count = BUFFER_SIZE \/ bb_at["consumer"] = "signal"
    /\ bb_at["consumer"] = "waiting" => bb_count = 0 \/ bb_at["producer"] = "signal"

Once == Held \cup Gone = 0 .. Made - 1 /\ bb_count + Len(consumed) = Made

BufInv == BufTypes /\ OneInside /\ Room /\ Once

\* What the places of the two threads say is kept by every step, and an item
\* goes from the producer to the buffer and from there to the consumer.
LEMMA BufStep ==
  ASSUME Buf!BufferAssumption, BufInv, [Buf!Next]_(Buf!vars)
  PROVE  BufInv'
<1> USE DEF Buf!Sides, Buf!Locked, BufInv
<1>0. /\ BUFFER_SIZE \in Nat \ {0} /\ ITEMS \in Nat \ {0} /\ MAX_SPURIOUS \in Nat
      /\ bb_count \in Nat /\ bb_count <= BUFFER_SIZE
      /\ bb_i["producer"] \in Nat /\ bb_i["consumer"] \in Nat /\ bb_spurious \in Nat
      /\ Len(consumed) \in Nat /\ Made \in Nat /\ consumed \in Seq(0 .. ITEMS)
      /\ bb_at \in [{"producer", "consumer"} ->
                   {"unborn", "lock", "waiting", "over", "test", "use", "signal", "unlock"}]
  BY DEF Buf!BufferAssumption, BufTypes, Made
\* Steps that only move a thread.
<1>1. ASSUME UNCHANGED <<buffer, bb_count, consumed, bb_i>>, Made' = Made PROVE Once'
  BY <1>1 DEF Once, Held, Gone
<1>2. ASSUME NEW u \in {"producer", "consumer"}, NEW from, NEW to, Buf!Move(u, from, to)
      PROVE  /\ bb_at[u] = from /\ bb_at'[u] = to
             /\ \A v \in {"producer", "consumer"} : v # u => bb_at'[v] = bb_at[v]
  BY <1>0, <1>2 DEF Buf!Move
<1>3. CASE UNCHANGED Buf!vars
  BY <1>3 DEF Buf!vars, Buf!data, BufTypes, OneInside, Room, Once, Made, Held, Gone
<1>4. CASE Buf!Create
  <2>1. /\ main = "create" /\ main' = "join"
        /\ bb_at' = [u \in {"producer", "consumer"} |-> "lock"]
        /\ UNCHANGED <<buffer, bb_count, consumed, bb_i, bb_spurious>>
    BY <1>4 DEF Buf!Create, Buf!data
  <2>2. bb_at["producer"] = "unborn" /\ bb_at'["producer"] = "lock" /\ bb_at'["consumer"] = "lock"
    BY <2>1 DEF OneInside
  <2>3. Once'
    BY <2>1, <2>2, <1>1 DEF Made
  <2> QED
    BY <2>1, <2>2, <2>3 DEF BufTypes, OneInside, Room
<1>5. CASE Buf!Join
  <2>1. /\ main' = "over" /\ UNCHANGED <<bb_at, buffer, bb_count, consumed, bb_i, bb_spurious>>
    BY <1>5 DEF Buf!Join, Buf!data
  <2> QED
    BY <2>1, <1>1 DEF BufTypes, OneInside, Room, Made
<1>6. CASE Buf!Produce
  <2>1. /\ bb_at["producer"] = "use" /\ bb_at'["producer"] = "signal" /\ bb_at'["consumer"] = bb_at["consumer"]
        /\ buffer' = [buffer EXCEPT ![bb_count] = bb_i["producer"]] /\ bb_count' = bb_count + 1
        /\ UNCHANGED <<main, consumed, bb_i, bb_spurious>>
    BY <1>2, <1>6 DEF Buf!Produce
  <2>2. /\ bb_at' = [bb_at EXCEPT !["producer"] = "signal"]
        /\ bb_count < BUFFER_SIZE /\ bb_count \in 0 .. BUFFER_SIZE - 1 /\ bb_count' \in 0 .. BUFFER_SIZE
        /\ bb_i["producer"] \in 0 .. ITEMS
    BY <2>1, <1>0, <1>6 DEF Room, BufTypes, Buf!Produce, Buf!Move
  <2>3. BufTypes'
    BY <2>1, <2>2 DEF BufTypes
  <2>4. OneInside' /\ Room'
    BY <2>1, <2>2, <1>0 DEF OneInside, Room
  <2>5. Made' = Made + 1 /\ Made = bb_i["producer"]
    BY <2>1, <1>0 DEF Made
  <2>6. buffer'[bb_count] = Made /\ \A k \in 0 .. bb_count - 1 : buffer'[k] = buffer[k]
    BY <2>1, <2>2, <2>5, <1>0 DEF BufTypes
  <2>7. Held' = Held \cup {Made}
    <3>1. 0 .. bb_count' - 1 = (0 .. bb_count - 1) \cup {bb_count}
      BY <2>1, <1>0
    <3>2. \A k \in 0 .. bb_count - 1 : k # bb_count
      BY <1>0
    <3> QED
      BY <3>1, <3>2, <2>6 DEF Held
  <2>8. Gone' = Gone
    BY <2>1 DEF Gone
  <2>9. 0 .. Made' - 1 = (0 .. Made - 1) \cup {Made}
    BY <2>5, <1>0
  <2>10. Once'
    BY <2>1, <2>5, <2>7, <2>8, <2>9, <1>0 DEF Once
  <2> QED
    BY <2>3, <2>4, <2>10
<1>7. CASE Buf!Consume
  <2>1. /\ bb_at["consumer"] = "use" /\ bb_at'["consumer"] = "signal" /\ bb_at'["producer"] = bb_at["producer"]
        /\ bb_count' = bb_count - 1 /\ consumed' = Append(consumed, buffer[bb_count - 1])
        /\ UNCHANGED <<main, buffer, bb_i, bb_spurious>>
    BY <1>2, <1>7 DEF Buf!Consume
  <2>2. /\ bb_at' = [bb_at EXCEPT !["consumer"] = "signal"]
        /\ bb_count > 0 /\ bb_count - 1 \in 0 .. BUFFER_SIZE - 1 /\ bb_count' \in 0 .. BUFFER_SIZE
        /\ buffer[bb_count - 1] \in 0 .. ITEMS
    BY <2>1, <1>0, <1>7 DEF Room, BufTypes, Buf!Consume, Buf!Move
  <2>3. BufTypes'
    BY <2>1, <2>2, <1>0 DEF BufTypes
  <2>4. OneInside' /\ Room'
    BY <2>1, <2>2, <1>0 DEF OneInside, Room
  <2>5. Made' = Made
    BY <2>1 DEF Made
  <2>6. Held = Held' \cup {buffer[bb_count - 1]}
    <3>1. 0 .. bb_count - 1 = (0 .. bb_count' - 1) \cup {bb_count - 1}
      BY <2>1, <2>2, <1>0
    <3> QED
      BY <3>1, <2>1 DEF Held
  <2>7. Gone' = Gone \cup {buffer[bb_count - 1]} /\ Len(consumed') = Len(consumed) + 1
    <3>1. /\ Len(consumed') = Len(consumed) + 1 /\ consumed'[Len(consumed) + 1] = buffer[bb_count - 1]
          /\ \A k \in 1 .. Len(consumed) : consumed'[k] = consumed[k]
      BY <2>1, <2>2, <1>0
    <3>2. 1 .. Len(consumed') = (1 .. Len(consumed)) \cup {Len(consumed) + 1}
      BY <3>1, <1>0
    <3>3. Gone' = {consumed'[k] : k \in (1 .. Len(consumed)) \cup {Len(consumed) + 1}}
      BY <3>2 DEF Gone
    <3> QED
      BY <3>1, <3>3 DEF Gone
  <2>9. Held' \cup Gone' = Held \cup Gone
    BY <2>6, <2>7
  <2>10. bb_count' + Len(consumed') = bb_count + Len(consumed)
    BY <2>1, <2>7, <1>0
  <2>8. Once'
    BY <2>5, <2>9, <2>10 DEF Once
  <2> QED
    BY <2>3, <2>4, <2>8
<1>8. ASSUME NEW u \in {"producer", "consumer"}, Buf!Lock(u) PROVE BufInv'
  <2>1. /\ \A v \in {"producer", "consumer"} : bb_at[v] \notin {"test", "use", "signal", "unlock"}
        /\ bb_at' = [bb_at EXCEPT ![u] = "test"] /\ bb_at[u] = "lock"
        /\ UNCHANGED <<main, buffer, bb_count, consumed, bb_i, bb_spurious>>
    BY <1>8 DEF Buf!Lock, Buf!Move, Buf!data
  <2>2. Once'
    BY <2>1, <1>0, <1>1 DEF Made
  <2>3. OneInside' /\ Room'
    BY <2>1, <1>0 DEF OneInside, Room
  <2> QED
    BY <2>1, <2>2, <2>3, <1>0 DEF BufTypes
<1>9. ASSUME NEW u \in {"producer", "consumer"}, Buf!Test(u) PROVE BufInv'
  <2>1. /\ bb_at[u] = "test"
        /\ bb_at' = [bb_at EXCEPT ![u] = IF Buf!MustWait(u) THEN "waiting" ELSE "use"]
        /\ UNCHANGED <<main, buffer, bb_count, consumed, bb_i, bb_spurious>>
    BY <1>9 DEF Buf!Test, Buf!Move, Buf!data
  <2>2. Once'
    BY <2>1, <1>0, <1>1 DEF Made
  <2>3. OneInside' /\ Room'
    BY <2>1, <1>0 DEF OneInside, Room, Buf!MustWait
  <2> QED
    BY <2>1, <2>2, <2>3, <1>0 DEF BufTypes
<1>10. ASSUME NEW u \in {"producer", "consumer"}, Buf!Spurious(u) PROVE BufInv'
  <2>1. /\ bb_at[u] = "waiting" /\ bb_at' = [bb_at EXCEPT ![u] = "lock"]
        /\ bb_spurious < MAX_SPURIOUS /\ bb_spurious' = bb_spurious + 1
        /\ UNCHANGED <<main, buffer, bb_count, consumed, bb_i>>
    BY <1>10 DEF Buf!Spurious, Buf!Move, Buf!data
  <2>2. Once'
    BY <2>1, <1>0, <1>1 DEF Made
  <2>3. OneInside' /\ Room'
    BY <2>1, <1>0 DEF OneInside, Room
  <2> QED
    BY <2>1, <2>2, <2>3, <1>0 DEF BufTypes
<1>11. ASSUME NEW u \in {"producer", "consumer"}, Buf!Signal(u) PROVE BufInv'
  <2>1. /\ bb_at[u] = "signal" /\ bb_at'[u] = "unlock"
        /\ bb_at' \in [{"producer", "consumer"} ->
                     {"unborn", "lock", "waiting", "over", "test", "use", "signal", "unlock"}]
        /\ \A v \in {"producer", "consumer"} :
              v # u => bb_at'[v] = IF bb_at[v] = "waiting" THEN "lock" ELSE bb_at[v]
        /\ UNCHANGED <<main, buffer, bb_count, consumed, bb_i, bb_spurious>>
    BY <1>0, <1>11 DEF Buf!Signal, Buf!data
  <2>2. Once'
    BY <2>1, <1>0, <1>1 DEF Made
  <2>3. OneInside' /\ Room'
    BY <2>1, <1>0 DEF OneInside, Room
  <2> QED
    BY <2>1, <2>2, <2>3 DEF BufTypes
<1>12. ASSUME NEW u \in {"producer", "consumer"}, Buf!Unlock(u) PROVE BufInv'
  <2>1. /\ bb_at[u] = "unlock"
        /\ bb_at' = [bb_at EXCEPT ![u] = IF bb_i[u] + 1 = ITEMS THEN "over" ELSE "lock"]
        /\ bb_i' = [bb_i EXCEPT ![u] = @ + 1]
        /\ UNCHANGED <<main, buffer, bb_count, consumed, bb_spurious>>
    BY <1>12 DEF Buf!Unlock, Buf!Move, Buf!data
  <2>2. bb_at[u] # "over" /\ bb_i[u] < ITEMS /\ bb_i[u] + 1 \in 0 .. ITEMS
    BY <2>1, <1>0 DEF OneInside
  <2>3. /\ bb_i'[u] = bb_i[u] + 1 /\ bb_at'[u] = IF bb_i[u] + 1 = ITEMS THEN "over" ELSE "lock"
        /\ \A v \in {"producer", "consumer"} : v # u => bb_at'[v] = bb_at[v] /\ bb_i'[v] = bb_i[v]
        /\ bb_i' \in [{"producer", "consumer"} -> 0 .. ITEMS]
        /\ bb_at' \in [{"producer", "consumer"} ->
                     {"unborn", "lock", "waiting", "over", "test", "use", "signal", "unlock"}]
    BY <2>1, <2>2, <1>0 DEF BufTypes
  <2>4. BufTypes'
    BY <2>1, <2>3 DEF BufTypes
  <2>5. Made' = Made
    BY <2>1, <2>3, <1>0 DEF Made
  <2>6. Once'
    BY <2>1, <2>5 DEF Once, Held, Gone
  <2>7. OneInside' /\ Room'
    BY <2>1, <2>2, <2>3, <1>0 DEF OneInside, Room
  <2> QED
    BY <2>4, <2>6, <2>7
<1> QED
  BY <1>3, <1>4, <1>5, <1>6, <1>7, <1>8, <1>9, <1>10, <1>11, <1>12 DEF Buf!Next, Buf!System

\* Each item is in the buffer or has been consumed, once, and producer and
\* consumer never both wait on their one condition variable
\* (producer_consumer.c:18, 34), for any size of the buffer, any number of items
\* and of waits that return by themselves.
THEOREM ItemsOnce == ASSUME Buf!BufferAssumption PROVE Buf!Spec => []EachItemOnce
<1>1. Buf!Init => BufInv
  <2> SUFFICES ASSUME Buf!Init PROVE BufInv
    OBVIOUS
  <2>1. BUFFER_SIZE \in Nat \ {0} /\ ITEMS \in Nat \ {0} /\ MAX_SPURIOUS \in Nat
    BY DEF Buf!BufferAssumption
  <2>2. BufTypes
    BY <2>1 DEF Buf!Init, BufTypes, Buf!Sides
  <2>3. OneInside /\ Room
    BY <2>1 DEF Buf!Init, OneInside, Room, Buf!Sides, Buf!Locked
  <2>4. Made = 0 /\ bb_count = 0 /\ Len(consumed) = 0
    BY DEF Buf!Init, Made, Buf!Sides
  <2>5. Held = {} /\ Gone = {}
    BY <2>4 DEF Held, Gone
  <2> QED
    BY <2>2, <2>3, <2>4, <2>5 DEF BufInv, Once
<1>2. BufInv /\ [Buf!Next]_(Buf!vars) => BufInv'
  BY BufStep
<1>3. BufInv => EachItemOnce
  <2> SUFFICES ASSUME BufInv PROVE EachItemOnce
    OBVIOUS
  <2>0. consumed \in Seq(0 .. ITEMS)
    BY DEF BufInv, BufTypes
  <2>1. DOMAIN consumed = 1 .. Len(consumed) /\ \A k \in 1 .. Len(consumed) : consumed[k] \in 0 .. ITEMS
    BY <2>0, LenProperties, ElementOfSeq
  <2>2. Buf!TypeOK
    BY <2>1 DEF Buf!TypeOK, BufInv, BufTypes
  <2>3. BUFFER_SIZE # 0
    BY DEF Buf!BufferAssumption
  <2>4. ~(bb_at["producer"] = "waiting" /\ bb_at["consumer"] = "waiting")
    BY <2>3 DEF BufInv, Room
  <2>5. \E u \in Buf!Sides : bb_at[u] # "waiting"
    BY <2>4 DEF Buf!Sides
  <2> QED
    BY <2>1, <2>2, <2>5 DEF EachItemOnce, Buf!EachItemOnce, BufInv, Once, Held, Gone, Made
<1> QED
  BY <1>1, <1>2, <1>3, PTL DEF Buf!Spec

-----------------------------------------------------------------------------
(* The synchroniser of Assignment_09                                       *)

FilesOf(S, B) == [kind : {"file"}, data : S, stamped : B]

\* q is p or below it, as IsUnder has it for the item in hand.
Under(p, q) == Len(q) >= Len(p) /\ SubSeq(q, 1, Len(p)) = p

\* The trees agree from p downwards, but for files that went wrong without a word.
Done(p) == \A q \in Paths : Under(p, q) => Sync!Agrees(q) \/ Sync!Resumable(q)

SyncTypes ==
    /\ src \in [Paths -> {Sync!None, Sync!Dir} \cup FilesOf(Data, {TRUE})]
    /\ dst \in [Paths -> {Sync!None, Sync!Dir} \cup FilesOf(Data \cup {Sync!Partial}, BOOLEAN)]
    /\ Sync!IsTree(src) /\ Sync!IsTree(dst) /\ ~Sync!Is(src, <<>>, "file")
    /\ place \in {"idle", "open", "scan", "item", "remove", "replace", "copy",
                  "write", "stamp", "over"}
    /\ sd_item \in Paths /\ runs \in 0 .. MAX_RUNS /\ errors \in BOOLEAN /\ unnoticed \subseteq Paths
    /\ stack \in Seq([dir : Paths, loop : {"src", "dst"}, left : SUBSET Paths])

\* The calls of sync_directories are one for each directory from the one in
\* work up to the root, and the item in hand is in the former.
Calls ==
    /\ place \in {"idle", "over"} => stack = << >>
    /\ place \notin {"idle", "over", "open"} => stack # << >>
    /\ place = "open" /\ stack = << >> => sd_item = << >>
    /\ place \notin {"idle", "over", "scan"} /\ stack # << >> => sd_item \in Sync!Below(stack[1].dir)
    /\ \A k \in 1 .. Len(stack) :
          /\ stack[k].left \subseteq Sync!Below(stack[k].dir)
          /\ Sync!Is(src, stack[k].dir, "dir") /\ Sync!Is(dst, stack[k].dir, "dir")
          /\ IF k = Len(stack) THEN stack[k].dir = << >>
             ELSE stack[k].dir \in Sync!Below(stack[k + 1].dir)

\* What has been found out about the item in hand.
InWork ==
    /\ place = "open" /\ stack # << >> => Sync!Is(src, sd_item, "dir")
    /\ place = "remove" => Sync!Is(src, sd_item, "none")
    /\ place = "replace" => Sync!Is(src, sd_item, "dir") /\ Sync!Is(dst, sd_item, "file")
    /\ place = "copy" => ~Sync!Agrees(sd_item) /\ ~Sync!Is(src, sd_item, "none")
    /\ place \in {"write", "stamp"} => Sync!Is(dst, sd_item, "file") /\ ~dst[sd_item].stamped
    /\ place \in {"copy", "write", "stamp"} /\ ~errors => Sync!Is(src, sd_item, "file")
    /\ place = "stamp" /\ Sync!Is(src, sd_item, "file") =>
          dst[sd_item].data = src[sd_item].data \/ sd_item \in unnoticed

Stamped == \A p \in Paths : Sync!Is(dst, p, "file") /\ dst[p].stamped => Sync!Agrees(p)

\* The entry that call k has taken up and not ended.
InHand(k, p) == IF k = 1 THEN place # "scan" /\ p = sd_item ELSE p = stack[k - 1].dir

\* Call k has dealt with its entry p: the first loop with those of the source,
\* the second one with the others.
DealtWith(k, p) ==
    \/ p \notin stack[k].left /\ ~InHand(k, p) /\ (stack[k].loop = "dst" \/ ~Sync!Is(src, p, "none"))
    \/ stack[k].loop = "dst" /\ ~Sync!Is(src, p, "none")

Progress ==
    ~errors => \A k \in 1 .. Len(stack) : \A p \in Sync!Below(stack[k].dir) : DealtWith(k, p) => Done(p)

Finished == place = "over" /\ ~errors /\ ~Sync!Is(src, << >>, "none") =>
    \A p \in Paths : Sync!Agrees(p) \/ Sync!Resumable(p)

SyncInv == SyncTypes /\ Calls /\ InWork /\ Stamped /\ Progress /\ Finished

\* What the parent of a path is, and what it is to be under a path, name by name.
LEMMA PathFacts ==
  ASSUME Sync!PathsAssumption
  PROVE  /\ \A p \in Paths : p \in Seq(Names) /\ Len(p) \in Nat /\ (Len(p) = 0 => p = << >>)
         /\ \A p, q \in Paths :
               Under(p, q) <=> Len(p) <= Len(q) /\ \A k \in 1 .. Len(p) : q[k] = p[k]
         /\ \A p \in Paths \ {<< >>} :
               /\ Sync!Parent(p) \in Paths /\ Len(p) > 0 /\ Len(Sync!Parent(p)) = Len(p) - 1
               /\ \A k \in 1 .. Len(p) - 1 : Sync!Parent(p)[k] = p[k]
<1>1. \A p \in Paths : p \in Seq(Names)
  <2>1. << >> \in Seq(Names)
    OBVIOUS
  <2> QED
    BY <2>1 DEF Sync!PathsAssumption
<1>2. \A p \in Paths : Len(p) \in Nat /\ (Len(p) = 0 => p = << >>)
  BY <1>1, EmptySeq, LenProperties
<1>3. ASSUME NEW p \in Paths \ {<< >>}
      PROVE  /\ Sync!Parent(p) \in Paths /\ Len(p) > 0 /\ Len(Sync!Parent(p)) = Len(p) - 1
             /\ \A k \in 1 .. Len(p) - 1 : Sync!Parent(p)[k] = p[k]
  <2>1. p \in Seq(Names) /\ Len(p) \in Nat /\ Len(p) # 0
    BY <1>1, <1>2
  <2>2. \A k \in 1 .. Len(p) - 1 : p[k] \in Names
    BY <2>1, ElementOfSeq
  <2>3. /\ Len(SubSeq(p, 1, Len(p) - 1)) = Len(p) - 1
        /\ \A k \in 1 .. Len(p) - 1 : SubSeq(p, 1, Len(p) - 1)[k] = p[k]
    <3>1. Len(p) - 1 \in Nat /\ 1 \in Int /\ Len(p) - 1 \in Int
      BY <2>1
    <3>2. /\ SubSeq(p, 1, Len(p) - 1) \in Seq(Names)
          /\ Len(SubSeq(p, 1, Len(p) - 1)) = IF 1 <= Len(p) - 1 THEN Len(p) - 1 - 1 + 1 ELSE 0
          /\ \A k \in 1 .. Len(p) - 1 - 1 + 1 : SubSeq(p, 1, Len(p) - 1)[k] = p[1 + k - 1]
      BY <2>1, <2>2, <3>1, SubSeqProperties
    <3>3. ASSUME NEW l \in Nat, l # 0, NEW m, m = IF 1 <= l - 1 THEN l - 1 - 1 + 1 ELSE 0
          PROVE  /\ m = l - 1
                 /\ \A k \in 1 .. l - 1 : k \in 1 .. l - 1 - 1 + 1 /\ 1 + k - 1 = k
      BY <3>3
    <3> QED
      BY <2>1, <3>2, <3>3, Zenon
  <2> QED
    BY <2>1, <2>3 DEF Sync!Parent, Sync!PathsAssumption
<1>4. ASSUME NEW p \in Paths, NEW q \in Paths
      PROVE  Under(p, q) <=> Len(p) <= Len(q) /\ \A k \in 1 .. Len(p) : q[k] = p[k]
  <2>1. p \in Seq(Names) /\ q \in Seq(Names) /\ Len(p) \in Nat /\ Len(q) \in Nat
    BY <1>1, <1>2
  <2>2. CASE Len(q) >= Len(p)
    <3>1. /\ SubSeq(q, 1, Len(p)) \in Seq(Names) /\ Len(SubSeq(q, 1, Len(p))) = Len(p)
          /\ \A k \in 1 .. Len(p) : SubSeq(q, 1, Len(p))[k] = q[k]
      BY <2>1, <2>2, SubSeqProperties, ElementOfSeq
    <3>2. SubSeq(q, 1, Len(p)) = p <=> \A k \in 1 .. Len(p) : q[k] = p[k]
      BY <2>1, <3>1, SeqEqual
    <3> QED
      BY <2>1, <2>2, <3>2 DEF Under
  <2> QED
    BY <2>1, <2>2 DEF Under
<1> QED
  BY <1>1, <1>2, <1>3, <1>4

\* Paths are ordered by Under, and whatever is under a path and is not that path
\* has a parent that is.
LEMMA UnderFacts ==
  ASSUME Sync!PathsAssumption
  PROVE  /\ \A p \in Paths : Under(p, p) /\ Under(<< >>, p)
         /\ \A p, q, r \in Paths : Under(p, q) /\ Under(q, r) => Under(p, r)
         /\ \A p, q \in Paths : Under(p, q) /\ q # p =>
               /\ q # << >> /\ Sync!Parent(q) \in Paths /\ Under(p, Sync!Parent(q))
               /\ Under(Sync!Parent(q), q) /\ Len(Sync!Parent(q)) < Len(q)
<1>0. /\ << >> \in Paths /\ Len(<< >>) = 0
      /\ \A p \in Paths : p \in Seq(Names) /\ Len(p) \in Nat
  BY PathFacts DEF Sync!PathsAssumption
<1>1. \A p \in Paths : Under(p, p) /\ Under(<< >>, p)
  BY <1>0, PathFacts
<1>2. ASSUME NEW p \in Paths, NEW q \in Paths, NEW r \in Paths, Under(p, q), Under(q, r) PROVE Under(p, r)
  <2>1. /\ Len(p) <= Len(q) /\ \A k \in 1 .. Len(p) : q[k] = p[k]
        /\ Len(q) <= Len(r) /\ \A k \in 1 .. Len(q) : r[k] = q[k]
    BY <1>2, PathFacts
  <2>2. Len(p) <= Len(r) /\ \A k \in 1 .. Len(p) : k \in 1 .. Len(q)
    BY <2>1, <1>0
  <2> QED
    BY <2>1, <2>2, PathFacts
<1>3. ASSUME NEW p \in Paths, NEW q \in Paths, Under(p, q), q # p
      PROVE  /\ q # << >> /\ Sync!Parent(q) \in Paths /\ Under(p, Sync!Parent(q))
             /\ Under(Sync!Parent(q), q) /\ Len(Sync!Parent(q)) < Len(q)
  <2>1. Len(p) <= Len(q) /\ \A k \in 1 .. Len(p) : q[k] = p[k]
    BY <1>3, PathFacts
  <2>2. Len(p) # Len(q)
    BY <2>1, <1>0, <1>3, SeqEqual
  <2>3. q # << >> /\ Len(p) <= Len(q) - 1
    BY <2>1, <2>2, <1>0
  <2>4. /\ Sync!Parent(q) \in Paths /\ Len(Sync!Parent(q)) = Len(q) - 1
        /\ \A k \in 1 .. Len(q) - 1 : Sync!Parent(q)[k] = q[k]
    BY <2>3, PathFacts
  <2>5. Len(p) <= Len(Sync!Parent(q)) /\ \A k \in 1 .. Len(p) : k \in 1 .. Len(q) - 1
    BY <2>3, <2>4, <1>0
  <2>6. Under(p, Sync!Parent(q))
    BY <2>1, <2>4, <2>5, PathFacts
  <2>7. Under(Sync!Parent(q), q) /\ Len(Sync!Parent(q)) < Len(q)
    <3>1. Len(Sync!Parent(q)) <= Len(q) /\ Len(Sync!Parent(q)) < Len(q)
      BY <2>4, <1>0
    <3>2. \A k \in 1 .. Len(Sync!Parent(q)) : q[k] = Sync!Parent(q)[k]
      BY <2>4
    <3> QED
      BY <2>4, <3>1, <3>2, PathFacts
  <2> QED
    BY <2>3, <2>4, <2>6, <2>7
<1> QED
  BY <1>1, <1>2, <1>3

\* Of the paths in a set one is shortest.
LEMMA Shortest ==
  ASSUME Sync!PathsAssumption, NEW S \in SUBSET Paths, S # {}
  PROVE  \E p \in S : \A q \in S : ~(Len(q) < Len(p))
<1>1. \A p \in S : Len(p) \in Nat
  BY PathFacts
<1> DEFINE Lens == {Len(p) : p \in S}
<1>2. Lens \in SUBSET Nat /\ Lens # {}
  BY <1>1
<1>3. PICK l \in Lens : \A m \in Lens : <<m, l>> \notin OpToRel(<, Nat)
  BY <1>2, WFMin, NatLessThanWellFounded, Zenon
<1>4. \A m \in Lens : ~(m < l)
  BY <1>2, <1>3, Zenon DEF OpToRel
<1> QED
  BY <1>4

\* Below what is not a directory there is nothing.
LEMMA NothingBelow ==
  ASSUME Sync!PathsAssumption, NEW tree, Sync!IsTree(tree), NEW p \in Paths, ~Sync!Is(tree, p, "dir"),
         NEW q \in Paths, Under(p, q), q # p
  PROVE  Sync!Is(tree, q, "none")
<1> DEFINE S == {r \in Paths : Under(p, r) /\ r # p /\ ~Sync!Is(tree, r, "none")}
<1>1. SUFFICES ASSUME S # {} PROVE FALSE
  OBVIOUS
<1>2. PICK r \in S : \A s \in S : ~(Len(s) < Len(r))
  BY <1>1, Shortest
<1>3. /\ r # << >> /\ Sync!Parent(r) \in Paths /\ Under(p, Sync!Parent(r)) /\ Len(Sync!Parent(r)) < Len(r)
      /\ Sync!Is(tree, Sync!Parent(r), "dir")
  BY UnderFacts DEF Sync!IsTree
<1>4. ~Sync!Is(tree, Sync!Parent(r), "none")
  BY <1>3 DEF Sync!Is
<1> QED
  BY <1>2, <1>3, <1>4

\* Whatever is under a path and is not that path is under an entry of it.
LEMMA UnderEntry ==
  ASSUME Sync!PathsAssumption, NEW d \in Paths, NEW q \in Paths, Under(d, q), q # d
  PROVE  \E p \in Sync!Below(d) : Under(p, q)
<1> DEFINE S == {r \in Paths : Under(d, r) /\ r # d /\ Under(r, q)}
<1>1. q \in S
  BY UnderFacts
<1>2. PICK r \in S : \A s \in S : ~(Len(s) < Len(r))
  BY <1>1, Shortest
<1>3. /\ r # << >> /\ Sync!Parent(r) \in Paths /\ Under(d, Sync!Parent(r)) /\ Len(Sync!Parent(r)) < Len(r)
      /\ Under(Sync!Parent(r), r)
  BY UnderFacts
<1>4. Under(Sync!Parent(r), q)
  BY <1>3, UnderFacts
<1>5. Sync!Parent(r) = d
  BY <1>2, <1>3, <1>4
<1> QED
  BY <1>3, <1>5 DEF Sync!Below

SourceValues == {Sync!None, Sync!Dir} \cup FilesOf(Data, {TRUE})
Values == {Sync!None, Sync!Dir} \cup FilesOf(Data \cup {Sync!Partial}, BOOLEAN)

\* What may be put at p: it changes nothing that agrees, it is under a
\* directory, and what has something below it or is being gone through stays a
\* directory, and a file that is one in both trees stays one.
MayPut(p, v) ==
    /\ Sync!Agrees(p) => v = dst[p]
    /\ v.kind = "none" \/ p = << >> \/ Sync!Is(dst, Sync!Parent(p), "dir")
    /\ v.kind = "dir" \/ \A q \in Sync!Below(p) : Sync!Is(dst, q, "none")
    /\ v.kind = "dir" \/ \A k \in 1 .. Len(stack) : stack[k].dir # p
    /\ v.kind = "file" /\ v.stamped => v = src[p]
    /\ Sync!Is(src, p, "file") /\ Sync!Is(dst, p, "file") => v.kind = "file"

\* What the shapes of the values say of them.
LEMMA ValueFacts ==
  /\ Sync!None \in Values /\ Sync!Dir \in Values /\ SourceValues \subseteq Values
  /\ \A v \in Values :
        /\ v.kind = "none" => v = Sync!None
        /\ v.kind = "dir" => v = Sync!Dir
        /\ v.kind = "file" => v \in FilesOf(Data \cup {Sync!Partial}, BOOLEAN)
        /\ v.kind \in {"none", "dir", "file"}
  /\ \A v \in SourceValues : v.kind = "file" => v \in FilesOf(Data, {TRUE}) /\ v.stamped
  /\ Sync!None.kind = "none" /\ Sync!Dir.kind = "dir"
<1>1. Sync!None.kind = "none" /\ Sync!Dir.kind = "dir"
  BY DEF Sync!None, Sync!Dir
<1>2. \A S, B : \A v \in FilesOf(S, B) : v.kind = "file" /\ v.stamped \in B /\ v.data \in S
  BY DEF FilesOf
<1>3. \A v \in FilesOf(Data, {TRUE}) : v \in FilesOf(Data \cup {Sync!Partial}, BOOLEAN)
  BY DEF FilesOf
<1>4. \A v \in FilesOf(Data, {TRUE}) : v.stamped = TRUE
  BY DEF FilesOf
<1> QED
  BY <1>1, <1>2, <1>3, <1>4 DEF Values, SourceValues

\* The step of each action that writes to the destination is one that MayPut
\* allows; no action writes to the source.
LEMMA Writes ==
  ASSUME Sync!PathsAssumption, SyncInv, Sync!Next
  PROVE  /\ src' = src
         /\ \/ dst' = dst
            \/ \E p \in Paths, v \in Values : MayPut(p, v) /\ dst' = [dst EXCEPT ![p] = v]
<1>0. /\ src \in [Paths -> SourceValues] /\ dst \in [Paths -> Values] /\ sd_item \in Paths
      /\ << >> \in Paths
  BY DEF SyncInv, SyncTypes, SourceValues, Values, Sync!PathsAssumption
<1>1. /\ src[sd_item] \in SourceValues /\ src[sd_item] \in Values /\ dst[sd_item] \in Values
  BY <1>0, ValueFacts
\* A path that is written to is under a directory when it is an entry.
<1>2. ASSUME stack # << >>, sd_item \in Sync!Below(stack[1].dir)
      PROVE  /\ sd_item \in Paths \ {<< >>} /\ Sync!Is(dst, Sync!Parent(sd_item), "dir")
             /\ 1 \in 1 .. Len(stack)
  <2>1. Len(stack) \in Nat /\ Len(stack) # 0
    BY <1>2, EmptySeq DEF SyncInv, SyncTypes
  <2>2. 1 \in 1 .. Len(stack)
    BY <2>1
  <2> QED
    BY <1>2, <2>2 DEF SyncInv, Calls, Sync!Below
<1>3. ~Sync!Is(dst, sd_item, "dir") =>
        /\ \A q \in Sync!Below(sd_item) : Sync!Is(dst, q, "none")
        /\ \A k \in 1 .. Len(stack) : stack[k].dir # sd_item
  BY DEF SyncInv, SyncTypes, Calls, Sync!IsTree, Sync!Below
<1>4. ASSUME place = "open", ~Sync!Is(src, sd_item, "none"), Sync!Is(dst, sd_item, "none")
      PROVE  MayPut(sd_item, Sync!Dir)
  <2>1. ~Sync!Agrees(sd_item)
    BY <1>4 DEF Sync!Agrees, Sync!Is
  <2>2. sd_item = << >> \/ Sync!Is(dst, Sync!Parent(sd_item), "dir")
    BY <1>2, <1>4 DEF SyncInv, Calls
  <2> QED
    BY <1>4, <2>1, <2>2, ValueFacts DEF MayPut, Sync!Is
<1>5. ASSUME Sync!NoSource PROVE dst' = dst \/ (MayPut(sd_item, Sync!None) /\ dst' = [dst EXCEPT ![sd_item] = Sync!None])
  <2>1. SUFFICES ASSUME Sync!Children(dst, sd_item) = {}, dst' = [dst EXCEPT ![sd_item] = Sync!None]
                 PROVE  MayPut(sd_item, Sync!None)
    BY <1>5 DEF Sync!NoSource
  <2>2. Sync!Agrees(sd_item) => Sync!None = dst[sd_item]
    BY <1>5, <1>1, ValueFacts DEF Sync!NoSource, Sync!Agrees, Sync!Is
  <2>3. \A q \in Sync!Below(sd_item) : Sync!Is(dst, q, "none")
    BY <2>1 DEF Sync!Children
  <2>4. stack = << >>
    BY <1>5 DEF Sync!NoSource, Sync!Goto, SyncInv, InWork, Sync!Is
  <2>5. \A k \in 1 .. Len(stack) : stack[k].dir # sd_item
    BY <2>4
  <2>6. ~Sync!Is(src, sd_item, "file")
    BY <1>5 DEF Sync!NoSource, Sync!Is
  <2> QED
    BY <2>2, <2>3, <2>5, <2>6, ValueFacts DEF MayPut
<1>6. ASSUME Sync!RemoveOne
      PROVE  \E p \in Paths : MayPut(p, Sync!None) /\ dst' = [dst EXCEPT ![p] = Sync!None]
  <2>1. PICK p \in Paths : /\ Under(sd_item, p) /\ ~Sync!Is(dst, p, "none") /\ Sync!Children(dst, p) = {}
                           /\ dst' = [dst EXCEPT ![p] = Sync!None]
    BY <1>6 DEF Sync!RemoveOne, Sync!IsUnder, Under
  <2>2. /\ Sync!Is(src, sd_item, "none") /\ ~Sync!Is(dst, sd_item, "none") /\ stack # << >>
        /\ sd_item \in Sync!Below(stack[1].dir) /\ Sync!IsTree(src)
    BY <1>6 DEF Sync!RemoveOne, SyncInv, InWork, Calls, SyncTypes
  <2>3. Sync!Is(src, p, "none")
    BY <2>1, <2>2, NothingBelow, <1>0 DEF Sync!Is
  <2>4. ~Sync!Agrees(p)
    BY <2>1, <2>3 DEF Sync!Agrees, Sync!Is
  <2>5. \A q \in Sync!Below(p) : Sync!Is(dst, q, "none")
    BY <2>1 DEF Sync!Children
  <2>6. ASSUME NEW k \in 1 .. Len(stack), stack[k].dir = p PROVE FALSE
    <3>1. CASE k = 1
      BY <2>2, <2>5, <2>6, <3>1
    <3>2. CASE k # 1
      <4>1. k - 1 \in 1 .. Len(stack) /\ k - 1 # Len(stack) /\ k - 1 + 1 = k
        BY <3>2, LenProperties DEF SyncInv, SyncTypes
      <4>2. stack[k - 1].dir \in Sync!Below(stack[k].dir) /\ Sync!Is(dst, stack[k - 1].dir, "dir")
        BY <4>1 DEF SyncInv, Calls
      <4> QED
        BY <2>5, <2>6, <4>2 DEF Sync!Is
    <3> QED
      BY <3>1, <3>2
  <2> QED
    BY <2>1, <2>3, <2>4, <2>5, <2>6, ValueFacts DEF MayPut, Sync!Is
<1>7. ASSUME Sync!Replace
      PROVE  dst' = dst \/ (MayPut(sd_item, Sync!None) /\ dst' = [dst EXCEPT ![sd_item] = Sync!None])
  <2>1. place = "replace" /\ Sync!Is(src, sd_item, "dir") /\ Sync!Is(dst, sd_item, "file")
    BY <1>7 DEF Sync!Replace, Sync!Goto, SyncInv, InWork
  <2>2. ~Sync!Agrees(sd_item) /\ ~Sync!Is(dst, sd_item, "dir")
    BY <2>1 DEF Sync!Agrees, Sync!Is
  <2>3. ~Sync!Is(src, sd_item, "file")
    BY <2>1 DEF Sync!Is
  <2> QED
    BY <1>3, <1>7, <2>2, <2>3, ValueFacts DEF MayPut, Sync!Replace
<1>8. ASSUME Sync!CopyOpen
      PROVE  LET v == Sync!File(Sync!Partial, FALSE)
             IN  v \in Values /\ MayPut(sd_item, v) /\ dst' = [dst EXCEPT ![sd_item] = v]
  <2> DEFINE v == Sync!File(Sync!Partial, FALSE)
  <2>1. v \in Values /\ v.kind = "file" /\ ~v.stamped
    BY DEF Values, FilesOf, Sync!File
  <2>2. /\ place = "copy" /\ ~Sync!Is(dst, sd_item, "dir") /\ ~Sync!Agrees(sd_item)
        /\ dst' = [dst EXCEPT ![sd_item] = v]
    BY <1>8 DEF Sync!CopyOpen, Sync!Goto, SyncInv, InWork
  <2>3. Sync!Is(dst, Sync!Parent(sd_item), "dir")
    BY <1>2, <2>2 DEF SyncInv, Calls
  <2> HIDE DEF v
  <2>4. MayPut(sd_item, v)
    BY <1>3, <2>1, <2>2, <2>3 DEF MayPut
  <2> QED
    BY <2>1, <2>2, <2>4 DEF v
<1>9. ASSUME place \in {"write", "stamp"}
      PROVE  /\ ~Sync!Agrees(sd_item) /\ Sync!Is(dst, Sync!Parent(sd_item), "dir")
             /\ ~Sync!Is(dst, sd_item, "dir") /\ dst[sd_item] \in FilesOf(Data \cup {Sync!Partial}, BOOLEAN)
             /\ ~dst[sd_item].stamped
  <2>1. Sync!Is(dst, sd_item, "file") /\ ~dst[sd_item].stamped
    BY <1>9 DEF SyncInv, InWork
  <2>2. ~Sync!Agrees(sd_item)
    BY <2>1, <1>1, ValueFacts DEF Sync!Agrees, Sync!Is
  <2>3. Sync!Is(dst, Sync!Parent(sd_item), "dir")
    BY <1>2, <1>9 DEF SyncInv, Calls
  <2> QED
    BY <2>1, <2>2, <2>3, <1>1, ValueFacts DEF Sync!Is
<1>10. ASSUME Sync!CopyWrite
       PROVE  LET v == dst'[sd_item]
              IN  v \in Values /\ MayPut(sd_item, v) /\ dst' = [dst EXCEPT ![sd_item] = v]
  <2>1. PICK d \in Data \cup {Sync!Partial} : dst' = [dst EXCEPT ![sd_item].data = d]
    <3>1. \/ dst' = dst
          \/ dst' = [dst EXCEPT ![sd_item].data =
                       IF Sync!Is(src, sd_item, "file") THEN src[sd_item].data ELSE dst[sd_item].data]
      BY <1>10 DEF Sync!CopyWrite
    <3>2. Sync!Is(src, sd_item, "file") => src[sd_item].data \in Data
      BY <1>1, ValueFacts DEF Sync!Is, FilesOf
    <3>3. /\ dst[sd_item].data \in Data \cup {Sync!Partial}
          /\ dst = [dst EXCEPT ![sd_item].data = dst[sd_item].data]
      BY <1>0, <1>9, <1>10 DEF Sync!CopyWrite, Sync!Goto, FilesOf
    <3> QED
      BY <3>1, <3>2, <3>3
  <2>2. dst'[sd_item] = [dst[sd_item] EXCEPT !.data = d] /\ dst' = [dst EXCEPT ![sd_item] = dst'[sd_item]]
    BY <2>1, <1>0
  <2>3. /\ dst'[sd_item] \in FilesOf(Data \cup {Sync!Partial}, BOOLEAN)
        /\ dst'[sd_item].kind = "file" /\ ~dst'[sd_item].stamped
    BY <2>2, <1>9, <1>10 DEF FilesOf, Sync!CopyWrite, Sync!Goto
  <2>4. MayPut(sd_item, dst'[sd_item])
    BY <2>3, <1>3, <1>9, <1>10 DEF MayPut, Sync!CopyWrite, Sync!Goto
  <2> QED
    BY <2>2, <2>3, <2>4 DEF Values
<1>11. ASSUME Sync!Stamp
       PROVE  LET v == dst'[sd_item]
              IN  v \in Values /\ MayPut(sd_item, v) /\ dst' = [dst EXCEPT ![sd_item] = v]
  <2> DEFINE whole == Sync!Is(src, sd_item, "file") /\ dst[sd_item].data = src[sd_item].data
  <2>0. dst = [dst EXCEPT ![sd_item].stamped = FALSE]
    BY <1>0, <1>9, <1>11 DEF Sync!Stamp, Sync!Goto, FilesOf
  <2>1. PICK b \in BOOLEAN :
          place = "stamp" /\ dst' = [dst EXCEPT ![sd_item].stamped = b] /\ (b => whole)
    <3>1. whole \in BOOLEAN
      BY DEF Sync!Is
    <3>2. place = "stamp" /\ (dst' = dst \/ dst' = [dst EXCEPT ![sd_item].stamped = whole])
      BY <1>11 DEF Sync!Stamp, Sync!Goto
    <3> HIDE DEF whole
    <3> QED
      BY <2>0, <3>1, <3>2
  <2>2. /\ dst'[sd_item] = [dst[sd_item] EXCEPT !.stamped = b]
        /\ dst' = [dst EXCEPT ![sd_item] = dst'[sd_item]]
    BY <2>1, <1>0
  <2>3. /\ dst'[sd_item] \in FilesOf(Data \cup {Sync!Partial}, BOOLEAN)
        /\ dst'[sd_item].kind = "file" /\ dst'[sd_item].data = dst[sd_item].data
        /\ dst'[sd_item].stamped = b
    BY <2>1, <2>2, <1>9 DEF FilesOf
  <2>4. dst'[sd_item].stamped => dst'[sd_item] = src[sd_item]
    <3> SUFFICES ASSUME b PROVE dst'[sd_item] = src[sd_item]
      BY <2>3
    <3>1. src[sd_item] \in FilesOf(Data, {TRUE}) /\ dst[sd_item].data = src[sd_item].data
      BY <1>1, <2>1, ValueFacts DEF Sync!Is
    <3>2. src[sd_item] = [kind |-> "file", data |-> dst[sd_item].data, stamped |-> TRUE]
      BY <3>1 DEF FilesOf
    <3>3. dst'[sd_item] = [kind |-> "file", data |-> dst[sd_item].data, stamped |-> dst'[sd_item].stamped]
      BY <2>3 DEF FilesOf
    <3>4. dst'[sd_item].stamped = TRUE
      BY <2>1, <2>3
    <3> QED
      BY <3>2, <3>3, <3>4
  <2>5. MayPut(sd_item, dst'[sd_item])
    BY <2>1, <2>3, <2>4, <1>3, <1>9 DEF MayPut
  <2> QED
    BY <2>2, <2>3, <2>5 DEF Values
<1>12. src' = src
  BY DEF Sync!Next, Sync!Program, Sync!Killed, Sync!Again, Sync!Start, Sync!NoSource, Sync!OpenBoth,
         Sync!OpenFails, Sync!NextEntry, Sync!EndLoop, Sync!Decide, Sync!RemoveOne, Sync!RemoveEnds,
         Sync!RemoveFails, Sync!Replace, Sync!CopyOpen, Sync!CopyFails, Sync!CopyWrite, Sync!Stamp
<1>13. Sync!OpenBoth \/ Sync!OpenFails =>
         dst' = dst \/ (MayPut(sd_item, Sync!Dir) /\ dst' = [dst EXCEPT ![sd_item] = Sync!Dir])
  BY <1>4 DEF Sync!OpenBoth, Sync!OpenFails, Sync!Made, Sync!Goto
<1>14. Sync!Killed \/ Sync!Again \/ Sync!Start \/ Sync!NextEntry \/ Sync!EndLoop \/ Sync!Decide
         \/ Sync!RemoveEnds \/ Sync!RemoveFails \/ Sync!CopyFails => dst' = dst
  BY DEF Sync!Killed, Sync!Again, Sync!Start, Sync!NextEntry, Sync!EndLoop, Sync!Decide, Sync!RemoveEnds,
         Sync!RemoveFails, Sync!CopyFails
<1> QED
  BY <1>0, <1>5, <1>6, <1>7, <1>8, <1>10, <1>11, <1>12, <1>13, <1>14, ValueFacts
     DEF Sync!Next, Sync!Program

CallTypes == [dir : Paths, loop : {"src", "dst"}, left : SUBSET Paths]

\* The stack is a sequence of calls.
LEMMA StackFacts ==
  ASSUME SyncInv
  PROVE  /\ stack \in Seq(CallTypes) /\ Len(stack) \in Nat /\ (stack # << >> <=> Len(stack) > 0)
         /\ \A k \in 1 .. Len(stack) : stack[k] \in CallTypes
<1>1. stack \in Seq(CallTypes) /\ Len(stack) \in Nat
  BY LenProperties DEF SyncInv, SyncTypes, CallTypes
<1>2. stack # << >> <=> Len(stack) > 0
  BY <1>1, EmptySeq
<1>3. \A k \in 1 .. Len(stack) : stack[k] \in CallTypes
  BY <1>1, ElementOfSeq
<1> QED
  BY <1>1, <1>2, <1>3

\* What a step keeps: the source, the shape of the destination, whatever agrees,
\* and the directories that are being gone through.
LEMMA Kept ==
  ASSUME Sync!PathsAssumption, SyncInv, [Sync!Next]_(Sync!vars)
  PROVE  /\ src' = src /\ dst' \in [Paths -> Values] /\ Sync!IsTree(dst)' /\ Stamped'
         /\ \A p \in Paths : Sync!Agrees(p) => Sync!Agrees(p)'
         /\ stack # << >> => \A p \in Paths : Done(p) => Done(p)'
         /\ \A k \in 1 .. Len(stack) : Sync!Is(dst', stack[k].dir, "dir")
<1>0. /\ dst \in [Paths -> Values] /\ Sync!IsTree(dst)
      /\ \A k \in 1 .. Len(stack) : stack[k].dir \in Paths /\ Sync!Is(dst, stack[k].dir, "dir")
  <2>1. \A k \in 1 .. Len(stack) : stack[k].dir \in Paths
    BY StackFacts DEF CallTypes
  <2> QED
    BY <2>1 DEF SyncInv, SyncTypes, Values, Calls
<1>1. /\ src' = src
      /\ \/ dst' = dst
         \/ \E p \in Paths, v \in Values : MayPut(p, v) /\ dst' = [dst EXCEPT ![p] = v]
  BY Writes DEF Sync!vars
\* Only a new run forgets what went wrong.
<1>4. stack # << >> => unnoticed \subseteq unnoticed'
  BY DEF Sync!vars, SyncInv, Calls, Sync!Goto, Sync!Next, Sync!Program, Sync!Killed, Sync!Again, Sync!Start,
         Sync!NoSource, Sync!OpenBoth, Sync!OpenFails, Sync!NextEntry, Sync!EndLoop, Sync!Decide,
         Sync!RemoveOne, Sync!RemoveEnds, Sync!RemoveFails, Sync!Replace, Sync!CopyOpen, Sync!CopyFails,
         Sync!CopyWrite, Sync!Stamp
<1>2. CASE dst' = dst
  BY <1>0, <1>1, <1>2, <1>4 DEF Sync!IsTree, Sync!Is, Stamped, Sync!Agrees, Sync!Resumable, Done, SyncInv
<1>3. CASE \E p \in Paths, v \in Values : MayPut(p, v) /\ dst' = [dst EXCEPT ![p] = v]
  <2>1. PICK p \in Paths, v \in Values : MayPut(p, v) /\ dst' = [dst EXCEPT ![p] = v]
    BY <1>3
  <2>2. /\ dst'[p] = v /\ \A q \in Paths : q # p => dst'[q] = dst[q]
        /\ dst' \in [Paths -> Values]
    BY <1>0, <2>1
  <2>3. \A q \in Paths : Sync!Agrees(q) => Sync!Agrees(q)'
    BY <1>1, <2>1, <2>2 DEF MayPut, Sync!Agrees
  <2>7. stack # << >> =>
          \A q \in Paths : Sync!Resumable(q) => Sync!Agrees(q)' \/ Sync!Resumable(q)'
    BY <1>1, <1>4, <2>1, <2>2 DEF MayPut, Sync!Agrees, Sync!Resumable, Sync!Is
  <2>4. Stamped'
    BY <1>1, <2>1, <2>2 DEF MayPut, Sync!Agrees, Stamped, Sync!Is, SyncInv
  <2>5. \A k \in 1 .. Len(stack) : Sync!Is(dst', stack[k].dir, "dir")
    BY <1>0, <2>1, <2>2 DEF MayPut, Sync!Is
  <2>6. ASSUME NEW q \in Paths \ {<< >>} PROVE Sync!Is(dst', q, "none") \/ Sync!Is(dst', Sync!Parent(q), "dir")
    <3>1. Sync!Parent(q) \in Paths /\ Sync!Parent(q) # q
      BY PathFacts
    <3>2. Sync!Is(dst, q, "none") \/ Sync!Is(dst, Sync!Parent(q), "dir")
      BY <1>0 DEF Sync!IsTree
    <3>3. CASE q = p
      BY <2>1, <2>2, <3>1, <3>3 DEF MayPut, Sync!Is
    <3>4. CASE q # p /\ Sync!Parent(q) = p
      <4>1. q \in Sync!Below(p)
        BY <3>4 DEF Sync!Below
      <4> QED
        BY <2>1, <2>2, <3>4, <4>1 DEF MayPut, Sync!Is
    <3>5. CASE q # p /\ Sync!Parent(q) # p
      BY <2>2, <3>1, <3>2, <3>5 DEF Sync!Is
    <3> QED
      BY <3>3, <3>4, <3>5
  <2> QED
    BY <1>1, <2>2, <2>3, <2>4, <2>5, <2>6, <2>7 DEF Done, Sync!IsTree
<1> QED
  BY <1>1, <1>2, <1>3

\* What a step does to the calls of sync_directories: it leaves them alone, ends
\* them all, begins one, ends one, goes from its first loop to the second, or
\* takes a name.
Begins ==
    /\ Len(stack') = Len(stack) + 1
    /\ stack'[1] = [dir |-> sd_item, loop |-> "src", left |-> Sync!Children(src, sd_item)]
    /\ \A k \in 1 .. Len(stack) : stack'[k + 1] = stack[k]
Ends ==
    /\ Len(stack') + 1 = Len(stack)
    /\ \A k \in 1 .. Len(stack') : stack'[k] = stack[k + 1]
Turned(e) ==
    /\ Len(stack') = Len(stack) /\ stack'[1] = e /\ e.dir = stack[1].dir
    /\ \A k \in 2 .. Len(stack) : stack'[k] = stack[k]

\* A call begins at the item in hand.
LEMMA OpenBothStacks ==
  ASSUME SyncInv, Sync!OpenBoth
  PROVE  stack' \in Seq(CallTypes) /\ Begins
<1> DEFINE new == [dir |-> sd_item, loop |-> "src", left |-> Sync!Children(src, sd_item)]
<1>1. new \in CallTypes
  BY DEF SyncInv, SyncTypes, CallTypes, Sync!Children, Sync!Below
<1>2. stack' = <<new>> \o stack
  BY DEF Sync!OpenBoth
<1> HIDE DEF new
<1>3. /\ <<new>> \in Seq(CallTypes) /\ Len(<<new>>) = 1 /\ <<new>>[1] = new
      /\ stack \in Seq(CallTypes) /\ Len(stack) \in Nat
  BY <1>1, StackFacts
<1>4. /\ stack' \in Seq(CallTypes) /\ Len(stack') = 1 + Len(stack)
      /\ \A k \in 1 .. 1 + Len(stack) : stack'[k] = IF k <= 1 THEN <<new>>[k] ELSE stack[k - 1]
  BY <1>2, <1>3, ConcatProperties
<1>5. 1 \in 1 .. 1 + Len(stack) /\ \A k \in 1 .. Len(stack) : k + 1 \in 1 .. 1 + Len(stack) /\ ~(k + 1 <= 1) /\ k + 1 - 1 = k
  BY <1>3
<1>6. stack'[1] = new /\ \A k \in 1 .. Len(stack) : stack'[k + 1] = stack[k]
  BY <1>3, <1>4, <1>5
<1> QED
  BY <1>3, <1>4, <1>6 DEF Begins, new

\* A call goes from the first loop to the second, or ends.
LEMMA EndLoopStacks ==
  ASSUME SyncInv, Sync!EndLoop
  PROVE  LET top == stack[1]
         IN  /\ stack # << >> /\ place = "scan" /\ top.left = {} /\ stack' \in Seq(CallTypes)
             /\ \/ /\ top.loop = "src" /\ place' = "scan"
                   /\ Turned([dir |-> top.dir, loop |-> "dst", left |-> Sync!Children(dst, top.dir)])
                \/ /\ top.loop = "dst" /\ place' = (IF Len(stack) = 1 THEN "over" ELSE "scan")
                   /\ Ends
<1>1. /\ stack # << >> /\ stack \in Seq(CallTypes) /\ Len(stack) \in Nat /\ Len(stack) > 0
      /\ place = "scan" /\ Head(stack) = stack[1] /\ stack[1] \in CallTypes
  <2>1. place = "scan"
    BY DEF Sync!EndLoop
  <2>2. stack # << >>
    BY <2>1 DEF SyncInv, Calls
  <2>3. 1 \in 1 .. Len(stack)
    BY <2>2, StackFacts
  <2> QED
    BY <2>1, <2>2, <2>3, StackFacts
<1>2. /\ Tail(stack) \in Seq(CallTypes) /\ Len(Tail(stack)) = Len(stack) - 1
      /\ \A k \in 1 .. Len(Tail(stack)) : Tail(stack)[k] = stack[k + 1]
      /\ Tail(stack) = << >> <=> Len(stack) = 1
  <2>1. /\ Tail(stack) \in Seq(CallTypes) /\ Len(Tail(stack)) = Len(stack) - 1
        /\ \A k \in 1 .. Len(Tail(stack)) : Tail(stack)[k] = stack[k + 1]
    BY <1>1, HeadTailProperties
  <2>2. Tail(stack) = << >> <=> Len(Tail(stack)) = 0
    BY <2>1, EmptySeq
  <2> QED
    BY <1>1, <2>1, <2>2
<1> DEFINE second == [dir |-> stack[1].dir, loop |-> "dst", left |-> Sync!Children(dst, stack[1].dir)]
<1>3. /\ stack[1].left = {}
      /\ IF stack[1].loop = "src"
         THEN stack' = <<second>> \o Tail(stack) /\ place' = "scan"
         ELSE stack' = Tail(stack) /\ place' = (IF Tail(stack) = << >> THEN "over" ELSE "scan")
  BY <1>1 DEF Sync!EndLoop, Sync!Goto
<1>4. second \in CallTypes /\ second.dir = stack[1].dir /\ stack[1].loop \in {"src", "dst"}
  BY <1>1 DEF CallTypes, Sync!Children, Sync!Below
<1> HIDE DEF second
<1>5. CASE stack[1].loop = "src"
  <2>1. <<second>> \in Seq(CallTypes) /\ Len(<<second>>) = 1 /\ <<second>>[1] = second
    BY <1>4
  <2>2. /\ stack' \in Seq(CallTypes) /\ Len(stack') = 1 + Len(Tail(stack))
        /\ \A k \in 1 .. 1 + Len(Tail(stack)) :
              stack'[k] = IF k <= 1 THEN <<second>>[k] ELSE Tail(stack)[k - 1]
    <3>1. stack' = <<second>> \o Tail(stack)
      BY <1>3, <1>5
    <3>2. \A x, y \in Seq(CallTypes) :
             /\ x \o y \in Seq(CallTypes) /\ Len(x \o y) = Len(x) + Len(y)
             /\ \A k \in 1 .. Len(x) + Len(y) : (x \o y)[k] = IF k <= Len(x) THEN x[k] ELSE y[k - Len(x)]
      BY ConcatProperties
    <3>3. /\ stack' \in Seq(CallTypes) /\ Len(stack') = Len(<<second>>) + Len(Tail(stack))
          /\ \A k \in 1 .. Len(<<second>>) + Len(Tail(stack)) :
                stack'[k] = IF k <= Len(<<second>>) THEN <<second>>[k] ELSE Tail(stack)[k - Len(<<second>>)]
      BY <1>2, <2>1, <3>1, <3>2, Zenon
    <3> QED
      BY <2>1, <3>3
  <2>3. Len(stack') = Len(stack) /\ 1 \in 1 .. 1 + Len(Tail(stack))
    BY <1>1, <1>2, <2>2
  <2>4. stack'[1] = second
    BY <2>1, <2>2, <2>3
  <2>5. ASSUME NEW k \in 2 .. Len(stack) PROVE stack'[k] = stack[k]
    <3>1. k \in 1 .. 1 + Len(Tail(stack)) /\ ~(k <= 1) /\ k - 1 \in 1 .. Len(Tail(stack)) /\ k - 1 + 1 = k
      BY <1>1, <1>2
    <3> QED
      BY <1>2, <2>2, <3>1
  <2> QED
    BY <1>1, <1>3, <1>4, <1>5, <2>2, <2>3, <2>4, <2>5 DEF Turned, second
<1>6. CASE stack[1].loop = "dst"
  <2>1. stack' = Tail(stack) /\ place' = (IF Tail(stack) = << >> THEN "over" ELSE "scan")
    BY <1>3, <1>6
  <2>2. Len(stack') = Len(stack) - 1
    BY <1>2, <2>1
  <2>3. Len(stack') + 1 = Len(stack)
    BY <1>1, <2>2
  <2> QED
    BY <1>1, <1>2, <1>3, <1>6, <2>1, <2>3 DEF Ends
<1> QED
  BY <1>4, <1>5, <1>6

\* The topmost call takes a name.
LEMMA NextEntryStacks ==
  ASSUME SyncInv, Sync!NextEntry
  PROVE  /\ stack # << >> /\ place = "scan" /\ place' = "item" /\ stack' \in Seq(CallTypes)
         /\ sd_item' \in stack[1].left /\ Turned([stack[1] EXCEPT !.left = @ \ {sd_item'}])
<1>1. /\ stack # << >> /\ stack \in Seq(CallTypes) /\ Len(stack) \in Nat /\ 1 \in 1 .. Len(stack)
      /\ place = "scan" /\ Head(stack) = stack[1] /\ stack[1] \in CallTypes
  <2>1. place = "scan"
    BY DEF Sync!NextEntry, Sync!Goto
  <2>2. stack # << >>
    BY <2>1 DEF SyncInv, Calls
  <2>3. 1 \in 1 .. Len(stack)
    BY <2>2, StackFacts
  <2> QED
    BY <2>1, <2>2, <2>3, StackFacts
<1>2. sd_item' \in stack[1].left /\ place' = "item" /\ stack' = [stack EXCEPT ![1].left = @ \ {sd_item'}]
  BY <1>1 DEF Sync!NextEntry, Sync!Goto
<1>3. stack \in [1 .. Len(stack) -> CallTypes]
  BY <1>1, LenProperties
<1> DEFINE e == [stack[1] EXCEPT !.left = @ \ {sd_item'}]
<1>4. e \in CallTypes /\ e.dir = stack[1].dir
  BY <1>1 DEF CallTypes
<1>5. stack' = [stack EXCEPT ![1] = e]
  BY <1>2
<1> HIDE DEF e
<1>6. stack' \in Seq(CallTypes) /\ Len(stack') = Len(stack)
  BY <1>1, <1>4, <1>5
<1>7. stack'[1] = e /\ \A k \in 2 .. Len(stack) : stack'[k] = stack[k]
  BY <1>1, <1>3, <1>5
<1> QED
  BY <1>1, <1>2, <1>4, <1>6, <1>7 DEF Turned, e

\* The steps within the work on an entry, and those that leave everything.
Inside ==
    Sync!Decide \/ Sync!RemoveOne \/ Sync!RemoveEnds \/ Sync!RemoveFails \/ Sync!Replace
    \/ Sync!CopyOpen \/ Sync!CopyWrite \/ Sync!Stamp
Leaves ==
    Sync!NoSource \/ Sync!OpenFails \/ Sync!CopyFails \/ Sync!Killed \/ Sync!Again

\* What these have in common.
LEMMA StepKinds ==
  ASSUME SyncInv
  PROVE  /\ Sync!Next => \/ Inside \/ Leaves \/ Sync!Start \/ Sync!OpenBoth \/ Sync!NextEntry
                         \/ Sync!EndLoop
         /\ Inside => /\ UNCHANGED <<stack, sd_item, runs>>
                      /\ place \in {"item", "remove", "replace", "copy", "write", "stamp"}
                      /\ place' \in {"open", "scan", "remove", "replace", "copy", "write", "stamp"}
                      /\ errors' \in BOOLEAN /\ (errors => errors')
         /\ Leaves => /\ stack' = << >> /\ place' \in {"idle", "over"} /\ UNCHANGED <<sd_item, runs, errors>>
                      /\ place' = "over" => sd_item = << >> /\ Sync!Is(src, << >>, "none")
<1>1. Sync!Next => \/ Inside \/ Leaves \/ Sync!Start \/ Sync!OpenBoth \/ Sync!NextEntry \/ Sync!EndLoop
  BY DEF Sync!Next, Sync!Program, Inside, Leaves
<1>2. errors \in BOOLEAN
  BY DEF SyncInv, SyncTypes
<1>3. ASSUME Inside
      PROVE  /\ UNCHANGED <<stack, sd_item, runs>>
             /\ place \in {"item", "remove", "replace", "copy", "write", "stamp"}
             /\ place' \in {"open", "scan", "remove", "replace", "copy", "write", "stamp"}
             /\ errors' \in BOOLEAN /\ (errors => errors')
  <2>1. Sync!Decide => errors' = errors \/ errors' = (errors \/ (Sync!Is(src, sd_item, "dir") /\ Sync!Is(dst, sd_item, "none")))
    BY DEF Sync!Decide
  <2>2. Sync!Decide => errors' \in BOOLEAN /\ (errors => errors')
    BY <1>2, <2>1, Zenon DEF Sync!Is
  <2>3. CASE Sync!Decide
    BY <2>2, <2>3 DEF Sync!Decide, Sync!Goto, Sync!Choose
  <2>4. CASE ~Sync!Decide
    BY <1>2, <1>3, <2>4
       DEF Inside, Sync!Goto, Sync!RemoveOne, Sync!RemoveEnds, Sync!RemoveFails, Sync!Replace,
           Sync!CopyOpen, Sync!CopyWrite, Sync!Stamp
  <2> QED
    BY <2>3, <2>4
<1>4. ASSUME Leaves
      PROVE  /\ stack' = << >> /\ place' \in {"idle", "over"} /\ UNCHANGED <<sd_item, runs, errors>>
             /\ place' = "over" => sd_item = << >> /\ Sync!Is(src, << >>, "none")
  <2>1. CASE Sync!NoSource
    <3>1. /\ place = "open" /\ place' = "over" /\ Sync!Is(src, sd_item, "none")
          /\ UNCHANGED <<sd_item, stack, runs, errors>>
      BY <2>1 DEF Sync!NoSource, Sync!Goto
    <3>2. stack = << >>
      BY <3>1 DEF SyncInv, InWork, Sync!Is
    <3>3. sd_item = << >>
      BY <3>1, <3>2 DEF SyncInv, Calls
    <3> QED
      BY <3>1, <3>2, <3>3
  <2>2. CASE Sync!Again
    BY <2>2 DEF Sync!Again, Sync!Goto, SyncInv, Calls
  <2>3. CASE Sync!OpenFails \/ Sync!CopyFails \/ Sync!Killed
    BY <2>3 DEF Sync!OpenFails, Sync!CopyFails, Sync!Killed, Sync!Goto
  <2> QED
    BY <1>4, <2>1, <2>2, <2>3 DEF Leaves
<1> QED
  BY <1>1, <1>3, <1>4

\* The types of the synchroniser's variables are kept.
LEMMA SyncTypesStep ==
  ASSUME Sync!PathsAssumption, SyncInv, [Sync!Next]_(Sync!vars)
  PROVE  SyncTypes'
<1>1. /\ src' = src /\ dst' \in [Paths -> {Sync!None, Sync!Dir} \cup FilesOf(Data \cup {Sync!Partial}, BOOLEAN)]
      /\ Sync!IsTree(dst)' /\ Sync!IsTree(src)' /\ ~Sync!Is(src, << >>, "file")'
  BY Kept DEF Values, SyncInv, SyncTypes, Sync!IsTree, Sync!Is
<1>10. unnoticed' \subseteq Paths
  <2>1. unnoticed \subseteq Paths /\ sd_item \in Paths
    BY DEF SyncInv, SyncTypes
  <2>2. CASE Sync!Start
    BY <2>2 DEF Sync!Start
  <2>3. CASE Sync!CopyWrite \/ Sync!Stamp
    <3>1. unnoticed' = unnoticed \/ unnoticed' = unnoticed \cup {sd_item}
      BY <2>3, Zenon DEF Sync!CopyWrite, Sync!Stamp
    <3> QED
      BY <2>1, <3>1
  <2>4. CASE ~(Sync!Start \/ Sync!CopyWrite \/ Sync!Stamp)
    <3>1. unnoticed' = unnoticed
      BY <2>4, Zenon
         DEF Sync!vars, Sync!Next, Sync!Program, Sync!Killed, Sync!Again, Sync!NoSource, Sync!OpenBoth,
             Sync!OpenFails, Sync!NextEntry, Sync!EndLoop, Sync!Decide, Sync!RemoveOne, Sync!RemoveEnds,
             Sync!RemoveFails, Sync!Replace, Sync!CopyOpen, Sync!CopyFails
    <3> QED
      BY <2>1, <3>1
  <2> QED
    BY <2>2, <2>3, <2>4
<1> SUFFICES ASSUME TRUE
             PROVE  /\ place' \in {"idle", "open", "scan", "item", "remove", "replace", "copy",
                                   "write", "stamp", "over"}
                    /\ sd_item' \in Paths /\ runs' \in 0 .. MAX_RUNS /\ errors' \in BOOLEAN
                    /\ stack' \in Seq(CallTypes)
  BY <1>1, <1>10 DEF SyncTypes, SyncInv, CallTypes
<1>2. /\ sd_item \in Paths /\ runs \in 0 .. MAX_RUNS /\ errors \in BOOLEAN
      /\ stack \in Seq(CallTypes) /\ << >> \in Paths
      /\ << >> \in Seq(CallTypes)
  BY StackFacts, EmptySeq DEF SyncInv, SyncTypes, Sync!PathsAssumption
<1>3. CASE Inside
  BY <1>2, <1>3, StepKinds
<1>4. CASE Leaves
  BY <1>2, <1>4, StepKinds
<1>5. CASE Sync!Start
  <2>1. runs + 1 \in 0 .. MAX_RUNS
    BY <1>2, <1>5 DEF Sync!Start, Sync!PathsAssumption
  <2> QED
    BY <1>2, <1>5, <2>1 DEF Sync!Start, Sync!Goto
<1>6. CASE Sync!OpenBoth
  BY <1>2, <1>6, OpenBothStacks DEF Sync!OpenBoth, Sync!Goto
<1>7. CASE Sync!NextEntry
  <2>1. sd_item' \in Paths
    <3>1. sd_item' \in stack[1].left /\ 1 \in 1 .. Len(stack)
      BY <1>7, NextEntryStacks, StackFacts
    <3>2. stack[1].left \in SUBSET Paths
      BY <3>1, StackFacts DEF CallTypes
    <3> QED
      BY <3>1, <3>2
  <2> QED
    BY <1>2, <1>7, <2>1, NextEntryStacks DEF Sync!NextEntry
<1>8. CASE Sync!EndLoop
  BY <1>2, <1>8, EndLoopStacks DEF Sync!EndLoop
<1>9. CASE UNCHANGED Sync!vars
  BY <1>2, <1>9 DEF Sync!vars, SyncInv, SyncTypes
<1> QED
  BY <1>3, <1>4, <1>5, <1>6, <1>7, <1>8, <1>9, StepKinds

\* The calls stay a chain of directories up to the root.
LEMMA CallsStep ==
  ASSUME Sync!PathsAssumption, SyncInv, [Sync!Next]_(Sync!vars)
  PROVE  Calls'
<1>0. /\ stack \in Seq(CallTypes) /\ Len(stack) \in Nat /\ (stack # << >> <=> Len(stack) > 0) /\ Calls
      /\ src' = src /\ \A k \in 1 .. Len(stack) : Sync!Is(dst', stack[k].dir, "dir")
  BY StackFacts, Kept DEF SyncInv
<1>1. ASSUME stack' = stack
      PROVE  \A k \in 1 .. Len(stack') :
                /\ stack'[k].left \subseteq Sync!Below(stack'[k].dir)
                /\ Sync!Is(src', stack'[k].dir, "dir") /\ Sync!Is(dst', stack'[k].dir, "dir")
                /\ IF k = Len(stack') THEN stack'[k].dir = << >>
                   ELSE stack'[k].dir \in Sync!Below(stack'[k + 1].dir)
  BY <1>0, <1>1 DEF Calls
<1>2. CASE Inside
  <2>1. /\ UNCHANGED <<stack, sd_item>>
        /\ place \in {"item", "remove", "replace", "copy", "write", "stamp"}
        /\ place' \in {"open", "scan", "remove", "replace", "copy", "write", "stamp"}
    BY <1>2, StepKinds
  <2>2. stack # << >> /\ sd_item \in Sync!Below(stack[1].dir)
    BY <1>0, <2>1 DEF Calls
  <2> QED
    BY <1>0, <1>1, <2>1, <2>2 DEF Calls
<1>3. CASE Leaves
  <2>1. stack' = << >> /\ Len(stack') = 0 /\ place' \in {"idle", "over"}
    BY <1>3, StepKinds
  <2> QED
    BY <2>1 DEF Calls
<1>4. CASE Sync!Start
  <2>1. stack' = << >> /\ Len(stack') = 0 /\ place' = "open" /\ sd_item' = << >>
    BY <1>0, <1>4 DEF Sync!Start, Sync!Goto, Calls
  <2> QED
    BY <2>1 DEF Calls
<1>5. CASE UNCHANGED Sync!vars
  BY <1>0, <1>1, <1>5 DEF Sync!vars, Calls
<1>6. CASE Sync!OpenBoth
  <2>1. /\ place = "open" /\ place' = "scan" /\ ~Sync!Is(src, sd_item, "none")
        /\ sd_item' = sd_item /\ Sync!Is(dst', sd_item, "dir")
    BY <1>6 DEF Sync!OpenBoth, Sync!Goto
  <2>2. /\ Len(stack') = Len(stack) + 1
        /\ stack'[1].dir = sd_item /\ stack'[1].left = Sync!Children(src, sd_item)
        /\ \A k \in 1 .. Len(stack) : stack'[k + 1] = stack[k]
        /\ stack' \in Seq(CallTypes)
    BY <1>6, OpenBothStacks DEF Begins
  <2>3. Sync!Is(src, sd_item, "dir")
    <3>1. CASE stack = << >>
      <4>1. sd_item = << >> /\ src[sd_item].kind \in {"none", "dir", "file"}
        BY <1>0, <2>1, <3>1, ValueFacts DEF Calls, SyncInv, SyncTypes, SourceValues
      <4> QED
        BY <2>1, <4>1 DEF SyncInv, SyncTypes, Sync!Is
    <3>2. CASE stack # << >>
      BY <2>1, <3>2 DEF SyncInv, InWork
    <3> QED
      BY <3>1, <3>2
  <2>4. stack' # << >>
    BY <1>0, <2>2
  <2>5. ASSUME NEW k \in 1 .. Len(stack')
        PROVE  /\ stack'[k].left \subseteq Sync!Below(stack'[k].dir)
               /\ Sync!Is(src', stack'[k].dir, "dir") /\ Sync!Is(dst', stack'[k].dir, "dir")
               /\ IF k = Len(stack') THEN stack'[k].dir = << >>
                  ELSE stack'[k].dir \in Sync!Below(stack'[k + 1].dir)
    <3>1. CASE k = 1 /\ stack = << >>
      <4>1. sd_item = << >> /\ k = Len(stack')
        BY <1>0, <2>1, <2>2, <3>1 DEF Calls
      <4> QED
        BY <1>0, <2>1, <2>2, <2>3, <3>1, <4>1 DEF Sync!Children
    <3>2. CASE k = 1 /\ stack # << >>
      <4>1. k # Len(stack') /\ stack'[k + 1] = stack[1] /\ sd_item \in Sync!Below(stack[1].dir)
        BY <1>0, <2>1, <2>2, <3>2 DEF Calls
      <4> QED
        BY <1>0, <2>1, <2>2, <2>3, <3>2, <4>1 DEF Sync!Children
    <3>3. CASE k # 1
      <4>1. PICK l \in 1 .. Len(stack) : l + 1 = k /\ (k = Len(stack') <=> l = Len(stack))
        <5>1. k - 1 \in 1 .. Len(stack) /\ k - 1 + 1 = k /\ (k = Len(stack') <=> k - 1 = Len(stack))
          BY <1>0, <2>2, <3>3
        <5> QED
          BY <5>1
      <4>2. stack'[k] = stack[l]
        BY <2>2, <4>1
      <4>3. k # Len(stack') => stack'[k + 1] = stack[l + 1]
        <5>1. Len(stack) \in Nat /\ Len(stack') = Len(stack) + 1
          BY <1>0, <2>2
        <5>2. k # Len(stack') => k \in 1 .. Len(stack)
          BY <5>1
        <5> QED
          BY <2>2, <4>1, <5>2
      <4> QED
        BY <1>0, <4>1, <4>2, <4>3 DEF Calls
    <3> QED
      BY <3>1, <3>2, <3>3
  <2> QED
    BY <2>1, <2>4, <2>5 DEF Calls
<1>7. ASSUME NEW e, Turned(e), e.left \subseteq Sync!Below(e.dir), stack # << >>
      PROVE  /\ stack' # << >>
             /\ \A k \in 1 .. Len(stack') :
                  /\ stack'[k].left \subseteq Sync!Below(stack'[k].dir)
                  /\ Sync!Is(src', stack'[k].dir, "dir") /\ Sync!Is(dst', stack'[k].dir, "dir")
                  /\ IF k = Len(stack') THEN stack'[k].dir = << >>
                     ELSE stack'[k].dir \in Sync!Below(stack'[k + 1].dir)
  <2>1. /\ Len(stack') = Len(stack) /\ stack'[1] = e /\ e.dir = stack[1].dir
        /\ \A k \in 2 .. Len(stack) : stack'[k] = stack[k]
    BY <1>7 DEF Turned
  <2>2. stack' # << >>
    BY <1>0, <1>7, <2>1
  <2>3. ASSUME NEW k \in 1 .. Len(stack')
        PROVE  /\ k \in 1 .. Len(stack) /\ stack'[k].dir = stack[k].dir
               /\ stack'[k].left \subseteq Sync!Below(stack'[k].dir)
               /\ k # Len(stack') => stack'[k + 1] = stack[k + 1]
    <3>1. k \in 1 .. Len(stack) /\ (k = 1 \/ k \in 2 .. Len(stack)) /\ (k # Len(stack') => k + 1 \in 2 .. Len(stack))
      BY <1>0, <2>1
    <3> QED
      BY <1>0, <1>7, <2>1, <3>1 DEF Calls
  <2> QED
    BY <1>0, <2>1, <2>2, <2>3 DEF Calls
<1>8. CASE Sync!NextEntry
  <2> DEFINE e == [stack[1] EXCEPT !.left = @ \ {sd_item'}]
  <2>1. /\ stack # << >> /\ place' = "item" /\ sd_item' \in stack[1].left /\ Turned(e) /\ 1 \in 1 .. Len(stack)
    BY <1>0, <1>8, NextEntryStacks
  <2>2. e.left \subseteq stack[1].left /\ e.dir = stack[1].dir
    BY <2>1, StackFacts DEF CallTypes
  <2>3. stack[1].left \subseteq Sync!Below(stack[1].dir) /\ stack'[1].dir = stack[1].dir
    BY <1>0, <2>1, <2>2 DEF Calls, Turned
  <2> HIDE DEF e
  <2>4. /\ stack' # << >>
        /\ \A k \in 1 .. Len(stack') :
             /\ stack'[k].left \subseteq Sync!Below(stack'[k].dir)
             /\ Sync!Is(src', stack'[k].dir, "dir") /\ Sync!Is(dst', stack'[k].dir, "dir")
             /\ IF k = Len(stack') THEN stack'[k].dir = << >>
                ELSE stack'[k].dir \in Sync!Below(stack'[k + 1].dir)
    BY <1>7, <2>1, <2>2, <2>3
  <2> QED
    BY <2>1, <2>3, <2>4 DEF Calls
<1>9. CASE Sync!EndLoop
  <2> DEFINE e == [dir |-> stack[1].dir, loop |-> "dst", left |-> Sync!Children(dst, stack[1].dir)]
  <2>1. /\ stack # << >>
        /\ \/ place' = "scan" /\ Turned(e)
           \/ place' = (IF Len(stack) = 1 THEN "over" ELSE "scan") /\ Ends
        /\ stack' \in Seq(CallTypes)
    BY <1>9, EndLoopStacks
  <2>2. CASE place' = "scan" /\ Turned(e)
    <3>1. e.left \subseteq Sync!Below(e.dir)
      BY DEF Sync!Children
    <3> HIDE DEF e
    <3> QED
      BY <1>7, <2>1, <2>2, <3>1 DEF Calls
  <2>3. CASE place' = (IF Len(stack) = 1 THEN "over" ELSE "scan") /\ Ends
    <3>1. /\ Len(stack') + 1 = Len(stack) /\ Len(stack') \in Nat
          /\ \A k \in 1 .. Len(stack') : stack'[k] = stack[k + 1]
      BY <2>1, <2>3, LenProperties DEF Ends
    <3>2. (Len(stack) = 1 <=> stack' = << >>) /\ place' \in {"over", "scan"}
          /\ (place' = "over" <=> stack' = << >>)
      <4>1. stack' = << >> <=> Len(stack') = 0
        BY <2>1, EmptySeq
      <4>2. Len(stack') + 1 = Len(stack) /\ Len(stack') \in Nat /\ Len(stack) \in Nat
        BY <1>0, <3>1
      <4>5. \A a, b \in Nat : a + 1 = b => (b = 1 <=> a = 0)
        OBVIOUS
      <4>3. Len(stack) = 1 <=> Len(stack') = 0
        BY <4>2, <4>5, Zenon
      <4> QED
        BY <2>3, <4>1, <4>3
    <3>3. ASSUME NEW k \in 1 .. Len(stack')
          PROVE  /\ stack'[k].left \subseteq Sync!Below(stack'[k].dir)
                 /\ Sync!Is(src', stack'[k].dir, "dir") /\ Sync!Is(dst', stack'[k].dir, "dir")
                 /\ IF k = Len(stack') THEN stack'[k].dir = << >>
                    ELSE stack'[k].dir \in Sync!Below(stack'[k + 1].dir)
      <4>1. k + 1 \in 1 .. Len(stack) /\ (k + 1 = Len(stack) <=> k = Len(stack'))
            /\ (k # Len(stack') => k + 1 \in 1 .. Len(stack'))
        BY <3>1
      <4> QED
        BY <1>0, <3>1, <4>1 DEF Calls
    <3> QED
      BY <3>2, <3>3 DEF Calls
  <2> QED
    BY <2>1, <2>2, <2>3
<1> QED
  BY <1>2, <1>3, <1>4, <1>5, <1>6, <1>8, <1>9, StepKinds

\* What has been found out about the item in hand stays true.
LEMMA InWorkStep ==
  ASSUME Sync!PathsAssumption, SyncInv, [Sync!Next]_(Sync!vars)
  PROVE  InWork'
<1>0. /\ src' = src /\ InWork /\ sd_item \in Paths /\ dst \in [Paths -> Values]
      /\ src[sd_item] \in SourceValues /\ dst[sd_item] \in Values
  BY Kept DEF SyncInv, SyncTypes, SourceValues, Values
<1>1. ASSUME place' \in {"idle", "scan", "item", "over"} \/ (place' = "open" /\ stack' = << >>) PROVE InWork'
  BY <1>1 DEF InWork
<1>2. CASE Leaves \/ Sync!Start \/ Sync!OpenBoth \/ Sync!NextEntry \/ Sync!EndLoop
  <2>1. Sync!Start => place' = "open" /\ stack' = << >>
    BY DEF Sync!Start, Sync!Goto, SyncInv, Calls
  <2>2. Sync!OpenBoth => place' = "scan"
    BY DEF Sync!OpenBoth, Sync!Goto
  <2>3. Sync!NextEntry => place' = "item"
    BY DEF Sync!NextEntry, Sync!Goto
  <2>4. Sync!EndLoop => place' \in {"scan", "over"}
    BY EndLoopStacks
  <2> QED
    BY <1>1, <1>2, <2>1, <2>2, <2>3, <2>4, StepKinds
<1>3. CASE UNCHANGED Sync!vars
  BY <1>0, <1>3 DEF Sync!vars, InWork, Sync!Is, Sync!Agrees
<1>4. CASE Sync!Decide
  <2>1. UNCHANGED <<src, dst, sd_item, stack>> /\ place' = Sync!Choose
    BY <1>4 DEF Sync!Decide, Sync!Goto
  <2>2. src[sd_item].kind \in {"none", "dir", "file"} /\ (src[sd_item].kind = "file" => src[sd_item].stamped)
    BY <1>0, ValueFacts
  <2>3. place' = "open" => Sync!Is(src, sd_item, "dir")
    BY <2>1 DEF Sync!Choose
  <2>4. place' = "remove" => Sync!Is(src, sd_item, "none")
    BY <2>1 DEF Sync!Choose
  <2>5. place' = "replace" => Sync!Is(src, sd_item, "dir") /\ Sync!Is(dst, sd_item, "file")
    BY <2>1 DEF Sync!Choose
  <2>6. place' = "copy" => Sync!Is(src, sd_item, "file") /\ ~(Sync!Is(dst, sd_item, "file") /\ dst[sd_item].stamped)
    BY <2>1, <2>2 DEF Sync!Choose, Sync!Differ, Sync!Is
  <2>7. place' = "copy" => ~Sync!Agrees(sd_item) /\ ~Sync!Is(src, sd_item, "none")
    BY <2>2, <2>6 DEF Sync!Agrees, Sync!Is
  <2>8. place' \notin {"write", "stamp"}
    BY <2>1 DEF Sync!Choose
  <2> QED
    BY <2>1, <2>3, <2>4, <2>5, <2>6, <2>7, <2>8 DEF InWork, Sync!Is, Sync!Agrees
<1>5. CASE Sync!RemoveOne
  BY <1>0, <1>5 DEF Sync!RemoveOne, InWork, Sync!Is
<1>6. CASE Sync!RemoveEnds \/ Sync!RemoveFails \/ Sync!Stamp
  BY <1>1, <1>6 DEF Sync!RemoveEnds, Sync!RemoveFails, Sync!Stamp, Sync!Goto
<1>7. CASE Sync!Replace
  <2>1. /\ Sync!Is(src, sd_item, "dir") /\ Sync!Is(dst, sd_item, "file") /\ UNCHANGED <<src, sd_item>>
        /\ \/ place' = "open"
           \/ place' = "copy" /\ errors' = TRUE /\ dst' = dst
    BY <1>0, <1>7 DEF Sync!Replace, Sync!Goto, InWork
  <2> QED
    BY <2>1 DEF InWork, Sync!Is, Sync!Agrees
<1>8. CASE Sync!CopyOpen
  <2>1. /\ place = "copy" /\ place' = "write" /\ UNCHANGED <<src, sd_item, errors>>
        /\ dst'[sd_item] = Sync!File(Sync!Partial, FALSE)
    BY <1>0, <1>8 DEF Sync!CopyOpen, Sync!Goto
  <2>2. dst'[sd_item].kind = "file" /\ ~dst'[sd_item].stamped
    BY <2>1 DEF Sync!File
  <2> QED
    BY <1>0, <2>1, <2>2 DEF InWork, Sync!Is
<1>9. CASE Sync!CopyWrite
  <2>1. /\ place = "write" /\ place' = "stamp" /\ UNCHANGED <<src, sd_item, errors>>
        /\ \/ dst'[sd_item] = [dst[sd_item] EXCEPT !.data = IF Sync!Is(src, sd_item, "file") THEN src[sd_item].data ELSE @]
           \/ dst' = dst /\ sd_item \in unnoticed'
    BY <1>0, <1>9 DEF Sync!CopyWrite, Sync!Goto
  <2>2. dst[sd_item] \in FilesOf(Data \cup {Sync!Partial}, BOOLEAN) /\ ~dst[sd_item].stamped
    BY <1>0, <2>1, ValueFacts DEF InWork, Sync!Is
  <2>3. /\ dst'[sd_item].kind = "file" /\ ~dst'[sd_item].stamped
        /\ Sync!Is(src, sd_item, "file") => dst'[sd_item].data = src[sd_item].data \/ sd_item \in unnoticed'
    BY <2>1, <2>2 DEF FilesOf
  <2> QED
    BY <1>0, <2>1, <2>3 DEF InWork, Sync!Is
<1> QED
  BY <1>2, <1>3, <1>4, <1>5, <1>6, <1>7, <1>8, <1>9, StepKinds DEF Inside

\* Trees that have no directory at a path agree below it.
LEMMA LeavesAgree ==
  ASSUME Sync!PathsAssumption, NEW a, NEW b, a \in [Paths -> Values], b \in [Paths -> Values],
         Sync!IsTree(a), Sync!IsTree(b), NEW p \in Paths, ~Sync!Is(a, p, "dir"), ~Sync!Is(b, p, "dir"),
         NEW q \in Paths, Under(p, q), q # p
  PROVE  a[q] = b[q]
<1>1. Sync!Is(a, q, "none") /\ Sync!Is(b, q, "none")
  BY NothingBelow DEF Sync!Is
<1>2. a[q] = Sync!None /\ b[q] = Sync!None
  BY <1>1, ValueFacts DEF Sync!Is
<1> QED
  BY <1>2

\* When the work on an entry ends without an error the trees agree from it
\* downwards, or it is a file that went wrong.
LEMMA EntryDone ==
  ASSUME Sync!PathsAssumption, SyncInv, Inside, [Sync!Next]_(Sync!vars), place' = "scan", ~errors'
  PROVE  Done(sd_item)'
<1>0. /\ src' = src /\ src \in [Paths -> Values] /\ dst' \in [Paths -> Values] /\ sd_item \in Paths
      /\ Sync!IsTree(src') /\ Sync!IsTree(dst') /\ sd_item' = sd_item /\ errors = FALSE
      /\ src[sd_item] \in SourceValues /\ dst[sd_item] \in Values
  <2>1. /\ src' = src /\ dst' \in [Paths -> Values] /\ sd_item \in Paths /\ Sync!IsTree(dst)' /\ Sync!IsTree(src)
        /\ src \in [Paths -> SourceValues] /\ dst[sd_item] \in Values
    BY Kept DEF SyncInv, SyncTypes, SourceValues, Values
  <2>2. sd_item' = sd_item /\ errors = FALSE
    BY StepKinds DEF SyncInv, SyncTypes
  <2> QED
    BY <2>1, <2>2, ValueFacts DEF Sync!IsTree, Sync!Is
<1> SUFFICES /\ Sync!Agrees(sd_item)' \/ Sync!Resumable(sd_item)'
             /\ ~Sync!Is(src', sd_item, "dir") /\ ~Sync!Is(dst', sd_item, "dir")
  <2>1. \A q \in Paths : Under(sd_item, q) /\ q # sd_item => dst'[q] = src'[q]
    BY <1>0, LeavesAgree
  <2> QED
    BY <1>0, <2>1 DEF Done, Sync!Agrees
<1>1. CASE Sync!Decide
  <2>1. Sync!Is(src, sd_item, "file") /\ Sync!Is(dst, sd_item, "file") /\ dst[sd_item].stamped /\ dst' = dst
    <3>1. place' = Sync!Choose /\ dst' = dst
      BY <1>1 DEF Sync!Decide, Sync!Goto
    <3>2. src[sd_item].kind \in {"none", "dir", "file"}
      BY <1>0, ValueFacts
    <3> QED
      BY <3>1, <3>2 DEF Sync!Choose, Sync!Differ, Sync!Is
  <2>2. dst[sd_item] = src[sd_item]
    BY <1>0, <2>1 DEF SyncInv, Stamped, Sync!Agrees
  <2> QED
    BY <1>0, <2>1, <2>2 DEF Sync!Is, Sync!Agrees
<1>2. CASE Sync!RemoveEnds
  <2>1. Sync!Is(src, sd_item, "none") /\ Sync!Is(dst, sd_item, "none") /\ dst' = dst
    BY <1>2 DEF Sync!RemoveEnds, Sync!Goto, SyncInv, InWork
  <2>2. src[sd_item] = Sync!None /\ dst[sd_item] = Sync!None
    BY <1>0, <2>1, ValueFacts DEF Sync!Is
  <2> QED
    BY <1>0, <2>1, <2>2 DEF Sync!Is, Sync!Agrees
<1>3. CASE Sync!Stamp
  <2> DEFINE whole == Sync!Is(src, sd_item, "file") /\ dst[sd_item].data = src[sd_item].data
  <2>1. /\ place = "stamp" /\ Sync!Is(src, sd_item, "file") /\ Sync!Is(dst, sd_item, "file")
        /\ ~dst[sd_item].stamped /\ (whole \/ sd_item \in unnoticed)
        /\ \/ dst' = [dst EXCEPT ![sd_item].stamped = whole] /\ unnoticed' = unnoticed
           \/ dst' = dst /\ sd_item \in unnoticed'
    BY <1>0, <1>3 DEF Sync!Stamp, Sync!Goto, SyncInv, InWork
  <2>2. dst[sd_item] \in FilesOf(Data \cup {Sync!Partial}, BOOLEAN) /\ src[sd_item] \in FilesOf(Data, {TRUE})
    BY <1>0, <2>1, ValueFacts DEF Sync!Is
  <2>3. CASE dst' = dst /\ sd_item \in unnoticed'
    BY <1>0, <2>1, <2>3 DEF Sync!Resumable, Sync!Is
  <2>4. CASE dst' = [dst EXCEPT ![sd_item].stamped = whole] /\ unnoticed' = unnoticed
    <3>1. dst \in [Paths -> Values] /\ whole \in BOOLEAN
      BY DEF SyncInv, SyncTypes, Values, Sync!Is
    <3> HIDE DEF whole
    <3>2. dst'[sd_item] = [dst[sd_item] EXCEPT !.stamped = whole]
      BY <1>0, <2>4, <3>1
    <3>3. dst'[sd_item] = [kind |-> "file", data |-> dst[sd_item].data, stamped |-> whole]
      BY <2>2, <3>1, <3>2 DEF FilesOf
    <3>4. dst'[sd_item].kind = "file" /\ dst'[sd_item].stamped = whole
      BY <3>3
    <3>5. src[sd_item] = [kind |-> "file", data |-> src[sd_item].data, stamped |-> TRUE]
      BY <2>2 DEF FilesOf
    <3>6. CASE whole
      <4>1. dst'[sd_item] = src[sd_item]
        <5>1. whole = TRUE
          BY <3>1, <3>6
        <5> QED
          BY <3>3, <3>5, <3>6, <5>1 DEF whole
      <4> QED
        BY <1>0, <2>1, <3>4, <4>1 DEF Sync!Agrees, Sync!Is
    <3>7. CASE ~whole
      BY <1>0, <2>1, <2>4, <3>4, <3>7 DEF Sync!Resumable, Sync!Is
    <3> QED
      BY <3>6, <3>7
  <2> QED
    BY <2>1, <2>3, <2>4
<1> QED
  BY <1>1, <1>2, <1>3
     DEF Inside, Sync!RemoveOne, Sync!RemoveFails, Sync!Replace, Sync!CopyOpen, Sync!CopyWrite, Sync!Goto

\* What a call has dealt with agrees, and stays so; and when the first call ends
\* the trees agree.
LEMMA ProgressStep ==
  ASSUME Sync!PathsAssumption, SyncInv, [Sync!Next]_(Sync!vars)
  PROVE  Progress' /\ Finished'
<1>0. /\ src' = src /\ (stack # << >> => \A p \in Paths : Done(p) => Done(p)')
      /\ stack \in Seq(CallTypes) /\ Len(stack) \in Nat /\ (stack # << >> <=> Len(stack) > 0)
      /\ errors \in BOOLEAN /\ sd_item \in Paths /\ << >> \in Paths
  BY Kept, StackFacts DEF SyncInv, SyncTypes, Sync!PathsAssumption
<1>1. \A d : Sync!Below(d) \subseteq Paths
  BY DEF Sync!Below
<1>2. ASSUME ~errors, NEW k \in 1 .. Len(stack), NEW p \in Sync!Below(stack[k].dir), DealtWith(k, p)
      PROVE  Done(p)'
  BY <1>0, <1>1, <1>2 DEF SyncInv, Progress
<1>3. CASE Leaves
  <2>1. /\ stack' = << >> /\ Len(stack') = 0
        /\ place' = "over" => Sync!Is(src', << >>, "none")
    BY <1>0, <1>3, StepKinds DEF Sync!Is
  <2> QED
    BY <2>1 DEF Progress, Finished, Sync!Is
<1>4. CASE Sync!Start
  <2>1. stack' = << >> /\ Len(stack') = 0 /\ place' = "open"
    BY <1>4 DEF Sync!Start, Sync!Goto, SyncInv, Calls
  <2> QED
    BY <2>1 DEF Progress, Finished
<1>5. CASE UNCHANGED Sync!vars
  BY <1>5 DEF Sync!vars, SyncInv, Progress, Finished, DealtWith, InHand, Done, Sync!Agrees, Sync!Resumable,
             Sync!Is
<1>6. CASE Inside
  <2>1. /\ stack' = stack /\ sd_item' = sd_item /\ (errors => errors')
        /\ place # "scan" /\ place' # "over"
    BY <1>6, StepKinds
  <2>2. ASSUME ~errors', NEW k \in 1 .. Len(stack), NEW p \in Sync!Below(stack[k].dir), DealtWith(k, p)'
        PROVE  Done(p)'
    <3>1. CASE k = 1 /\ p = sd_item /\ place' = "scan"
      BY <1>6, <2>2, <3>1, EntryDone, <2>1 DEF Done, Sync!Agrees, Sync!Resumable
    <3>2. CASE ~(k = 1 /\ p = sd_item /\ place' = "scan")
      <4>1. InHand(k, p) => InHand(k, p)'
        BY <2>1, <3>2 DEF InHand
      <4>2. DealtWith(k, p)
        BY <1>0, <2>1, <2>2, <4>1 DEF DealtWith, Sync!Is
      <4> QED
        BY <1>2, <2>1, <2>2, <4>2
    <3> QED
      BY <3>1, <3>2
  <2> QED
    BY <2>1, <2>2 DEF Progress, Finished
<1>7. CASE Sync!OpenBoth
  <2>1. place = "open" /\ place' = "scan" /\ UNCHANGED <<sd_item, errors>>
    BY <1>7 DEF Sync!OpenBoth, Sync!Goto
  <2>2. /\ Len(stack') = Len(stack) + 1
        /\ stack'[1] = [dir |-> sd_item, loop |-> "src", left |-> Sync!Children(src, sd_item)]
        /\ \A k \in 1 .. Len(stack) : stack'[k + 1] = stack[k]
    BY <1>7, OpenBothStacks DEF Begins
  <2>3. stack'[1].dir = sd_item /\ stack'[1].loop = "src" /\ stack'[1].left = Sync!Children(src, sd_item)
    BY <2>2
  <2>4. ASSUME ~errors', NEW k \in 1 .. Len(stack'), NEW p \in Sync!Below(stack'[k].dir), DealtWith(k, p)'
        PROVE  Done(p)'
    <3>1. CASE k = 1
      <4>1. p \notin Sync!Children(src, sd_item) /\ ~Sync!Is(src, p, "none") /\ p \in Sync!Below(sd_item)
        BY <1>0, <2>3, <2>4, <3>1 DEF DealtWith, Sync!Is
      <4> QED
        BY <4>1 DEF Sync!Children
    <3>2. CASE k # 1
      <4>1. PICK l \in 1 .. Len(stack) : l + 1 = k /\ (l = 1 <=> k = 2)
        <5>1. k - 1 \in 1 .. Len(stack) /\ k - 1 + 1 = k /\ (k - 1 = 1 <=> k = 2)
          BY <1>0, <2>2, <3>2
        <5> QED
          BY <5>1
      <4>2. stack'[k] = stack[l]
        BY <2>2, <4>1
      <4>3. InHand(l, p) => InHand(k, p)'
        <5>1. CASE l = 1
          <6>1. k - 1 = 1 /\ k # 1
            BY <4>1, <5>1
          <6> QED
            BY <2>1, <2>3, <3>2, <5>1, <6>1 DEF InHand
        <5>2. CASE l # 1
          <6>1. l - 1 \in 1 .. Len(stack) /\ l - 1 + 1 = k - 1
            BY <1>0, <4>1, <5>2
          <6>2. stack'[k - 1] = stack[l - 1]
            BY <2>2, <6>1
          <6> QED
            BY <3>2, <5>2, <6>2 DEF InHand
        <5> QED
          BY <5>1, <5>2
      <4>4. DealtWith(l, p)
        BY <1>0, <2>4, <4>2, <4>3 DEF DealtWith, Sync!Is
      <4> QED
        BY <1>2, <2>1, <2>4, <4>2, <4>4
    <3> QED
      BY <3>1, <3>2
  <2> QED
    BY <2>1, <2>4 DEF Progress, Finished
\* A call that takes a name, or goes to the second loop, leaves the others alone.
<1>8. ASSUME NEW e, Turned(e), NEW k \in 2 .. Len(stack), NEW p, UNCHANGED errors, ~errors,
             p \in Sync!Below(stack'[k].dir), DealtWith(k, p)'
      PROVE  Done(p)'
  <2>1. /\ stack'[k] = stack[k] /\ k \in 1 .. Len(stack) /\ k # 1
        /\ stack'[1].dir = stack[1].dir
    BY <1>0, <1>8 DEF Turned
  <2>2. stack'[k - 1].dir = stack[k - 1].dir
    <3>1. k - 1 = 1 \/ k - 1 \in 2 .. Len(stack)
      BY <1>0, <1>8
    <3> QED
      BY <1>8, <2>1, <3>1 DEF Turned
  <2>3. InHand(k, p) => InHand(k, p)'
    BY <2>1, <2>2 DEF InHand
  <2>4. DealtWith(k, p)
    BY <1>0, <1>8, <2>1, <2>3 DEF DealtWith, Sync!Is
  <2> QED
    BY <1>2, <1>8, <2>1, <2>4
<1>9. CASE Sync!NextEntry
  <2> DEFINE e == [stack[1] EXCEPT !.left = @ \ {sd_item'}]
  <2>0. /\ place = "scan" /\ place' = "item" /\ Turned(e) /\ stack # << >>
    BY <1>9, NextEntryStacks
  <2>1. /\ place = "scan" /\ place' = "item" /\ errors' = errors /\ Turned(e) /\ 1 \in 1 .. Len(stack)
        /\ stack[1] \in CallTypes
    <3>1. 1 \in 1 .. Len(stack)
      BY <1>0, <2>0
    <3>2. errors' = errors
      BY <1>9 DEF Sync!NextEntry
    <3> QED
      BY <2>0, <3>1, <3>2, StackFacts
  <2>2. e.left = stack[1].left \ {sd_item'} /\ e.dir = stack[1].dir /\ e.loop = stack[1].loop
    BY <2>1 DEF CallTypes
  <2> HIDE DEF e
  <2>3. stack'[1] = e /\ Len(stack') = Len(stack)
    BY <2>1 DEF Turned
  <2>4. ASSUME ~errors', NEW k \in 1 .. Len(stack'), NEW p \in Sync!Below(stack'[k].dir), DealtWith(k, p)'
        PROVE  Done(p)'
    <3>1. CASE k = 1
      <4>1. ~InHand(1, p) /\ (p = sd_item' => InHand(1, p)')
        BY <2>1 DEF InHand
      <4>2. DealtWith(1, p)
        BY <1>0, <2>2, <2>3, <2>4, <3>1, <4>1 DEF DealtWith, Sync!Is
      <4> QED
        BY <1>2, <2>1, <2>2, <2>3, <2>4, <3>1, <4>2
    <3>2. CASE k # 1
      <4>1. k \in 2 .. Len(stack)
        BY <1>0, <2>3, <3>2
      <4> QED
        BY <1>8, <2>1, <2>4, <4>1
    <3> QED
      BY <3>1, <3>2
  <2> QED
    BY <2>1, <2>4 DEF Progress, Finished
<1>10. CASE Sync!EndLoop
  <2>0. /\ stack # << >> /\ place = "scan" /\ stack[1].left = {} /\ errors' = errors
        /\ 1 \in 1 .. Len(stack) /\ stack[1] \in CallTypes /\ UNCHANGED <<dst, sd_item>>
    BY <1>0, <1>10, EndLoopStacks, StackFacts DEF Sync!EndLoop
  <2> DEFINE e == [dir |-> stack[1].dir, loop |-> "dst", left |-> Sync!Children(dst, stack[1].dir)]
  <2>1. CASE stack[1].loop = "src" /\ place' = "scan" /\ Turned(e)
    <3>1. /\ e.dir = stack[1].dir /\ e.loop = "dst" /\ e.left = Sync!Children(dst, stack[1].dir)
      OBVIOUS
    <3> HIDE DEF e
    <3>2. stack'[1] = e /\ Len(stack') = Len(stack)
      BY <2>1 DEF Turned
    <3>3. ASSUME ~errors', NEW k \in 1 .. Len(stack'), NEW p \in Sync!Below(stack'[k].dir), DealtWith(k, p)'
          PROVE  Done(p)'
      <4>1. CASE k = 1
        <5>1. p \in Sync!Below(stack[1].dir) /\ p \in Paths
          BY <1>1, <3>1, <3>2, <3>3, <4>1
        <5>2. CASE Sync!Is(src, p, "none")
          <6>1. Sync!Is(dst, p, "none")
            BY <1>0, <3>1, <3>2, <3>3, <4>1, <5>1, <5>2 DEF DealtWith, Sync!Is, Sync!Children
          <6>2. /\ src \in [Paths -> Values] /\ dst \in [Paths -> Values]
                /\ Sync!IsTree(src) /\ Sync!IsTree(dst)
            <7>1. src \in [Paths -> SourceValues] /\ dst \in [Paths -> Values]
                  /\ Sync!IsTree(src) /\ Sync!IsTree(dst)
              BY DEF SyncInv, SyncTypes, SourceValues, Values
            <7> QED
              BY <7>1, ValueFacts
          <6>3. dst[p] = src[p] /\ ~Sync!Is(src, p, "dir") /\ ~Sync!Is(dst, p, "dir")
            BY <5>1, <5>2, <6>1, <6>2, ValueFacts DEF Sync!Is
          <6>4. Done(p)
            <7>1. \A q \in Paths : Under(p, q) /\ q # p => dst[q] = src[q]
              BY <5>1, <6>2, <6>3, LeavesAgree
            <7> QED
              BY <6>3, <7>1 DEF Done, Sync!Agrees
          <6> QED
            BY <1>0, <2>0, <5>1, <6>4
        <5>3. CASE ~Sync!Is(src, p, "none")
          <6>1. ~InHand(1, p) /\ p \notin stack[1].left
            BY <2>0 DEF InHand
          <6>2. DealtWith(1, p)
            BY <5>3, <6>1 DEF DealtWith
          <6> QED
            BY <1>2, <2>0, <3>3, <5>1, <6>2
        <5> QED
          BY <5>2, <5>3
      <4>2. CASE k # 1
        <5>1. k \in 2 .. Len(stack)
          BY <1>0, <3>2, <4>2
        <5> QED
          BY <1>8, <2>0, <2>1, <3>3, <5>1
      <4> QED
        BY <4>1, <4>2
    <3> QED
      BY <2>1, <3>3 DEF Progress, Finished
  <2>2. CASE stack[1].loop = "dst" /\ place' = (IF Len(stack) = 1 THEN "over" ELSE "scan") /\ Ends
    <3>1. /\ Len(stack') + 1 = Len(stack) /\ Len(stack') \in Nat
          /\ \A k \in 1 .. Len(stack') : stack'[k] = stack[k + 1]
          /\ place' = "over" => Len(stack) = 1
      <4>1. stack' \in Seq(CallTypes)
        BY <1>10, EndLoopStacks
      <4>2. Len(stack') \in Nat
        BY <4>1, LenProperties
      <4> QED
        BY <2>2, <4>2 DEF Ends
    \* The directory that the call was for agrees from its top downwards.
    <3>2. ASSUME ~errors PROVE Done(stack[1].dir)
      <4>1. /\ Sync!Is(src, stack[1].dir, "dir") /\ Sync!Is(dst, stack[1].dir, "dir") /\ stack[1].dir \in Paths
        BY <2>0 DEF SyncInv, Calls, CallTypes
      <4>2. src[stack[1].dir] = Sync!Dir /\ dst[stack[1].dir] = Sync!Dir
        <5>1. src[stack[1].dir] \in Values /\ dst[stack[1].dir] \in Values
          BY <4>1, ValueFacts DEF SyncInv, SyncTypes, Values, SourceValues
        <5> QED
          BY <4>1, <5>1, ValueFacts DEF Sync!Is
      <4>3. ASSUME NEW q \in Paths, Under(stack[1].dir, q), q # stack[1].dir
            PROVE  Sync!Agrees(q) \/ Sync!Resumable(q)
        <5>1. PICK p \in Sync!Below(stack[1].dir) : Under(p, q)
          BY <4>1, <4>3, UnderEntry
        <5>2. p \notin stack[1].left /\ ~InHand(1, p)
          BY <2>0 DEF InHand
        <5>3. DealtWith(1, p)
          BY <2>2, <5>2 DEF DealtWith
        <5>4. Done(p)
          BY <2>0, <3>2, <5>3 DEF SyncInv, Progress
        <5> QED
          BY <4>3, <5>1, <5>4 DEF Done
      <4> QED
        BY <4>2, <4>3 DEF Done, Sync!Agrees
    <3>3. ASSUME ~errors', NEW k \in 1 .. Len(stack'), NEW p \in Sync!Below(stack'[k].dir), DealtWith(k, p)'
          PROVE  Done(p)'
      <4>1. /\ k + 1 \in 1 .. Len(stack) /\ k + 1 # 1 /\ k + 1 - 1 = k /\ stack'[k] = stack[k + 1]
        BY <3>1
      <4>2. CASE p = stack[k].dir /\ k = 1
        <5>1. Done(p) /\ p \in Paths
          BY <2>0, <3>2, <3>3, <4>2, <1>1
        <5> QED
          BY <1>0, <2>0, <5>1
      <4>3. CASE ~(p = stack[k].dir /\ k = 1)
        <5>1. InHand(k + 1, p) => InHand(k, p)'
          <6>1. SUFFICES ASSUME p = stack[k].dir PROVE InHand(k, p)'
            BY <4>1 DEF InHand
          <6>2. k # 1
            BY <4>3, <6>1
          <6>3. k - 1 \in 1 .. Len(stack') /\ k - 1 + 1 = k
            BY <3>1, <6>2
          <6>4. stack'[k - 1] = stack[k]
            BY <3>1, <6>3
          <6> QED
            BY <6>1, <6>2, <6>4 DEF InHand
        <5>2. DealtWith(k + 1, p)
          BY <1>0, <3>3, <4>1, <5>1 DEF DealtWith, Sync!Is
        <5> QED
          BY <1>2, <2>0, <3>3, <4>1, <5>2
      <4> QED
        BY <4>2, <4>3
    <3>4. Finished'
      <4>1. SUFFICES ASSUME place' = "over", ~errors', NEW q \in Paths
                     PROVE  (Sync!Agrees(q) \/ Sync!Resumable(q))'
        BY DEF Finished
      <4>2. Len(stack) = 1
        BY <3>1, <4>1
      <4>3. stack[1].dir = << >>
        BY <2>0, <4>2 DEF SyncInv, Calls
      <4>4. Done(<< >>)'
        BY <1>0, <2>0, <3>2, <4>1, <4>3
      <4> QED
        BY <4>4, UnderFacts DEF Done
    <3> QED
      BY <3>3, <3>4 DEF Progress
  <2> QED
    BY <1>10, <2>1, <2>2, EndLoopStacks
<1> QED
  BY <1>3, <1>4, <1>5, <1>6, <1>7, <1>9, <1>10, StepKinds

\* The invariant holds at first and is kept.
LEMMA SyncInvariant == ASSUME Sync!PathsAssumption PROVE Sync!Spec => []SyncInv
<1>1. Sync!Init => SyncInv
  <2> SUFFICES ASSUME Sync!Init PROVE SyncInv
    OBVIOUS
  <2>1. /\ src \in [Paths -> {Sync!None, Sync!Dir} \cup {Sync!File(d, TRUE) : d \in Data}]
        /\ dst \in [Paths -> {Sync!None, Sync!Dir} \cup {Sync!File(d, FALSE) : d \in Data \cup {Sync!Partial}}
                                                   \cup {Sync!File(d, TRUE) : d \in Data}]
        /\ Sync!IsTree(src) /\ Sync!IsTree(dst) /\ ~Sync!Is(src, << >>, "file") /\ Stamped
        /\ place = "idle" /\ sd_item = << >> /\ stack = << >> /\ runs = 0 /\ errors = FALSE
        /\ unnoticed = {}
    BY DEF Sync!Init, Stamped, Sync!Agrees
  <2>2. \A d \in Data : Sync!File(d, TRUE) \in FilesOf(Data, {TRUE})
    BY DEF Sync!File, FilesOf
  <2>3. /\ \A d \in Data \cup {Sync!Partial} : Sync!File(d, FALSE) \in FilesOf(Data \cup {Sync!Partial}, BOOLEAN)
        /\ \A d \in Data : Sync!File(d, TRUE) \in FilesOf(Data \cup {Sync!Partial}, BOOLEAN)
    BY DEF Sync!File, FilesOf
  <2>4. src \in [Paths -> {Sync!None, Sync!Dir} \cup FilesOf(Data, {TRUE})]
    <3>1. {Sync!File(d, TRUE) : d \in Data} \subseteq FilesOf(Data, {TRUE})
      BY <2>2
    <3>2. \A A, B, C, D : A \subseteq B /\ C \in [D -> {Sync!None, Sync!Dir} \cup A]
                         => C \in [D -> {Sync!None, Sync!Dir} \cup B]
      OBVIOUS
    <3> QED
      BY <2>1, <3>1, <3>2, Zenon
  <2>5. dst \in [Paths -> {Sync!None, Sync!Dir} \cup FilesOf(Data \cup {Sync!Partial}, BOOLEAN)]
    <3>1. /\ {Sync!File(d, FALSE) : d \in Data \cup {Sync!Partial}} \subseteq FilesOf(Data \cup {Sync!Partial}, BOOLEAN)
          /\ {Sync!File(d, TRUE) : d \in Data} \subseteq FilesOf(Data \cup {Sync!Partial}, BOOLEAN)
      BY <2>3
    <3>2. \A A, B, C, D, E : A \subseteq B /\ E \subseteq B /\ C \in [D -> {Sync!None, Sync!Dir} \cup A \cup E]
                         => C \in [D -> {Sync!None, Sync!Dir} \cup B]
      OBVIOUS
    <3> QED
      BY <2>1, <3>1, <3>2, Zenon
  <2>6. /\ sd_item \in Paths /\ runs \in 0 .. MAX_RUNS /\ errors \in BOOLEAN
        /\ stack \in Seq([dir : Paths, loop : {"src", "dst"}, left : SUBSET Paths]) /\ Len(stack) = 0
    <3>1. MAX_RUNS \in Nat /\ << >> \in Paths
      BY DEF Sync!PathsAssumption
    <3>2. 0 \in 0 .. MAX_RUNS
      BY <3>1
    <3>3. << >> \in Seq([dir : Paths, loop : {"src", "dst"}, left : SUBSET Paths]) /\ Len(<< >>) = 0
      OBVIOUS
    <3> QED
      BY <2>1, <3>1, <3>2, <3>3, Zenon
  <2>7. SyncTypes
    BY <2>1, <2>4, <2>5, <2>6 DEF SyncTypes
  <2> QED
    BY <2>1, <2>6, <2>7 DEF SyncInv, Calls, InWork, Progress, Finished
<1>2. ASSUME SyncInv, [Sync!Next]_(Sync!vars) PROVE SyncInv'
  BY <1>2, SyncTypesStep, CallsStep, InWorkStep, Kept, ProgressStep DEF SyncInv
<1> QED
  BY <1>1, <1>2, PTL DEF Sync!Spec

\* A file at the destination has the size and time of the source's only when it
\* has its data, and a run that comes to its end without an error leaves the
\* trees the same, whatever was killed before it, but for files that this run left
\* short or without their times (code.c:227, 238, 197), which the next one will copy
\* again; for any finite or infinite set of paths and contents and number of runs.
THEOREM TreesAgree == ASSUME Sync!PathsAssumption PROVE Sync!Spec => []SyncRight
<1>1. SyncInv => SyncRight
  <2> SUFFICES ASSUME SyncInv PROVE SyncRight
    OBVIOUS
  <2>1. \A k \in DOMAIN stack : stack[k].left \subseteq Sync!Below(stack[k].dir)
    BY StackFacts, LenProperties DEF SyncInv, Calls
  <2>2. Sync!TypeOK
    BY <2>1 DEF Sync!TypeOK, SyncInv, SyncTypes
  <2> QED
    BY <2>2 DEF SyncRight, Sync!SyncRight, SyncInv, Stamped, Finished
<1> QED
  BY <1>1, SyncInvariant, PTL

\* No step of any run touches what agrees: a second run copies nothing again
\* (code.c:161-197).
THEOREM AgreeingKept == ASSUME Sync!PathsAssumption PROVE Sync!Spec => AgreeingStays
<1>1. ASSUME SyncInv, [Sync!Next]_(Sync!vars)
      PROVE  [\A p \in Paths : Sync!Agrees(p) => Sync!Agrees(p)']_(Sync!vars)
  BY <1>1, Kept
<1> QED
  BY <1>1, SyncInvariant, PTL DEF Sync!Spec, AgreeingStays, Sync!AgreeingStays

-----------------------------------------------------------------------------
(* The command shell of Assignment_03                                      *)

Piece == [kind : Sh!Kinds \cup {"none"}, number : 0 .. MAX_SENT]

\* One piece has been taken from those that come to p, and is not handled yet.
Busy(p) == IF sh_at[p] \in {"got", "running", "failed"} /\ mode[p] = "execute" THEN 1 ELSE 0

\* x is piece j of all that are sent, and "swaprole" when that is number swap.
IsPiece(x, j, swap) == x.number = j /\ (x.kind = "swaprole" <=> j = swap)

\* What comes to p are the pieces after the one handled last, up to the one sent
\* last: first the one in its buff, then its stdin, then the pipe.
InOrder(p, swap) ==
    /\ Busy(p) = 1 => IsPiece(buff[p], handled + 1, swap)
    /\ \A j \in 1 .. Len(stdin[p]) : IsPiece(stdin[p][j], handled + Busy(p) + j, swap)
    /\ \A j \in 1 .. Len(pipe[Sh!Other(p)]) :
          IsPiece(pipe[Sh!Other(p)][j], handled + Busy(p) + Len(stdin[p]) + j, swap)
    /\ handled + Busy(p) + Len(stdin[p]) + Len(pipe[Sh!Other(p)]) = sent

\* p takes input and the other one executes: no "swaprole" is on its way, and in
\* what is left of a line one can only be last.
Leads(p) ==
    /\ mode[p] = "input" /\ mode[Sh!Other(p)] = "execute"
    /\ sh_at[p] \in {"unborn", "reading", "got", "left"} /\ pipe[Sh!Other(p)] = << >>
    /\ \A j \in 1 .. Len(stdin[p]) - 1 : stdin[p][j].kind # "swaprole"
    /\ sh_at[p] = "got" /\ buff[p].kind = "swaprole" => stdin[p] = << >>
    /\ sent + Len(stdin[p]) + (IF sh_at[p] = "got" THEN 1 ELSE 0) <= MAX_SENT
    /\ InOrder(Sh!Other(p), 0)

\* The other one has sent p a "swaprole" and waits: both execute.
Answers(p) ==
    /\ mode[p] = "execute" /\ mode[Sh!Other(p)] = "execute"
    /\ sh_at[Sh!Other(p)] = "reading" /\ stdin[Sh!Other(p)] = << >> /\ pipe[p] = << >>
    /\ handled < sent /\ InOrder(p, sent)

\* Nobody has a role before he is there, and when the supervisor has failed E
\* is not.
Born ==
    /\ super = "start" => sh_at["C"] = "unborn"
    /\ super \in {"start", "one", "failed"} => sh_at["E"] = "unborn"
    /\ sh_at["E"] = "unborn" => mode["E"] = "execute"

ShellInv == Sh!TypeOK /\ Born /\ \E p \in Sh!Processes : Leads(p) \/ Answers(p)

\* The types of the shell's variables, one process at a time.
LEMMA ShellFacts ==
  ASSUME Sh!LinesAssumption, Sh!TypeOK
  PROVE  /\ sent \in Nat /\ handled \in Nat /\ sent <= MAX_SENT /\ MAX_SENT \in Int
         /\ \A p \in Sh!Processes :
               /\ Sh!Other(p) \in Sh!Processes /\ Sh!Other(p) # p /\ Sh!Other(Sh!Other(p)) = p
               /\ \A r \in Sh!Processes : r = p \/ r = Sh!Other(p)
               /\ mode[p] \in {"input", "execute"} /\ buff[p] \in Piece
               /\ stdin[p] \in Seq(Piece) /\ pipe[p] \in Seq(Piece)
               /\ Len(stdin[p]) \in Nat /\ Len(pipe[p]) \in Nat
               /\ Busy(p) \in {0, 1}
         /\ \A x \in Piece : x.number \in 0 .. MAX_SENT
<1>1. /\ sent \in 0 .. MAX_SENT /\ handled \in 0 .. MAX_SENT
      /\ mode \in [Sh!Processes -> {"input", "execute"}] /\ buff \in [Sh!Processes -> Piece]
      /\ stdin \in [Sh!Processes -> Seq(Piece)] /\ pipe \in [Sh!Processes -> Seq(Piece)]
  BY DEF Sh!TypeOK, Piece
<1>2. \A s \in Seq(Piece) : Len(s) \in Nat
  BY LenProperties
<1>3. \A p \in Sh!Processes :
        /\ Sh!Other(p) \in Sh!Processes /\ Sh!Other(p) # p /\ Sh!Other(Sh!Other(p)) = p
        /\ \A r \in Sh!Processes : r = p \/ r = Sh!Other(p)
  BY DEF Sh!Processes, Sh!Other
<1>4. \A x \in Piece : x.number \in 0 .. MAX_SENT
  BY DEF Piece
<1>5. sent \in Nat /\ handled \in Nat /\ sent <= MAX_SENT /\ MAX_SENT \in Int
  <2>1. MAX_SENT \in Nat /\ sent \in 0 .. MAX_SENT /\ handled \in 0 .. MAX_SENT
    BY <1>1 DEF Sh!LinesAssumption
  <2> QED
    BY <2>1
<1>6. \A p : Busy(p) \in {0, 1}
  BY DEF Busy
<1> QED
  BY <1>1, <1>2, <1>3, <1>4, <1>5, <1>6

\* What a step of the executing process x does to what comes to it.
LEMMA Executes ==
  ASSUME Sh!LinesAssumption, Sh!TypeOK, NEW x \in Sh!Processes, mode[x] = "execute", NEW swap, InOrder(x, swap),
         Sh!FromBuffer(x) \/ Sh!FromPipe(x) \/ Sh!Obey(x) \/ Sh!Fork(x) \/ Sh!GrandchildEnds(x)
  PROVE  InOrder(x, swap)'
<1> DEFINE o == Sh!Other(x)
<1>0. /\ sh_at \in [Sh!Processes -> {"unborn", "reading", "got", "running", "left", "failed"}]
      /\ mode \in [Sh!Processes -> {"input", "execute"}] /\ buff \in [Sh!Processes -> Piece]
      /\ stdin \in [Sh!Processes -> Seq(Piece)] /\ pipe \in [Sh!Processes -> Seq(Piece)]
      /\ o \in Sh!Processes /\ o # x /\ sent \in Nat /\ handled \in Nat
      /\ stdin[x] \in Seq(Piece) /\ pipe[o] \in Seq(Piece) /\ Len(stdin[x]) \in Nat /\ Len(pipe[o]) \in Nat
  BY ShellFacts DEF Sh!TypeOK, Piece
<1>1. /\ Busy(x) = 1 => IsPiece(buff[x], handled + 1, swap)
      /\ \A j \in 1 .. Len(stdin[x]) : IsPiece(stdin[x][j], handled + Busy(x) + j, swap)
      /\ \A j \in 1 .. Len(pipe[o]) : IsPiece(pipe[o][j], handled + Busy(x) + Len(stdin[x]) + j, swap)
      /\ handled + Busy(x) + Len(stdin[x]) + Len(pipe[o]) = sent
  BY DEF InOrder
<1> HIDE DEF o
<1>2. CASE Sh!FromBuffer(x)
  <2>1. /\ sh_at[x] = "reading" /\ sh_at'[x] = "got" /\ mode' = mode /\ buff'[x] = Head(stdin[x])
        /\ stdin[x] # << >> /\ stdin'[x] = Tail(stdin[x]) /\ UNCHANGED <<pipe, sent, handled>>
    BY <1>0, <1>2 DEF Sh!FromBuffer, Sh!Got, Sh!Go
  <2>2. /\ Len(stdin'[x]) = Len(stdin[x]) - 1 /\ Len(stdin[x]) > 0 /\ buff'[x] = stdin[x][1]
        /\ \A j \in 1 .. Len(stdin'[x]) : stdin'[x][j] = stdin[x][j + 1]
    BY <1>0, <2>1, HeadTailProperties, EmptySeq
  <2>3. Busy(x) = 0 /\ Busy(x)' = 1
    BY <2>1 DEF Busy
  <2>4. IsPiece(buff'[x], handled + 1, swap)
    <3>1. 1 \in 1 .. Len(stdin[x]) /\ handled + Busy(x) + 1 = handled + 1
      BY <1>0, <2>2, <2>3
    <3>2. IsPiece(stdin[x][1], handled + Busy(x) + 1, swap)
      BY <1>1, <3>1
    <3> QED
      BY <2>2, <3>1, <3>2
  <2>5. ASSUME NEW j \in 1 .. Len(stdin'[x]) PROVE IsPiece(stdin'[x][j], handled + 1 + j, swap)
    <3>1. j + 1 \in 1 .. Len(stdin[x]) /\ handled + 0 + (j + 1) = handled + 1 + j
      BY <1>0, <2>2
    <3> QED
      BY <1>1, <2>2, <2>3, <3>1
  <2>7. /\ \A j \in 1 .. Len(pipe[o]) : IsPiece(pipe[o][j], handled + 1 + Len(stdin'[x]) + j, swap)
        /\ handled + 1 + Len(stdin'[x]) + Len(pipe[o]) = sent
    <3>1. handled + 1 + Len(stdin'[x]) = handled + Busy(x) + Len(stdin[x])
      BY <1>0, <2>2, <2>3
    <3> QED
      BY <1>1, <3>1
  <2>8. /\ IsPiece(buff'[x], handled' + 1, swap)
        /\ \A j \in 1 .. Len(stdin'[x]) : IsPiece(stdin'[x][j], handled' + Busy(x)' + j, swap)
        /\ \A j \in 1 .. Len(pipe'[o]) : IsPiece(pipe'[o][j], handled' + Busy(x)' + Len(stdin'[x]) + j, swap)
        /\ handled' + Busy(x)' + Len(stdin'[x]) + Len(pipe'[o]) = sent'
    BY <2>1, <2>3, <2>4, <2>5, <2>7
  <2> QED
    BY <2>8 DEF InOrder, IsPiece, o
<1>3. CASE Sh!FromPipe(x)
  <2>1. /\ sh_at[x] = "reading" /\ sh_at'[x] = "got" /\ mode' = mode /\ buff'[x] = Head(pipe[o])
        /\ stdin[x] = << >> /\ pipe[o] # << >> /\ stdin'[x] = Tail(pipe[o]) /\ pipe'[o] = << >>
        /\ UNCHANGED <<sent, handled>>
    BY <1>0, <1>3 DEF Sh!FromPipe, Sh!Got, Sh!Go, o
  <2>2. /\ Len(stdin'[x]) = Len(pipe[o]) - 1 /\ Len(pipe[o]) > 0 /\ buff'[x] = pipe[o][1]
        /\ \A j \in 1 .. Len(stdin'[x]) : stdin'[x][j] = pipe[o][j + 1]
    BY <1>0, <2>1, HeadTailProperties, EmptySeq
  <2>3. Busy(x) = 0 /\ Busy(x)' = 1 /\ Len(stdin[x]) = 0 /\ Len(pipe'[o]) = 0
    BY <2>1 DEF Busy
  <2>4. \A j \in 1 .. Len(pipe[o]) : IsPiece(pipe[o][j], handled + j, swap)
    <3>1. handled + Busy(x) + Len(stdin[x]) = handled
      BY <1>0, <2>3
    <3> QED
      BY <1>1, <3>1
  <2>5. IsPiece(buff'[x], handled + 1, swap)
    BY <1>0, <2>2, <2>4
  <2>6. ASSUME NEW j \in 1 .. Len(stdin'[x]) PROVE IsPiece(stdin'[x][j], handled + 1 + j, swap)
    <3>1. j + 1 \in 1 .. Len(pipe[o]) /\ handled + (j + 1) = handled + 1 + j
      BY <1>0, <2>2
    <3> QED
      BY <2>2, <2>4, <3>1
  <2>7. handled + 1 + Len(stdin'[x]) + Len(pipe'[o]) = sent
    BY <1>0, <1>1, <2>2, <2>3
  <2> QED
    BY <2>1, <2>3, <2>5, <2>6, <2>7 DEF InOrder, IsPiece, o
<1>4. CASE Sh!Fork(x)
  <2>1. /\ sh_at[x] = "got" /\ sh_at'[x] \in {"running", "failed"} /\ UNCHANGED <<mode, buff, stdin, pipe, sent, handled>>
    BY <1>0, <1>4 DEF Sh!Fork, Sh!Go
  <2>2. Busy(x) = 1 /\ Busy(x)' = 1
    BY <2>1 DEF Busy
  <2> QED
    BY <1>1, <2>1, <2>2 DEF InOrder, IsPiece, o
<1>5. CASE Sh!Obey(x) \/ Sh!GrandchildEnds(x)
  <2>1. /\ sh_at[x] \in {"got", "running"} /\ sh_at'[x] \in {"left", "reading"} /\ handled' = buff[x].number
        /\ UNCHANGED <<stdin, pipe, sent>>
    BY <1>0, <1>5 DEF Sh!Obey, Sh!GrandchildEnds, Sh!Go
  <2>2. Busy(x) = 1 /\ Busy(x)' = 0 /\ handled' = handled + 1
    BY <1>1, <2>1 DEF Busy, IsPiece
  <2>3. handled' + 0 = handled + Busy(x)
    BY <1>0, <2>2
  <2> QED
    BY <1>1, <2>1, <2>2, <2>3 DEF InOrder, IsPiece, o
<1> QED
  BY <1>2, <1>3, <1>4, <1>5

\* The pieces of a line that is typed.
PiecesOf(l) == [j \in DOMAIN l |-> [kind |-> l[j], number |-> 0]]

\* What the executed line is to the modes and the buffers.
LEMMA LineFacts ==
  ASSUME Sh!LinesAssumption, NEW l \in Lines
  PROVE  /\ Len(l) \in Nat /\ Len(l) > 0
         /\ PiecesOf(l) \in Seq(Piece) /\ PiecesOf(l) # << >> /\ Len(PiecesOf(l)) = Len(l)
         /\ \A j \in 1 .. Len(l) - 1 : PiecesOf(l)[j].kind # "swaprole"
<1>1. l \in Seq(Sh!Kinds) /\ l # << >> /\ \A j \in 1 .. Len(l) - 1 : l[j] # "swaprole"
  BY DEF Sh!LinesAssumption
<1>2. Len(l) \in Nat /\ Len(l) > 0 /\ DOMAIN l = 1 .. Len(l) /\ \A j \in 1 .. Len(l) : l[j] \in Sh!Kinds
  BY <1>1, EmptySeq, LenProperties, ElementOfSeq
<1>3. 0 \in 0 .. MAX_SENT
  BY DEF Sh!LinesAssumption
<1>4. \A j \in 1 .. Len(l) : [kind |-> l[j], number |-> 0] \in Piece
  BY <1>2, <1>3 DEF Piece
<1>5. /\ PiecesOf(l) \in [1 .. Len(l) -> Piece]
      /\ \A j \in 1 .. Len(l) : PiecesOf(l)[j] = [kind |-> l[j], number |-> 0]
  BY <1>2, <1>4 DEF PiecesOf
<1>6. PiecesOf(l) \in Seq(Piece) /\ Len(PiecesOf(l)) = Len(l)
  BY <1>2, <1>5
<1>7. PiecesOf(l) # << >>
  BY <1>2, <1>6
<1>8. \A j \in 1 .. Len(l) - 1 : j \in 1 .. Len(l)
  BY <1>2
<1> QED
  BY <1>1, <1>2, <1>5, <1>6, <1>7, <1>8

\* Where pieces come from: a step that reads.
LEMMA ReadingFacts ==
  ASSUME Sh!LinesAssumption, Sh!TypeOK, NEW x \in Sh!Processes,
         Sh!FromBuffer(x) \/ Sh!FromTerminal(x) \/ Sh!FromPipe(x)
  PROVE  \E s \in Seq(Piece) :
            /\ s # << >> /\ sh_at[x] = "reading" /\ sh_at' = [sh_at EXCEPT ![x] = "got"]
            /\ buff' = [buff EXCEPT ![x] = Head(s)] /\ stdin' = [stdin EXCEPT ![x] = Tail(s)]
            /\ UNCHANGED <<super, mode, sent, handled>>
            /\ \/ Sh!FromBuffer(x) /\ s = stdin[x] /\ pipe' = pipe
               \/ /\ Sh!FromTerminal(x) /\ stdin[x] = << >> /\ mode[x] = "input" /\ pipe' = pipe
                  /\ \E l \in Lines : s = PiecesOf(l) /\ sent + Len(l) <= MAX_SENT
               \/ /\ Sh!FromPipe(x) /\ s = pipe[Sh!Other(x)]
                  /\ pipe' = [pipe EXCEPT ![Sh!Other(x)] = << >>]
<1>1. /\ stdin[x] \in Seq(Piece) /\ pipe[Sh!Other(x)] \in Seq(Piece)
  BY ShellFacts
<1>2. CASE Sh!FromBuffer(x)
  BY <1>1, <1>2 DEF Sh!FromBuffer, Sh!Got, Sh!Go
<1>3. CASE Sh!FromPipe(x)
  BY <1>1, <1>3 DEF Sh!FromPipe, Sh!Got, Sh!Go
<1>4. CASE Sh!FromTerminal(x)
  <2>1. PICK l \in Lines :
          /\ sent + Len(l) <= MAX_SENT /\ Sh!Got(x, PiecesOf(l))
          /\ stdin' = [stdin EXCEPT ![x] = Tail(PiecesOf(l))]
    BY <1>4, Zenon DEF Sh!FromTerminal, PiecesOf
  <2>2. PiecesOf(l) \in Seq(Piece) /\ PiecesOf(l) # << >>
    BY LineFacts
  <2> QED
    BY <1>4, <2>1, <2>2 DEF Sh!FromTerminal, Sh!Got, Sh!Go
<1> QED
  BY <1>2, <1>3, <1>4

\* The types of the shell's variables are kept.
LEMMA ShellTypesStep ==
  ASSUME Sh!LinesAssumption, ShellInv, [Sh!Next]_(Sh!vars)
  PROVE  Sh!TypeOK'
<1>0. /\ super \in {"start", "one", "C", "E", "over", "failed"}
      /\ mode \in [Sh!Processes -> {"input", "execute"}]
      /\ sh_at \in [Sh!Processes -> {"unborn", "reading", "got", "running", "left", "failed"}]
      /\ buff \in [Sh!Processes -> Piece]
      /\ stdin \in [Sh!Processes -> Seq(Piece)] /\ pipe \in [Sh!Processes -> Seq(Piece)]
      /\ sent \in 0 .. MAX_SENT /\ handled \in 0 .. MAX_SENT /\ << >> \in Seq(Piece)
  BY EmptySeq DEF ShellInv, Sh!TypeOK, Piece
<1>1. SUFFICES
      /\ super' \in {"start", "one", "C", "E", "over", "failed"}
      /\ mode' \in [Sh!Processes -> {"input", "execute"}]
      /\ sh_at' \in [Sh!Processes -> {"unborn", "reading", "got", "running", "left", "failed"}]
      /\ buff' \in [Sh!Processes -> Piece]
      /\ stdin' \in [Sh!Processes -> Seq(Piece)] /\ pipe' \in [Sh!Processes -> Seq(Piece)]
      /\ sent' \in 0 .. MAX_SENT /\ handled' \in 0 .. MAX_SENT
  BY DEF Sh!TypeOK, Piece
<1>2. CASE UNCHANGED Sh!vars
  BY <1>0, <1>2 DEF Sh!vars, Sh!shell
<1>3. ASSUME NEW p \in Sh!Processes,
             Sh!StartChild(p) \/ Sh!SuperWaits(p) \/ Sh!Fork(p)
      PROVE  /\ super' \in {"start", "one", "C", "E", "over", "failed"}
             /\ sh_at' \in [Sh!Processes -> {"unborn", "reading", "got", "running", "left", "failed"}]
             /\ UNCHANGED <<mode, buff, stdin, pipe, sent, handled>>
  BY <1>0, <1>3 DEF Sh!StartChild, Sh!SuperWaits, Sh!Fork, Sh!Go, Sh!shell
<1>4. ASSUME NEW p \in Sh!Processes,
             Sh!FromBuffer(p) \/ Sh!FromTerminal(p) \/ Sh!FromPipe(p)
      PROVE  /\ UNCHANGED <<super, mode, sent, handled>>
             /\ sh_at' \in [Sh!Processes -> {"unborn", "reading", "got", "running", "left", "failed"}]
             /\ buff' \in [Sh!Processes -> Piece]
             /\ stdin' \in [Sh!Processes -> Seq(Piece)] /\ pipe' \in [Sh!Processes -> Seq(Piece)]
  <2>1. PICK s \in Seq(Piece) :
            /\ s # << >> /\ sh_at' = [sh_at EXCEPT ![p] = "got"]
            /\ buff' = [buff EXCEPT ![p] = Head(s)] /\ stdin' = [stdin EXCEPT ![p] = Tail(s)]
            /\ UNCHANGED <<super, mode, sent, handled>>
            /\ pipe' = pipe \/ pipe' = [pipe EXCEPT ![Sh!Other(p)] = << >>]
    BY <1>4, ReadingFacts DEF ShellInv
  <2>2. Head(s) \in Piece /\ Tail(s) \in Seq(Piece)
    BY <2>1, HeadTailProperties
  <2> QED
    BY <1>0, <2>1, <2>2
<1>5. ASSUME NEW p \in Sh!Processes, Sh!Obey(p) \/ Sh!GrandchildEnds(p)
      PROVE  /\ UNCHANGED <<super, buff, stdin, pipe, sent>> /\ handled' \in 0 .. MAX_SENT
             /\ sh_at' \in [Sh!Processes -> {"unborn", "reading", "got", "running", "left", "failed"}]
             /\ mode' \in [Sh!Processes -> {"input", "execute"}]
  <2>1. buff[p].number \in 0 .. MAX_SENT
    BY <1>0 DEF Piece
  <2> QED
    BY <1>0, <1>5, <2>1 DEF Sh!Obey, Sh!GrandchildEnds, Sh!Go, Sh!Flip
<1>6. ASSUME NEW p \in Sh!Processes, Sh!Send(p)
      PROVE  /\ UNCHANGED <<super, buff, stdin, handled>> /\ sent' \in 0 .. MAX_SENT
             /\ sh_at' \in [Sh!Processes -> {"unborn", "reading", "got", "running", "left", "failed"}]
             /\ mode' \in [Sh!Processes -> {"input", "execute"}] /\ pipe' \in [Sh!Processes -> Seq(Piece)]
  <2>1. /\ mode[p] = "input" /\ sh_at[p] = "got" /\ sent' = sent + 1
        /\ pipe' = [pipe EXCEPT ![p] = Append(@, [kind |-> buff[p].kind, number |-> sent + 1])]
        /\ UNCHANGED <<super, buff, stdin, handled>>
    BY <1>6 DEF Sh!Send, Sh!Go
  <2>2. Leads(p)
    <3>1. PICK q \in Sh!Processes : Leads(q) \/ Answers(q)
      BY DEF ShellInv
    <3>2. q = p \/ p = Sh!Other(q)
      BY ShellFacts DEF ShellInv
    <3> QED
      BY <2>1, <3>1, <3>2 DEF Leads, Answers
  <2>3. sent + Len(stdin[p]) + 1 <= MAX_SENT /\ Len(stdin[p]) \in Nat /\ sent \in Nat /\ MAX_SENT \in Nat
    BY <2>1, <2>2, ShellFacts DEF Leads, ShellInv, Sh!LinesAssumption
  <2>4. sent + 1 \in 0 .. MAX_SENT
    BY <2>3
  <2>5. [kind |-> buff[p].kind, number |-> sent + 1] \in Piece
    BY <1>0, <2>4 DEF Piece
  <2>6. pipe' \in [Sh!Processes -> Seq(Piece)]
    BY <1>0, <2>1, <2>5
  <2> QED
    BY <1>0, <1>6, <2>1, <2>4, <2>6 DEF Sh!Send, Sh!Go, Sh!Flip
<1> QED
  BY <1>0, <1>2, <1>3, <1>4, <1>5, <1>6 DEF Sh!Next, Sh!System

\* A step of the one who takes input.
LEMMA LeadSteps ==
  ASSUME Sh!LinesAssumption, ShellInv, NEW p \in Sh!Processes, Leads(p),
         Sh!FromBuffer(p) \/ Sh!FromTerminal(p) \/ Sh!FromPipe(p) \/ Sh!Send(p) \/ Sh!Obey(p)
         \/ Sh!Fork(p) \/ Sh!GrandchildEnds(p)
  PROVE  Leads(p)' \/ Answers(Sh!Other(p))'
<1> DEFINE o == Sh!Other(p)
<1>0. /\ sh_at \in [Sh!Processes -> {"unborn", "reading", "got", "running", "left", "failed"}]
      /\ mode \in [Sh!Processes -> {"input", "execute"}] /\ buff \in [Sh!Processes -> Piece]
      /\ stdin \in [Sh!Processes -> Seq(Piece)] /\ pipe \in [Sh!Processes -> Seq(Piece)]
      /\ o \in Sh!Processes /\ o # p /\ Sh!Other(o) = p /\ sent \in Nat /\ handled \in Nat
      /\ MAX_SENT \in Nat
      /\ stdin[o] \in Seq(Piece) /\ stdin[p] \in Seq(Piece) /\ pipe[p] \in Seq(Piece)
      /\ Len(stdin[o]) \in Nat /\ Len(pipe[p]) \in Nat /\ Len(stdin[p]) \in Nat /\ Busy(o) \in {0, 1}
  BY ShellFacts DEF ShellInv, Sh!TypeOK, Piece, Sh!LinesAssumption
<1>1. /\ mode[p] = "input" /\ mode[o] = "execute"
      /\ sh_at[p] \in {"unborn", "reading", "got", "left"} /\ pipe[o] = << >>
      /\ \A j \in 1 .. Len(stdin[p]) - 1 : stdin[p][j].kind # "swaprole"
      /\ sh_at[p] = "got" /\ buff[p].kind = "swaprole" => stdin[p] = << >>
      /\ sent + Len(stdin[p]) + (IF sh_at[p] = "got" THEN 1 ELSE 0) <= MAX_SENT
      /\ InOrder(o, 0)
  BY DEF Leads
<1>2. /\ Busy(o) = 1 => IsPiece(buff[o], handled + 1, 0)
      /\ \A j \in 1 .. Len(stdin[o]) : IsPiece(stdin[o][j], handled + Busy(o) + j, 0)
      /\ \A j \in 1 .. Len(pipe[p]) : IsPiece(pipe[p][j], handled + Busy(o) + Len(stdin[o]) + j, 0)
      /\ handled + Busy(o) + Len(stdin[o]) + Len(pipe[p]) = sent
  BY <1>0, <1>1 DEF InOrder
<1> HIDE DEF o
\* He reads: what comes to the other one stays as it is.
<1>3. CASE Sh!FromBuffer(p) \/ Sh!FromTerminal(p) \/ Sh!FromPipe(p)
  <2>1. PICK s \in Seq(Piece) :
            /\ s # << >> /\ sh_at[p] = "reading" /\ sh_at' = [sh_at EXCEPT ![p] = "got"]
            /\ buff' = [buff EXCEPT ![p] = Head(s)] /\ stdin' = [stdin EXCEPT ![p] = Tail(s)]
            /\ UNCHANGED <<super, mode, sent, handled>>
            /\ \/ Sh!FromBuffer(p) /\ s = stdin[p] /\ pipe' = pipe
               \/ /\ Sh!FromTerminal(p) /\ pipe' = pipe
                  /\ \E l \in Lines : s = PiecesOf(l) /\ sent + Len(l) <= MAX_SENT
               \/ Sh!FromPipe(p)
    BY <1>3, ReadingFacts DEF ShellInv
  <2>2. /\ pipe' = pipe /\ sent + Len(s) <= MAX_SENT
        /\ \A j \in 1 .. Len(s) - 1 : s[j].kind # "swaprole"
    <3>1. ~Sh!FromPipe(p)
      BY <1>1 DEF Sh!FromPipe
    <3>2. CASE s = stdin[p] /\ pipe' = pipe
      BY <1>0, <1>1, <2>1, <3>2
    <3>3. CASE pipe' = pipe /\ \E l \in Lines : s = PiecesOf(l) /\ sent + Len(l) <= MAX_SENT
      BY <3>3, LineFacts
    <3> QED
      BY <2>1, <3>1, <3>2, <3>3
  <2>3. /\ Len(s) \in Nat /\ Len(s) > 0 /\ Len(Tail(s)) = Len(s) - 1 /\ Head(s) = s[1]
        /\ Tail(s) \in Seq(Piece) /\ \A j \in 1 .. Len(Tail(s)) : Tail(s)[j] = s[j + 1]
    BY <2>1, EmptySeq, HeadTailProperties, LenProperties
  <2>4. /\ sh_at'[p] = "got" /\ buff'[p] = s[1] /\ stdin'[p] = Tail(s)
        /\ sh_at'[o] = sh_at[o] /\ buff'[o] = buff[o] /\ stdin'[o] = stdin[o]
    BY <1>0, <2>1, <2>3
  <2>5. \A j \in 1 .. Len(stdin'[p]) - 1 : stdin'[p][j].kind # "swaprole"
    <3> SUFFICES ASSUME NEW j \in 1 .. Len(stdin'[p]) - 1 PROVE stdin'[p][j].kind # "swaprole"
      OBVIOUS
    <3>1. j + 1 \in 1 .. Len(s) - 1 /\ j \in 1 .. Len(Tail(s))
      BY <2>3, <2>4
    <3> QED
      BY <2>2, <2>3, <2>4, <3>1
  <2>6. buff'[p].kind = "swaprole" => stdin'[p] = << >>
    <3>1. CASE Len(s) = 1
      BY <2>3, <2>4, <3>1, EmptySeq
    <3>2. CASE Len(s) # 1
      <4>1. 1 \in 1 .. Len(s) - 1
        BY <2>3, <3>2
      <4> QED
        BY <2>2, <2>4, <4>1
    <3> QED
      BY <3>1, <3>2
  <2>7. sent + Len(stdin'[p]) + 1 <= MAX_SENT
    BY <1>0, <2>2, <2>3, <2>4
  <2>8. InOrder(o, 0)'
    BY <1>0, <1>2, <2>1, <2>2, <2>4 DEF InOrder, Busy, IsPiece
  <2>9. Leads(p)'
    BY <1>1, <2>1, <2>2, <2>4, <2>5, <2>6, <2>7, <2>8 DEF Leads, o
  <2> QED
    BY <2>9
<1>4. CASE Sh!Send(p)
  <2> DEFINE x == [kind |-> buff[p].kind, number |-> sent + 1]
  <2>1. /\ sh_at[p] = "got" /\ pipe' = [pipe EXCEPT ![p] = Append(@, x)] /\ sent' = sent + 1
        /\ sh_at' = [sh_at EXCEPT ![p] = IF buff[p].kind = "exit" THEN "left" ELSE "reading"]
        /\ mode' = [mode EXCEPT ![p] = IF buff[p].kind = "swaprole" THEN "execute" ELSE "input"]
        /\ UNCHANGED <<super, buff, stdin, handled>>
    BY <1>0, <1>1, <1>4 DEF Sh!Send, Sh!Go, Sh!Flip
  <2>2. x.number = sent + 1 /\ x.kind = buff[p].kind /\ x \in Piece
    <3>1. sent + 1 \in 0 .. MAX_SENT
      BY <1>0, <1>1, <2>1
    <3> QED
      BY <1>0, <3>1 DEF Piece
  <2> HIDE DEF x
  <2>3. /\ Len(pipe'[p]) = Len(pipe[p]) + 1 /\ pipe'[p][Len(pipe[p]) + 1] = x
        /\ \A j \in 1 .. Len(pipe[p]) : pipe'[p][j] = pipe[p][j]
    BY <1>0, <2>1, <2>2
  <2>4. /\ pipe'[o] = << >> /\ sh_at'[o] = sh_at[o] /\ mode'[o] = "execute"
        /\ sh_at'[p] = IF buff[p].kind = "exit" THEN "left" ELSE "reading"
        /\ mode'[p] = IF buff[p].kind = "swaprole" THEN "execute" ELSE "input"
    BY <1>0, <1>1, <2>1
  <2>5. Busy(o)' = Busy(o)
    BY <1>1, <2>4 DEF Busy
  <2>6. sent + Len(stdin[p]) + 1 <= MAX_SENT
    BY <1>1, <2>1
  <2>7. sent + 1 = handled + Busy(o) + Len(stdin[o]) + Len(pipe[p]) + 1
    <3>1. sent = handled + Busy(o) + Len(stdin[o]) + Len(pipe[p])
      BY <1>2
    <3> QED
      BY <1>0, <3>1
  \* Whatever number "swaprole" has, if it is that of no piece sent before.
  <2>8. ASSUME NEW swap \in {0, sent + 1}, x.kind = "swaprole" <=> sent + 1 = swap
        PROVE  InOrder(o, swap)'
    <3>1. \A j \in 1 .. sent : j # 0 /\ j # sent + 1
      BY <1>0
    <3>2. \A y : \A j \in 1 .. sent : IsPiece(y, j, 0) => IsPiece(y, j, swap)
      BY <3>1 DEF IsPiece
    <3>3. Busy(o) = 1 => IsPiece(buff[o], handled + 1, swap)
      <4>1. Busy(o) = 1 => handled + 1 \in 1 .. sent
        BY <1>0, <1>2
      <4> QED
        BY <1>2, <3>2, <4>1
    <3>4. ASSUME NEW j \in 1 .. Len(stdin[o]) PROVE IsPiece(stdin[o][j], handled + Busy(o) + j, swap)
      <4>1. handled + Busy(o) + j \in 1 .. sent
        BY <1>0, <1>2
      <4> QED
        BY <1>2, <3>2, <4>1
    <3>5. ASSUME NEW j \in 1 .. Len(pipe'[p])
          PROVE  IsPiece(pipe'[p][j], handled + Busy(o) + Len(stdin[o]) + j, swap)
      <4>1. CASE j = Len(pipe[p]) + 1
        <5>1. sent + 1 = handled + Busy(o) + Len(stdin[o]) + j
          <6>1. \A b, k, s, m \in Int : s + 1 = b + k + 1 /\ m = k + 1 => s + 1 = b + m
            OBVIOUS
          <6>2. /\ handled + Busy(o) + Len(stdin[o]) \in Int /\ Len(pipe[p]) \in Int /\ sent \in Int
                /\ j \in Int
            BY <1>0
          <6> QED
            BY ONLY <2>7, <4>1, <6>1, <6>2
        <5> QED
          BY <2>2, <2>3, <2>8, <4>1, <5>1 DEF IsPiece
      <4>2. CASE j # Len(pipe[p]) + 1
        <5>1. j \in 1 .. Len(pipe[p])
          BY <1>0, <2>3, <4>2
        <5>2. handled + Busy(o) + Len(stdin[o]) + j \in 1 .. sent
          BY <1>0, <1>2, <5>1
        <5> QED
          BY <1>2, <2>3, <3>2, <5>1, <5>2
      <4> QED
        BY <4>1, <4>2
    <3>6. sent + 1 = handled + Busy(o) + Len(stdin[o]) + Len(pipe'[p])
      <4>1. \A b, k, s, m \in Int : s + 1 = b + k + 1 /\ m = k + 1 => s + 1 = b + m
        OBVIOUS
      <4>2. /\ handled + Busy(o) + Len(stdin[o]) \in Int /\ Len(pipe[p]) \in Int /\ sent \in Int
            /\ Len(pipe'[p]) \in Int
        BY <1>0, <2>3
      <4> QED
        BY ONLY <2>3, <2>7, <4>1, <4>2
    <3>7. /\ Busy(o)' = 1 => IsPiece(buff'[o], handled' + 1, swap)
          /\ \A j \in 1 .. Len(stdin'[o]) : IsPiece(stdin'[o][j], handled' + Busy(o)' + j, swap)
          /\ \A j \in 1 .. Len(pipe'[p]) : IsPiece(pipe'[p][j], handled' + Busy(o)' + Len(stdin'[o]) + j, swap)
          /\ handled' + Busy(o)' + Len(stdin'[o]) + Len(pipe'[p]) = sent'
      BY <2>1, <2>5, <3>3, <3>4, <3>5, <3>6
    <3> QED
      BY <1>0, <3>7 DEF InOrder, IsPiece
  <2>9. CASE buff[p].kind # "swaprole"
    <3>1. (x.kind = "swaprole" <=> sent + 1 = 0) /\ 0 \in {0, sent + 1}
      BY <1>0, <2>2, <2>9
    <3>2. InOrder(o, 0)'
      BY <2>8, <3>1
    <3>3. sent' + Len(stdin'[p]) + 0 <= MAX_SENT
      BY <1>0, <2>1, <2>6
    <3>4. Leads(p)'
      BY <1>1, <2>1, <2>4, <2>9, <3>2, <3>3 DEF Leads, o
    <3> QED
      BY <3>4
  <2>10. CASE buff[p].kind = "swaprole"
    <3>1. (x.kind = "swaprole" <=> sent + 1 = sent + 1) /\ sent + 1 \in {0, sent + 1}
      BY <2>2, <2>10
    <3>2. PICK w : w = sent + 1 /\ InOrder(o, w)'
      BY <2>8, <3>1
    <3>3. stdin'[p] = << >> /\ sh_at'[p] = "reading" /\ handled' < sent'
      BY <1>0, <1>1, <1>2, <2>1, <2>4, <2>10
    <3>4. Answers(o)'
      BY <1>0, <2>1, <2>4, <2>10, <3>2, <3>3 DEF Answers, InOrder, IsPiece
    <3> QED
      BY <3>4 DEF o
  <2> QED
    BY <2>9, <2>10
<1> QED
  BY <1>1, <1>3, <1>4 DEF Sh!Obey, Sh!Fork, Sh!GrandchildEnds, Sh!Go

\* A step of either while both execute: only the one who owes the answer moves,
\* and handling the "swaprole" he takes the role of the other one.
LEMMA AnswerSteps ==
  ASSUME Sh!LinesAssumption, ShellInv, NEW p \in Sh!Processes, Answers(p), NEW r \in Sh!Processes,
         Sh!FromBuffer(r) \/ Sh!FromTerminal(r) \/ Sh!FromPipe(r) \/ Sh!Send(r) \/ Sh!Obey(r)
         \/ Sh!Fork(r) \/ Sh!GrandchildEnds(r)
  PROVE  Leads(p)' \/ Answers(p)'
<1> DEFINE o == Sh!Other(p)
<1>0. /\ sh_at \in [Sh!Processes -> {"unborn", "reading", "got", "running", "left", "failed"}]
      /\ mode \in [Sh!Processes -> {"input", "execute"}] /\ buff \in [Sh!Processes -> Piece]
      /\ stdin \in [Sh!Processes -> Seq(Piece)] /\ pipe \in [Sh!Processes -> Seq(Piece)]
      /\ o \in Sh!Processes /\ o # p /\ Sh!Other(o) = p /\ sent \in Nat /\ handled \in Nat
      /\ MAX_SENT \in Nat /\ sent <= MAX_SENT
      /\ stdin[p] \in Seq(Piece) /\ pipe[o] \in Seq(Piece)
      /\ Len(stdin[p]) \in Nat /\ Len(pipe[o]) \in Nat
  BY ShellFacts DEF ShellInv, Sh!TypeOK, Piece, Sh!LinesAssumption
<1>1. /\ mode[p] = "execute" /\ mode[o] = "execute" /\ sh_at[o] = "reading" /\ stdin[o] = << >> /\ pipe[p] = << >>
      /\ handled < sent
  BY DEF Answers
<1>2. PICK w : w = sent /\ InOrder(p, w)
  BY DEF Answers
<1>3. /\ Busy(p) = 1 => IsPiece(buff[p], handled + 1, w)
      /\ handled + Busy(p) + Len(stdin[p]) + Len(pipe[o]) = sent
  BY <1>2 DEF InOrder
<1>4. r = p
  <2>1. r = p \/ r = o
    BY ShellFacts DEF ShellInv
  <2>2. CASE r = o
    BY <1>0, <1>1, <2>2 DEF Sh!FromBuffer, Sh!FromTerminal, Sh!FromPipe, Sh!Send, Sh!Obey, Sh!Fork,
       Sh!GrandchildEnds, Sh!Go
  <2> QED
    BY <2>1, <2>2
<1>5. ~Sh!FromTerminal(p) /\ ~Sh!Send(p)
  BY <1>1 DEF Sh!FromTerminal, Sh!Send
<1>6. InOrder(p, w)'
  BY <1>1, <1>2, <1>4, <1>5, Executes DEF ShellInv
<1> HIDE DEF o
<1>7. CASE Sh!FromBuffer(p) \/ Sh!FromPipe(p) \/ Sh!Fork(p)
  <2>1. /\ UNCHANGED <<mode, sent, handled>> /\ sh_at'[o] = sh_at[o] /\ stdin'[o] = stdin[o] /\ pipe'[p] = pipe[p]
    BY <1>0, <1>7 DEF Sh!FromBuffer, Sh!FromPipe, Sh!Fork, Sh!Got, Sh!Go, o
  <2>2. w = sent'
    BY <1>2, <2>1
  <2>3. InOrder(p, sent)'
    BY <1>6, <2>2 DEF InOrder, IsPiece
  <2>4. Answers(p)'
    BY <1>1, <2>1, <2>3 DEF Answers, o
  <2> QED
    BY <2>4
<1>8. CASE Sh!Obey(p) \/ Sh!GrandchildEnds(p)
  <2>1. /\ sh_at[p] \in {"got", "running"} /\ handled' = buff[p].number
        /\ UNCHANGED <<stdin, pipe, sent, buff>> /\ sh_at'[o] = sh_at[o] /\ mode'[o] = "execute"
        /\ buff[p].kind = "swaprole" => sh_at'[p] = "reading"
        /\ mode'[p] = IF buff[p].kind = "swaprole" THEN "input" ELSE "execute"
    BY <1>0, <1>1, <1>8 DEF Sh!Obey, Sh!GrandchildEnds, Sh!Go, Sh!Flip
  <2>2. Busy(p) = 1
    BY <1>1, <2>1 DEF Busy
  <2>3. handled' = handled + 1 /\ (buff[p].kind = "swaprole" <=> handled + 1 = sent)
    BY <1>2, <1>3, <2>1, <2>2 DEF IsPiece
  <2>4. CASE buff[p].kind = "swaprole"
    <3>1. handled' = sent /\ Len(stdin[p]) = 0 /\ Len(pipe[o]) = 0
      BY <1>0, <1>3, <2>2, <2>3, <2>4
    <3>2. stdin'[p] = << >> /\ pipe'[o] = << >> /\ stdin'[o] = << >> /\ pipe'[p] = << >>
      BY <1>0, <1>1, <2>1, <3>1, EmptySeq
    <3>3. Busy(o)' = 0
      BY <1>1, <2>1 DEF Busy
    <3>4. InOrder(o, 0)'
      <4>1. /\ handled' + Busy(o)' + Len(stdin'[o]) + Len(pipe'[p]) = sent'
            /\ Len(stdin'[o]) = 0 /\ Len(pipe'[p]) = 0
        BY <1>0, <2>1, <3>1, <3>2, <3>3
      <4> QED
        BY <1>0, <3>3, <4>1 DEF InOrder
    <3>5. sent' + Len(stdin'[p]) + 0 <= MAX_SENT /\ Len(stdin'[p]) = 0
      BY <1>0, <2>1, <3>1
    <3>6. Leads(p)'
      BY <2>1, <2>4, <3>2, <3>4, <3>5 DEF Leads, o
    <3> QED
      BY <3>6
  <2>5. CASE buff[p].kind # "swaprole"
    <3>1. handled' < sent'
      BY <1>0, <1>1, <2>1, <2>3, <2>5
    <3>2. InOrder(p, sent)'
      <4>1. w = sent'
        BY <1>2, <2>1
      <4> QED
        BY <1>6, <4>1 DEF InOrder, IsPiece
    <3>3. Answers(p)'
      BY <1>1, <2>1, <2>5, <3>1, <3>2 DEF Answers, o
    <3> QED
      BY <3>3
  <2> QED
    BY <2>4, <2>5
<1> QED
  BY <1>4, <1>5, <1>7, <1>8

\* A step of the one who executes while the other one takes input: the roles
\* stay, no "swaprole" being on its way.
LEMMA FollowSteps ==
  ASSUME Sh!LinesAssumption, ShellInv, NEW p \in Sh!Processes, Leads(p), NEW r \in Sh!Processes, r # p,
         Sh!FromBuffer(r) \/ Sh!FromTerminal(r) \/ Sh!FromPipe(r) \/ Sh!Send(r) \/ Sh!Obey(r)
         \/ Sh!Fork(r) \/ Sh!GrandchildEnds(r)
  PROVE  Leads(p)'
<1> DEFINE o == Sh!Other(p)
<1>0. /\ sh_at \in [Sh!Processes -> {"unborn", "reading", "got", "running", "left", "failed"}]
      /\ mode \in [Sh!Processes -> {"input", "execute"}] /\ buff \in [Sh!Processes -> Piece]
      /\ stdin \in [Sh!Processes -> Seq(Piece)] /\ pipe \in [Sh!Processes -> Seq(Piece)]
      /\ o \in Sh!Processes /\ o # p /\ Sh!Other(o) = p /\ r = o /\ handled \in Nat
  BY ShellFacts DEF ShellInv, Sh!TypeOK, Piece
<1>1. mode[o] = "execute" /\ InOrder(o, 0)
  BY DEF Leads
<1>2. ~Sh!FromTerminal(o) /\ ~Sh!Send(o)
  BY <1>1 DEF Sh!FromTerminal, Sh!Send
<1>3. Sh!FromBuffer(o) \/ Sh!FromPipe(o) \/ Sh!Obey(o) \/ Sh!Fork(o) \/ Sh!GrandchildEnds(o)
  BY <1>0, <1>2
<1>4. InOrder(o, 0)'
  BY <1>0, <1>1, <1>3, Executes DEF ShellInv
<1> HIDE DEF o
<1>5. /\ sh_at'[p] = sh_at[p] /\ buff'[p] = buff[p] /\ stdin'[p] = stdin[p] /\ sent' = sent /\ pipe'[o] = pipe[o]
      /\ mode'[p] = mode[p]
  <2>1. CASE Sh!FromBuffer(o) \/ Sh!FromPipe(o) \/ Sh!Fork(o)
    BY <1>0, <2>1 DEF Sh!FromBuffer, Sh!FromPipe, Sh!Fork, Sh!Got, Sh!Go
  <2>2. CASE Sh!Obey(o) \/ Sh!GrandchildEnds(o)
    BY <1>0, <2>2 DEF Sh!Obey, Sh!GrandchildEnds, Sh!Go
  <2> QED
    BY <1>3, <2>1, <2>2
<1>6. mode'[o] = "execute"
  <2>1. CASE Sh!FromBuffer(o) \/ Sh!FromPipe(o) \/ Sh!Fork(o)
    BY <1>1, <2>1 DEF Sh!FromBuffer, Sh!FromPipe, Sh!Fork, Sh!Got
  <2>2. CASE Sh!Obey(o) \/ Sh!GrandchildEnds(o)
    <3>1. sh_at[o] \in {"got", "running"} /\ mode' = [mode EXCEPT ![o] = IF buff[o].kind = "swaprole" THEN Sh!Flip(@) ELSE @]
      BY <1>0, <2>2 DEF Sh!Obey, Sh!GrandchildEnds, Sh!Go
    <3>2. IsPiece(buff[o], handled + 1, 0)
      BY <1>1, <3>1 DEF InOrder, Busy
    <3>3. buff[o].kind # "swaprole"
      BY <1>0, <3>2 DEF IsPiece
    <3> QED
      BY <1>0, <1>1, <3>1, <3>3
  <2> QED
    BY <1>3, <2>1, <2>2
<1> QED
  BY <1>4, <1>5, <1>6 DEF Leads, o

\* The supervisor starts the children, one after the other, and waits for them.
LEMMA SupervisorSteps ==
  ASSUME Sh!LinesAssumption, ShellInv, NEW q \in Sh!Processes, Sh!StartChild(q) \/ Sh!SuperWaits(q)
  PROVE  \E p \in Sh!Processes : Leads(p)' \/ Answers(p)'
<1>1. PICK p \in Sh!Processes : Leads(p) \/ Answers(p)
  BY DEF ShellInv
<1> DEFINE o == Sh!Other(p)
<1>2. /\ o \in Sh!Processes /\ sh_at \in [Sh!Processes -> {"unborn", "reading", "got", "running", "left", "failed"}]
      /\ \A r \in Sh!Processes : r = p \/ r = o
  BY ShellFacts DEF ShellInv, Sh!TypeOK
<1>3. UNCHANGED <<mode, buff, stdin, pipe, sent, handled>>
  BY DEF Sh!StartChild, Sh!SuperWaits, Sh!shell
<1>4. sh_at' = sh_at \/ (sh_at[q] = "unborn" /\ sh_at' = [sh_at EXCEPT ![q] = "reading"])
  <2>1. CASE Sh!SuperWaits(q)
    BY <2>1 DEF Sh!SuperWaits, Sh!shell
  <2>2. CASE Sh!StartChild(q)
    <3>1. sh_at[q] = "unborn"
      BY <2>2 DEF Sh!StartChild, ShellInv, Born, Sh!Processes
    <3> QED
      BY <2>2, <3>1 DEF Sh!StartChild
  <2> QED
    BY <2>1, <2>2
<1>5. \A r \in Sh!Processes : sh_at'[r] = sh_at[r] \/ (sh_at[r] = "unborn" /\ sh_at'[r] = "reading")
  BY <1>2, <1>4
<1>6. \A r \in Sh!Processes : Busy(r)' = Busy(r)
  BY <1>3, <1>5 DEF Busy
<1>7. CASE Leads(p)
  <2>1. /\ mode[p] = "input" /\ mode[o] = "execute"
        /\ sh_at[p] \in {"unborn", "reading", "got", "left"} /\ pipe[o] = << >>
        /\ \A j \in 1 .. Len(stdin[p]) - 1 : stdin[p][j].kind # "swaprole"
        /\ sh_at[p] = "got" /\ buff[p].kind = "swaprole" => stdin[p] = << >>
        /\ sent + Len(stdin[p]) + (IF sh_at[p] = "got" THEN 1 ELSE 0) <= MAX_SENT
        /\ InOrder(o, 0)
    BY <1>7 DEF Leads
  <2>2. InOrder(o, 0)'
    BY <1>2, <1>3, <1>6, <2>1 DEF InOrder, IsPiece
  <2>3. sh_at'[p] = "got" <=> sh_at[p] = "got"
    BY <1>5
  <2>4. sh_at'[p] \in {"unborn", "reading", "got", "left"}
    BY <1>5, <2>1
  <2>5. Leads(p)'
    BY <1>3, <2>1, <2>2, <2>3, <2>4 DEF Leads
  <2> QED
    BY <2>5
<1>8. CASE Answers(p)
  <2>1. PICK w : w = sent /\ InOrder(p, w)
    BY <1>8 DEF Answers
  <2>2. w = sent' /\ InOrder(p, w)'
    BY <1>2, <1>3, <1>6, <2>1 DEF InOrder, IsPiece
  <2>3. InOrder(p, sent)'
    BY <2>2 DEF InOrder, IsPiece
  <2>4. sh_at'[o] = "reading"
    BY <1>2, <1>5, <1>8 DEF Answers
  <2>5. Answers(p)'
    BY <1>3, <1>8, <2>3, <2>4 DEF Answers
  <2> QED
    BY <2>5
<1> QED
  BY <1>1, <1>7, <1>8

\* Who is not there has no role to play, whatever step is taken.
LEMMA BornStep ==
  ASSUME Sh!LinesAssumption, ShellInv, Sh!Next
  PROVE  Born'
<1>0. /\ sh_at \in [Sh!Processes -> {"unborn", "reading", "got", "running", "left", "failed"}]
      /\ mode \in [Sh!Processes -> {"input", "execute"}] /\ "C" \in Sh!Processes /\ "E" \in Sh!Processes
  BY DEF ShellInv, Sh!TypeOK, Sh!Processes
<1>1. /\ super = "start" => sh_at["C"] = "unborn"
      /\ super \in {"start", "one", "failed"} => sh_at["E"] = "unborn"
      /\ sh_at["E"] = "unborn" => mode["E"] = "execute"
  BY DEF ShellInv, Born
<1>2. ASSUME NEW q \in Sh!Processes, Sh!StartChild(q) PROVE Born'
  BY <1>0, <1>1, <1>2 DEF Sh!StartChild, Born, Sh!Processes
<1>3. ASSUME NEW q \in Sh!Processes, Sh!SuperWaits(q) PROVE Born'
  BY <1>0, <1>1, <1>3 DEF Sh!SuperWaits, Sh!shell, Born
<1>4. ASSUME NEW q \in Sh!Processes,
             Sh!FromBuffer(q) \/ Sh!FromTerminal(q) \/ Sh!FromPipe(q) \/ Sh!Send(q) \/ Sh!Obey(q)
             \/ Sh!Fork(q) \/ Sh!GrandchildEnds(q)
      PROVE  Born'
  <2>1. /\ super' = super /\ sh_at[q] # "unborn" /\ \A r \in Sh!Processes : r # q => sh_at'[r] = sh_at[r] /\ mode'[r] = mode[r]
        /\ sh_at'[q] # "unborn"
    <3>1. CASE Sh!FromBuffer(q) \/ Sh!FromTerminal(q) \/ Sh!FromPipe(q)
      <4>1. super' = super /\ mode' = mode /\ sh_at[q] = "reading" /\ sh_at' = [sh_at EXCEPT ![q] = "got"]
        BY <3>1, ReadingFacts DEF ShellInv
      <4> QED
        BY <1>0, <4>1
    <3>2. CASE Sh!Send(q) \/ Sh!Obey(q) \/ Sh!Fork(q) \/ Sh!GrandchildEnds(q)
      BY <1>0, <3>2 DEF Sh!Send, Sh!Obey, Sh!Fork, Sh!GrandchildEnds, Sh!Go
    <3> QED
      BY <1>4, <3>1, <3>2
  <2> QED
    BY <1>0, <1>1, <2>1 DEF Born
<1> QED
  BY <1>2, <1>3, <1>4 DEF Sh!Next, Sh!System

\* The invariant holds at first and is kept.
LEMMA ShellInvariant == ASSUME Sh!LinesAssumption PROVE Sh!Spec => []ShellInv
<1>1. Sh!Init => ShellInv
  <2> SUFFICES ASSUME Sh!Init PROVE ShellInv
    OBVIOUS
  <2>1. /\ super = "start" /\ mode = [p \in Sh!Processes |-> IF p = "C" THEN "input" ELSE "execute"]
        /\ sh_at = [p \in Sh!Processes |-> "unborn"] /\ buff = [p \in Sh!Processes |-> Sh!None]
        /\ stdin = [p \in Sh!Processes |-> << >>] /\ pipe = [p \in Sh!Processes |-> << >>]
        /\ sent = 0 /\ handled = 0 /\ MAX_SENT \in Nat
    BY DEF Sh!Init, Sh!LinesAssumption
  <2>2. 0 \in 0 .. MAX_SENT /\ 0 <= MAX_SENT
    BY <2>1
  <2>3. Sh!None \in Piece
    BY <2>2 DEF Sh!None, Piece
  <2>4. Sh!TypeOK
    <3>1. << >> \in Seq(Piece)
      OBVIOUS
    <3> QED
      BY <2>1, <2>2, <2>3, <3>1 DEF Sh!TypeOK, Piece
  <2>5. Born
    BY <2>1 DEF Born, Sh!Processes
  <2>6. /\ "C" \in Sh!Processes /\ "E" \in Sh!Processes /\ Sh!Other("C") = "E" /\ Sh!Other("E") = "C"
        /\ Busy("E") = 0 /\ sh_at["C"] = "unborn" /\ Len(<< >>) = 0
        /\ mode["C"] = "input" /\ mode["E"] = "execute" /\ stdin["C"] = << >> /\ stdin["E"] = << >>
        /\ pipe["C"] = << >> /\ pipe["E"] = << >>
    BY <2>1 DEF Sh!Processes, Sh!Other, Busy
  <2>7. Len(stdin["E"]) = 0 /\ Len(pipe["C"]) = 0 /\ Len(stdin["C"]) = 0
    BY <2>6
  <2>8. InOrder("E", 0)
    BY <2>1, <2>6, <2>7 DEF InOrder
  <2>9. sent + Len(stdin["C"]) + 0 <= MAX_SENT
    BY <2>1, <2>2, <2>7
  <2>10. \A j \in 1 .. Len(stdin["C"]) - 1 : stdin["C"][j].kind # "swaprole"
    BY <2>7
  <2>11. Leads("C")
    BY <2>6, <2>8, <2>9, <2>10 DEF Leads
  <2> QED
    BY <2>4, <2>5, <2>6, <2>11 DEF ShellInv
<1>2. ASSUME ShellInv, [Sh!Next]_(Sh!vars) PROVE ShellInv'
  <2>1. Sh!TypeOK'
    BY <1>2, ShellTypesStep
  <2>2. PICK p \in Sh!Processes : Leads(p) \/ Answers(p)
    BY <1>2 DEF ShellInv
  <2>3. Sh!Other(p) \in Sh!Processes
    BY <1>2, ShellFacts DEF ShellInv
  <2>4. CASE UNCHANGED Sh!vars
    <3>1. UNCHANGED <<super, mode, sh_at, buff, stdin, pipe, sent, handled>>
      BY <2>4 DEF Sh!vars, Sh!shell
    <3>2. Leads(p)' \/ Answers(p)'
      BY <2>2, <3>1 DEF Leads, Answers, InOrder, IsPiece, Busy
    <3>3. Born'
      BY <1>2, <3>1 DEF ShellInv, Born
    <3> QED
      BY <2>1, <3>2, <3>3 DEF ShellInv
  <2>5. CASE Sh!Next
    <3>1. Born'
      BY <1>2, <2>5, BornStep
    <3>2. ASSUME NEW r \in Sh!Processes,
                 Sh!FromBuffer(r) \/ Sh!FromTerminal(r) \/ Sh!FromPipe(r) \/ Sh!Send(r) \/ Sh!Obey(r)
                 \/ Sh!Fork(r) \/ Sh!GrandchildEnds(r)
          PROVE  \E q \in Sh!Processes : Leads(q)' \/ Answers(q)'
      <4>1. CASE Answers(p)
        BY <1>2, <3>2, <4>1, AnswerSteps
      <4>2. CASE Leads(p) /\ r # p
        BY <1>2, <3>2, <4>2, FollowSteps
      <4>3. CASE Leads(p) /\ r = p
        <5>1. Leads(p)' \/ Answers(Sh!Other(p))'
          BY <1>2, <3>2, <4>3, LeadSteps
        <5> QED
          BY <2>3, <5>1
      <4> QED
        BY <2>2, <4>1, <4>2, <4>3
    <3>3. \E q \in Sh!Processes : Leads(q)' \/ Answers(q)'
      BY <1>2, <2>5, <3>2, SupervisorSteps DEF Sh!Next, Sh!System
    <3> QED
      BY <2>1, <3>1, <3>3 DEF ShellInv
  <2> QED
    BY <1>2, <2>4, <2>5
<1> QED
  BY <1>1, <1>2, PTL DEF Sh!Spec

\* The last of two sequences put together.
LEMMA LastOf ==
  ASSUME NEW S, NEW a \in Seq(S), NEW b \in Seq(S)
  PROVE  /\ a \o b \in Seq(S) /\ Len(a \o b) = Len(a) + Len(b) /\ Len(a) \in Nat /\ Len(b) \in Nat
         /\ Len(b) > 0 => (a \o b)[Len(a \o b)] = b[Len(b)]
         /\ Len(b) = 0 => Len(a \o b) = Len(a)
                          /\ (Len(a) > 0 => (a \o b)[Len(a \o b)] = a[Len(a)])
<1>1. /\ a \o b \in Seq(S) /\ Len(a \o b) = Len(a) + Len(b)
      /\ \A j \in 1 .. Len(a) + Len(b) : (a \o b)[j] = IF j <= Len(a) THEN a[j] ELSE b[j - Len(a)]
  BY ConcatProperties
<1>2. Len(a) \in Nat /\ Len(b) \in Nat
  BY LenProperties
<1>3. ASSUME Len(b) > 0 PROVE (a \o b)[Len(a \o b)] = b[Len(b)]
  <2>1. /\ Len(a) + Len(b) \in 1 .. Len(a) + Len(b) /\ ~(Len(a) + Len(b) <= Len(a))
        /\ (Len(a) + Len(b)) - Len(a) = Len(b)
    BY <1>2, <1>3
  <2> QED
    BY <1>1, <2>1
<1>4. ASSUME Len(b) = 0, Len(a) > 0 PROVE (a \o b)[Len(a \o b)] = a[Len(a)]
  <2>1. /\ Len(a) + Len(b) \in 1 .. Len(a) + Len(b) /\ Len(a) + Len(b) <= Len(a) /\ Len(a) + Len(b) = Len(a)
    BY <1>2, <1>4
  <2> QED
    BY <1>1, <2>1
<1>5. Len(b) = 0 => Len(a \o b) = Len(a)
  BY <1>1, <1>2
<1> QED
  BY <1>1, <1>2, <1>3, <1>4, <1>5

\* While an answer is due, the last piece that comes to who owes it is the
\* "swaprole".
LEMMA SwapIsLast ==
  ASSUME Sh!LinesAssumption, ShellInv, NEW p \in Sh!Processes, Answers(p)
  PROVE  /\ Sh!Coming(p) # << >> /\ Sh!Coming(p)[Len(Sh!Coming(p))].kind = "swaprole"
         /\ Sh!Coming(Sh!Other(p)) = << >>
<1> DEFINE o == Sh!Other(p)
           first == IF sh_at[p] \in {"got", "running", "failed"} /\ mode[p] = "execute" THEN << buff[p] >> ELSE << >>
           near == first \o stdin[p]
<1>1. /\ o \in Sh!Processes /\ Sh!Other(o) = p /\ sent \in Nat /\ handled \in Nat /\ buff[p] \in Piece
      /\ stdin[p] \in Seq(Piece) /\ pipe[o] \in Seq(Piece) /\ Len(stdin[p]) \in Nat /\ Len(pipe[o]) \in Nat
      /\ Busy(p) \in {0, 1}
  BY ShellFacts DEF ShellInv
<1>2. sh_at[o] = "reading" /\ stdin[o] = << >> /\ pipe[p] = << >> /\ handled < sent
  BY DEF Answers
<1>3. PICK w : w = sent /\ InOrder(p, w)
  BY DEF Answers
<1>4. /\ Busy(p) = 1 => IsPiece(buff[p], handled + 1, w)
      /\ \A j \in 1 .. Len(stdin[p]) : IsPiece(stdin[p][j], handled + Busy(p) + j, w)
      /\ \A j \in 1 .. Len(pipe[o]) : IsPiece(pipe[o][j], handled + Busy(p) + Len(stdin[p]) + j, w)
      /\ handled + Busy(p) + Len(stdin[p]) + Len(pipe[o]) = sent
  BY <1>3 DEF InOrder
<1>5. first \in Seq(Piece) /\ Len(first) = Busy(p) /\ (Busy(p) = 1 => first = << buff[p] >>)
  BY <1>1 DEF Busy
<1>6. Sh!Coming(p) = near \o pipe[o]
  BY DEF Sh!Coming
<1>7. Sh!Coming(o) = << >>
  <2>1. Sh!Coming(o) = (<< >> \o << >>) \o << >>
    BY <1>1, <1>2 DEF Sh!Coming
  <2> QED
    BY <2>1
<1> HIDE DEF first, near
<1>8. near \in Seq(Piece) /\ Len(near) = Busy(p) + Len(stdin[p]) /\ Len(near) \in Nat
  <2>1. near \in Seq(Piece) /\ Len(near) = Len(first) + Len(stdin[p])
    BY <1>1, <1>5, ConcatProperties DEF near
  <2> QED
    BY <1>1, <1>5, <2>1
<1>9. Sh!Coming(p) \in Seq(Piece) /\ Len(Sh!Coming(p)) > 0
  <2>1. Sh!Coming(p) \in Seq(Piece) /\ Len(Sh!Coming(p)) = Len(near) + Len(pipe[o])
    <3>1. \A s \in Seq(Piece) : near \o s \in Seq(Piece) /\ Len(near \o s) = Len(near) + Len(s)
      BY <1>8, LastOf
    <3> QED
      BY <1>1, <1>6, <3>1, Zenon
  <2>2. Len(near) + Len(pipe[o]) > 0
    <3>1. \A h, k, l, m, d, u \in Int : h + k + l + m = u /\ h < u /\ d = k + l => d + m > 0
      OBVIOUS
    <3>2. Busy(p) \in Int /\ handled \in Int /\ sent \in Int /\ Len(stdin[p]) \in Int /\ Len(pipe[o]) \in Int
          /\ Len(near) \in Int
      BY <1>1, <1>8
    <3> QED
      BY <1>2, <1>4, <1>8, <3>1, <3>2, Zenon
  <2> QED
    BY <2>1, <2>2
<1>10. Sh!Coming(p)[Len(Sh!Coming(p))].kind = "swaprole"
  <2>1. CASE Len(pipe[o]) > 0
    <3>1. Sh!Coming(p)[Len(Sh!Coming(p))] = pipe[o][Len(pipe[o])]
      BY <1>1, <1>6, <1>8, <2>1, LastOf
    <3>2. IsPiece(pipe[o][Len(pipe[o])], sent, w)
      <4>1. Len(pipe[o]) \in 1 .. Len(pipe[o])
        BY <1>1, <2>1
      <4> QED
        BY <1>4, <4>1
    <3> QED
      BY <1>3, <3>1, <3>2 DEF IsPiece
  <2>2. CASE Len(pipe[o]) = 0 /\ Len(stdin[p]) > 0
    <3>1. /\ Sh!Coming(p)[Len(Sh!Coming(p))] = near[Len(near)] /\ near[Len(near)] = stdin[p][Len(stdin[p])]
      <4>1. Len(near) > 0
        BY <1>1, <1>8, <2>2
      <4>2. Sh!Coming(p)[Len(Sh!Coming(p))] = near[Len(near)]
        BY <1>1, <1>6, <1>8, <2>2, <4>1, LastOf
      <4>3. near[Len(near)] = stdin[p][Len(stdin[p])]
        BY <1>1, <1>5, <2>2, LastOf DEF near
      <4> QED
        BY <4>2, <4>3
    <3>2. IsPiece(stdin[p][Len(stdin[p])], sent, w)
      <4>1. Len(stdin[p]) \in 1 .. Len(stdin[p]) /\ handled + Busy(p) + Len(stdin[p]) = sent
        BY <1>1, <1>4, <2>2
      <4> QED
        BY <1>4, <4>1
    <3> QED
      BY <1>3, <3>1, <3>2 DEF IsPiece
  <2>3. CASE Len(pipe[o]) = 0 /\ Len(stdin[p]) = 0
    <3>1. Busy(p) = 1 /\ handled + 1 = sent
      BY <1>1, <1>2, <1>4, <2>3
    <3>2. Sh!Coming(p)[Len(Sh!Coming(p))] = first[1]
      <4>1. Len(near) = 1 /\ Len(first) = 1
        BY <1>5, <1>8, <2>3, <3>1
      <4>2. Sh!Coming(p)[Len(Sh!Coming(p))] = near[Len(near)]
        <5>1. Len(near) > 0 /\ Len(pipe[o]) = 0
          BY <2>3, <4>1
        <5>2. \A s \in Seq(Piece) : Len(s) = 0 /\ Len(near) > 0 => (near \o s)[Len(near \o s)] = near[Len(near)]
          BY <1>8, LastOf
        <5> QED
          BY <1>1, <1>6, <5>1, <5>2, Zenon
      <4>3. near[Len(near)] = first[Len(first)]
        BY <1>1, <1>5, <2>3, <4>1, LastOf DEF near
      <4> QED
        BY <4>1, <4>2, <4>3
    <3>3. IsPiece(buff[p], sent, w) /\ first[1] = buff[p]
      BY <1>4, <1>5, <3>1
    <3> QED
      BY <1>3, <3>2, <3>3 DEF IsPiece
  <2> QED
    BY <1>1, <2>1, <2>2, <2>3
<1> QED
  BY <1>7, <1>9, <1>10

\* The roles are opposite, but while the answer to a "swaprole" is on its way,
\* and the two never run a command at once, for any lines that end with their
\* "swaprole" (CSE.c:131-147, 199-274).
THEOREM RolesOpposite == ASSUME Sh!LinesAssumption PROVE Sh!Spec => []OppositeRoles
<1>1. ShellInv => OppositeRoles
  <2> SUFFICES ASSUME ShellInv PROVE OppositeRoles
    OBVIOUS
  <2>1. PICK p \in Sh!Processes : Leads(p) \/ Answers(p)
    BY DEF ShellInv
  <2>2. Sh!TypeOK
    BY DEF ShellInv
  <2>3. ~ \A q \in Sh!Processes : sh_at[q] = "running"
    <3>1. CASE Leads(p)
      BY <3>1 DEF Leads
    <3>2. CASE Answers(p)
      BY <3>2, <2>2, ShellFacts DEF Answers
    <3> QED
      BY <2>1, <3>1, <3>2
  <2>4. CASE Leads(p)
    <3>1. mode["C"] # mode["E"]
      BY <2>4 DEF Leads, Sh!Processes, Sh!Other
    <3> QED
      BY <2>2, <2>3, <3>1 DEF OppositeRoles, Sh!OppositeRoles
  <2>5. CASE Answers(p)
    <3>1. /\ Sh!Coming(p) # << >> /\ Sh!Coming(p)[Len(Sh!Coming(p))].kind = "swaprole"
          /\ Sh!Coming(Sh!Other(p)) = << >>
      BY <2>5, SwapIsLast
    <3>2. mode[p] = "execute" /\ mode[Sh!Other(p)] = "execute"
      BY <2>5 DEF Answers
    <3> QED
      BY <2>2, <2>3, <3>1, <3>2 DEF OppositeRoles, Sh!OppositeRoles
  <2> QED
    BY <2>1, <2>4, <2>5
<1> QED
  BY <1>1, ShellInvariant, PTL

\* The stream of pieces, from what the processes of the shell have done so far.
Order == INSTANCE Stream WITH typed <- sent, lost <- Sh!Lost
SentInOrder == Order!Init /\ [][Order!Next]_(Order!vars)

\* Who handles a piece has taken it from those sent and not handled, and nothing
\* has been lost.
LEMMA Handles ==
  ASSUME Sh!LinesAssumption, ShellInv, NEW x \in Sh!Processes, mode[x] = "execute",
         sh_at[x] \in {"got", "running"}
  PROVE  buff[x].number = handled + 1 /\ handled < sent /\ ~Sh!Lost
<1>1. PICK p \in Sh!Processes : Leads(p) \/ Answers(p)
  BY DEF ShellInv
<1> DEFINE o == Sh!Other(x)
<1>2. /\ o \in Sh!Processes /\ o # x /\ Sh!Other(o) = x /\ \A r \in Sh!Processes : r = x \/ r = o
      /\ sent \in Nat /\ handled \in Nat /\ Len(stdin[x]) \in Nat /\ Len(pipe[o]) \in Nat
  BY ShellFacts DEF ShellInv
<1>3. /\ sh_at[o] \in {"unborn", "reading", "got", "left"}
      /\ sh_at[o] = "unborn" => mode[o] = "input"
      /\ \E swap : InOrder(x, swap)
  <2>1. CASE Leads(p)
    <3>1. p = o
      BY <1>2, <2>1 DEF Leads
    <3> QED
      BY <1>2, <2>1, <3>1 DEF Leads
  <2>2. CASE Answers(p)
    <3>1. p = x
      BY <1>2, <2>2 DEF Answers
    <3> QED
      BY <1>2, <2>2, <3>1 DEF Answers
  <2> QED
    BY <1>1, <2>1, <2>2
<1>4. super # "failed"
  <2> SUFFICES ASSUME super = "failed" PROVE FALSE
    OBVIOUS
  <2>1. sh_at["E"] = "unborn" /\ mode["E"] = "execute"
    BY DEF ShellInv, Born
  <2>2. "E" = x \/ "E" = o
    BY <1>2 DEF Sh!Processes
  <2> QED
    BY <1>3, <2>1, <2>2
<1>5. ~Sh!Lost
  BY <1>2, <1>3, <1>4 DEF Sh!Lost
<1>6. Busy(x) = 1
  BY DEF Busy
<1>7. buff[x].number = handled + 1 /\ handled + 1 + Len(stdin[x]) + Len(pipe[o]) = sent
  BY <1>3, <1>6 DEF InOrder, IsPiece
<1>8. handled < sent
  <2>1. \A k, l, m, h \in Nat : h + 1 + k + l = m => h < m
    OBVIOUS
  <2> QED
    BY <1>2, <1>7, <2>1
<1> QED
  BY <1>5, <1>7, <1>8

\* A step of the shell is one of the stream, or none.
LEMMA StreamStep ==
  ASSUME Sh!LinesAssumption, ShellInv, [Sh!Next]_(Sh!vars)
  PROVE  [Order!Next]_(Order!vars)
<1>0. /\ sh_at \in [Sh!Processes -> {"unborn", "reading", "got", "running", "left", "failed"}]
      /\ super = "start" => sh_at["C"] = "unborn"
      /\ super = "one" => sh_at["E"] = "unborn"
  BY DEF ShellInv, Sh!TypeOK, Born
<1>1. CASE UNCHANGED Sh!vars
  BY <1>1 DEF Sh!vars, Sh!shell, Order!vars, Sh!Lost
<1>2. ASSUME NEW q \in Sh!Processes, Sh!StartChild(q) PROVE [Order!Next]_(Order!vars)
  <2>1. UNCHANGED <<sent, handled>>
    BY <1>2 DEF Sh!StartChild
  <2>2. CASE super' = "failed"
    BY <2>1, <2>2 DEF Order!Next, Order!Lose, Sh!Lost
  <2>3. CASE super' # "failed"
    <3>1. super # "failed" /\ sh_at[q] = "unborn" /\ sh_at' = [sh_at EXCEPT ![q] = "reading"]
      BY <1>0, <1>2, <2>3 DEF Sh!StartChild, Sh!Processes
    <3>2. Sh!Lost' <=> Sh!Lost
      BY <1>0, <2>3, <3>1 DEF Sh!Lost
    <3> QED
      BY <2>1, <3>2 DEF Order!vars, Sh!Lost
  <2> QED
    BY <2>2, <2>3
<1>3. ASSUME NEW q \in Sh!Processes, Sh!SuperWaits(q) PROVE [Order!Next]_(Order!vars)
  <2>1. UNCHANGED <<sent, handled, sh_at>> /\ super # "failed" /\ super' # "failed"
    BY <1>3 DEF Sh!SuperWaits, Sh!shell, Sh!Processes
  <2> QED
    BY <2>1 DEF Order!vars, Sh!Lost
<1>4. ASSUME NEW q \in Sh!Processes, Sh!FromBuffer(q) \/ Sh!FromTerminal(q) \/ Sh!FromPipe(q)
      PROVE  [Order!Next]_(Order!vars)
  <2>1. UNCHANGED <<super, sent, handled>> /\ sh_at[q] = "reading" /\ sh_at' = [sh_at EXCEPT ![q] = "got"]
    BY <1>4, ReadingFacts DEF ShellInv
  <2>2. Sh!Lost' <=> Sh!Lost
    BY <1>0, <2>1 DEF Sh!Lost
  <2> QED
    BY <2>1, <2>2 DEF Order!vars, Sh!Lost
<1>5. ASSUME NEW q \in Sh!Processes, Sh!Send(q) PROVE [Order!Next]_(Order!vars)
  <2>1. /\ super' = super /\ sent' = sent + 1 /\ handled' = handled /\ sh_at[q] = "got"
        /\ sh_at' \in {[sh_at EXCEPT ![q] = "left"], [sh_at EXCEPT ![q] = "reading"]}
    BY <1>5 DEF Sh!Send, Sh!Go
  <2>2. Sh!Lost' <=> Sh!Lost
    BY <1>0, <2>1 DEF Sh!Lost
  <2> QED
    BY <2>1, <2>2 DEF Order!Next, Order!Type, Sh!Lost
<1>6. ASSUME NEW q \in Sh!Processes, Sh!Obey(q) \/ Sh!GrandchildEnds(q) PROVE [Order!Next]_(Order!vars)
  <2>1. /\ super' = super /\ sent' = sent /\ handled' = buff[q].number /\ sh_at[q] \in {"got", "running"}
        /\ sh_at' \in {[sh_at EXCEPT ![q] = "left"], [sh_at EXCEPT ![q] = "reading"]}
    BY <1>6 DEF Sh!Obey, Sh!GrandchildEnds, Sh!Go
  <2>2. mode[q] = "execute"
    <3>1. CASE sh_at[q] = "got"
      BY <1>6, <3>1 DEF Sh!Obey, Sh!GrandchildEnds, Sh!Go
    <3>2. CASE sh_at[q] = "running"
      BY <3>2, ShellFacts DEF ShellInv, Leads, Answers
    <3> QED
      BY <2>1, <3>1, <3>2
  <2>3. handled' = handled + 1 /\ handled < sent /\ ~Sh!Lost
    BY <2>1, <2>2, Handles
  <2>4. Sh!Lost' <=> Sh!Lost
    BY <1>0, <2>1 DEF Sh!Lost
  <2> QED
    BY <2>1, <2>3, <2>4 DEF Order!Next, Order!Handle, Sh!Lost
<1>7. ASSUME NEW q \in Sh!Processes, Sh!Fork(q) PROVE [Order!Next]_(Order!vars)
  <2>1. UNCHANGED <<super, sent, handled>> /\ sh_at[q] = "got"
    BY <1>7 DEF Sh!Fork, Sh!Go
  <2>2. CASE sh_at' = [sh_at EXCEPT ![q] = "running"]
    <3>1. Sh!Lost' <=> Sh!Lost
      BY <1>0, <2>1, <2>2 DEF Sh!Lost
    <3> QED
      BY <2>1, <3>1 DEF Order!vars, Sh!Lost
  <2>3. CASE sh_at' = [sh_at EXCEPT ![q] = "failed"]
    <3>1. Sh!Lost'
      BY <1>0, <2>3 DEF Sh!Lost
    <3> QED
      BY <2>1, <3>1 DEF Order!Next, Order!Lose, Sh!Lost
  <2> QED
    BY <1>7, <2>2, <2>3 DEF Sh!Fork, Sh!Go
<1> QED
  BY <1>1, <1>2, <1>3, <1>4, <1>5, <1>6, <1>7 DEF Sh!Next, Sh!System

\* Both processes together handle what is sent in the order it was sent and each
\* piece once, through all exchanges of their roles: the safety part of
\* ImplementsStream.  (That all of it is handled needs fairness.)
THEOREM StreamImplemented == ASSUME Sh!LinesAssumption PROVE Sh!Spec => SentInOrder
<1>1. Sh!Init => Order!Init
  BY DEF Sh!Init, Order!Init, Sh!Lost
<1>2. ShellInv /\ [Sh!Next]_(Sh!vars) => [Order!Next]_(Order!vars)
  BY StreamStep
<1> QED
  BY <1>1, <1>2, ShellInvariant, PTL DEF Sh!Spec, SentInOrder

-----------------------------------------------------------------------------
(* Sums of the values of a function, and induction over numbers and over   *)
(* finite sets: the theorems of the library for induction take an operator,*)
(* but that every set of numbers has a least one is a fact about sets.     *)

\* A set of numbers that is not empty has a least one.
LEMMA LeastNumber ==
  ASSUME NEW T, T \subseteq Nat, T # {}
  PROVE  \E x \in T : \A y \in T : ~(y < x)
<1> DEFINE Less == {ss \in Nat \X Nat : ss[1] < ss[2]}
<1>1. IsWellFoundedOn(Less, Nat)
  BY NatLessThanWellFounded DEF OpToRel
<1>2. \A x, y \in Nat : x < y => <<x, y>> \in Less
  OBVIOUS
<1> HIDE DEF Less
<1>3. PICK x \in T : \A y \in T : <<y, x>> \notin Less
  BY <1>1, WFMin
<1> QED
  BY <1>2, <1>3

\* A set with 0 and all successors has all numbers.
LEMMA AllNumbers ==
  ASSUME NEW T, 0 \in T, \A x \in Nat : x \in T => x + 1 \in T
  PROVE  Nat \subseteq T
<1> SUFFICES ASSUME Nat \ T # {} PROVE FALSE
  OBVIOUS
<1>1. PICK x \in Nat \ T : \A y \in Nat \ T : ~(y < x)
  BY LeastNumber
<1>2. x - 1 \in Nat /\ x - 1 < x /\ (x - 1) + 1 = x
  BY <1>1
<1> QED
  BY <1>1, <1>2

Pick(E) == CHOOSE x \in E : TRUE

\* A set T of sets has D if it has {} and every subset of D without one of whose members
\* is in T.
LEMMA AllSubsets ==
  ASSUME NEW D, IsFiniteSet(D), NEW T, {} \in T,
         \A E \in SUBSET D : E # {} /\ E \ {Pick(E)} \in T => E \in T
  PROVE  SUBSET D \subseteq T
<1> DEFINE Good == {x \in Nat : \A E \in SUBSET D : Cardinality(E) = x => E \in T}
<1>0. \A E \in SUBSET D : IsFiniteSet(E) /\ Cardinality(E) \in Nat
  BY FS_Subset, FS_CardinalityType
<1>1. 0 \in Good
  BY <1>0, FS_EmptySet
<1>2. ASSUME NEW x \in Nat, x \in Good PROVE x + 1 \in Good
  <2> SUFFICES ASSUME NEW E \in SUBSET D, Cardinality(E) = x + 1 PROVE E \in T
    BY <1>2
  <2>1. E # {}
    BY <1>0, FS_EmptySet
  <2>2. Pick(E) \in E
    BY <2>1 DEF Pick
  <2>3. Cardinality(E \ {Pick(E)}) = x
    <3>1. IsFiniteSet(E)
      BY <1>0
    <3>2. Cardinality(E \ {Pick(E)}) = Cardinality(E) - 1
      BY <2>2, <3>1, FS_RemoveElement
    <3> QED
      BY <3>2
  <2>4. E \ {Pick(E)} \in SUBSET D
    OBVIOUS
  <2> QED
    BY <1>2, <2>1, <2>3, <2>4
<1>3. Nat \subseteq Good
  <2> HIDE DEF Good
  <2> QED
    BY <1>1, <1>2, AllNumbers
<1> QED
  BY <1>0, <1>3

\* What the sum of the values of f over the subsets of D is.
Adds(g, f, D) ==
    g = [E \in SUBSET D |-> IF E = {} THEN 0 ELSE f[CHOOSE x \in E : TRUE] + g[E \ {CHOOSE x \in E : TRUE}]]

SumOn(f, D) == (CHOOSE g : Adds(g, f, D))[D]

\* Sums as the module writes them.
LEMMA SumDef ==
  ASSUME NEW f, NEW D
  PROVE  Rendezvous!MapThenSumSet(LAMBDA x : f[x], D) = SumOn(f, D)
BY DEF SumOn, Rendezvous!MapThenSumSet, Rendezvous!MapThenFoldSet, Adds

AddsAt(g, f, E) == g[E] = IF E = {} THEN 0 ELSE f[Pick(E)] + g[E \ {Pick(E)}]

\* There is such a sum.
LEMMA SumExists ==
  ASSUME NEW f, NEW D, IsFiniteSet(D)
  PROVE  \E g : Adds(g, f, D)
<1> DEFINE Good == {x \in Nat : \E g : \A E \in SUBSET D : Cardinality(E) <= x => AddsAt(g, f, E)}
<1>0. \A E \in SUBSET D : IsFiniteSet(E) /\ Cardinality(E) \in Nat
  BY FS_Subset, FS_CardinalityType
<1>1. 0 \in Good
  <2> DEFINE g == [E \in SUBSET D |-> 0]
  <2>1. \A E \in SUBSET D : Cardinality(E) <= 0 => E = {}
    BY <1>0, FS_EmptySet
  <2>2. \A E \in SUBSET D : Cardinality(E) <= 0 => AddsAt(g, f, E)
    BY <2>1 DEF AddsAt
  <2> HIDE DEF g
  <2> QED
    BY <2>2
<1>2. ASSUME NEW x \in Nat, x \in Good PROVE x + 1 \in Good
  <2>1. PICK g : \A E \in SUBSET D : Cardinality(E) <= x => AddsAt(g, f, E)
    BY <1>2
  <2> DEFINE h == [E \in SUBSET D |-> IF Cardinality(E) <= x THEN g[E] ELSE f[Pick(E)] + g[E \ {Pick(E)}]]
  <2>2. ASSUME NEW E \in SUBSET D, Cardinality(E) <= x + 1 PROVE AddsAt(h, f, E)
    <3>1. E # {} => /\ E \ {Pick(E)} \in SUBSET D
                    /\ Cardinality(E \ {Pick(E)}) = Cardinality(E) - 1
      BY <1>0, FS_RemoveElement DEF Pick
    <3>2. Cardinality({}) = 0
      BY FS_EmptySet
    <3>3. E # {} => h[E \ {Pick(E)}] = g[E \ {Pick(E)}]
      <4>1. E # {} => Cardinality(E \ {Pick(E)}) <= x
        BY <1>0, <2>2, <3>1
      <4> QED
        BY <3>1, <4>1
    <3>4. h[E] = IF Cardinality(E) <= x THEN g[E] ELSE f[Pick(E)] + g[E \ {Pick(E)}]
      OBVIOUS
    <3> HIDE DEF h
    <3>5. CASE Cardinality(E) <= x
      BY <2>1, <3>3, <3>4, <3>5 DEF AddsAt
    <3>6. CASE ~(Cardinality(E) <= x)
      <4>1. E # {}
        BY <3>2, <3>6
      <4> QED
        BY <3>3, <3>4, <3>6, <4>1 DEF AddsAt
    <3> QED
      BY <3>5, <3>6
  <2> HIDE DEF h
  <2> QED
    BY <2>2
<1>3. Cardinality(D) \in Good
  <2> HIDE DEF Good
  <2> QED
    BY <1>0, <1>1, <1>2, AllNumbers
<1>4. PICK g : \A E \in SUBSET D : AddsAt(g, f, E)
  <2>1. PICK g : \A E \in SUBSET D : Cardinality(E) <= Cardinality(D) => AddsAt(g, f, E)
    BY <1>3
  <2>2. \A E \in SUBSET D : Cardinality(E) <= Cardinality(D)
    BY FS_Subset
  <2> QED
    BY <2>1, <2>2
<1> DEFINE h == [E \in SUBSET D |-> g[E]]
<1>5. \A E \in SUBSET D : h[E] = IF E = {} THEN 0 ELSE f[CHOOSE x \in E : TRUE] + h[E \ {CHOOSE x \in E : TRUE}]
  BY <1>4 DEF AddsAt, Pick
<1>6. Adds(h, f, D)
  BY <1>5 DEF Adds
<1> QED
  BY <1>6

\* The sum over no set is 0, and over another one the value of one member more than the sum
\* over the others.
LEMMA SumSteps ==
  ASSUME NEW f, NEW D, IsFiniteSet(D)
  PROVE  \E g : SumOn(f, D) = g[D] /\ \A E \in SUBSET D : AddsAt(g, f, E)
<1> DEFINE g == CHOOSE g : Adds(g, f, D)
<1>1. Adds(g, f, D)
  BY SumExists
<1>2. SumOn(f, D) = g[D]
  BY DEF SumOn
<1> HIDE DEF g
<1>3. \A E \in SUBSET D : AddsAt(g, f, E)
  BY <1>1 DEF Adds, AddsAt, Pick
<1> QED
  BY <1>2, <1>3

\* Sums of numbers are numbers.
LEMMA SumType ==
  ASSUME NEW D, IsFiniteSet(D), NEW f, \A x \in D : f[x] \in Nat
  PROVE  SumOn(f, D) \in Nat
<1>1. PICK g : SumOn(f, D) = g[D] /\ \A E \in SUBSET D : AddsAt(g, f, E)
  BY SumSteps
<1> DEFINE T == {E \in SUBSET D : g[E] \in Nat}
<1>2. {} \in T
  <2>1. g[{}] = 0
    BY <1>1 DEF AddsAt
  <2> QED
    BY <2>1
<1>3. ASSUME NEW E \in SUBSET D, E # {}, E \ {Pick(E)} \in T PROVE E \in T
  <2>1. f[Pick(E)] \in Nat
    BY <1>3 DEF Pick
  <2> QED
    <3>1. g[E] = f[Pick(E)] + g[E \ {Pick(E)}]
      BY <1>1, <1>3 DEF AddsAt
    <3> QED
      BY <1>3, <2>1, <3>1
<1>4. SUBSET D \subseteq T
  <2> HIDE DEF T
  <2> QED
    BY <1>2, <1>3, AllSubsets
<1> QED
  BY <1>1, <1>4

\* A sum changes with one of its values as much as that does.
LEMMA SumChange ==
  ASSUME NEW D, IsFiniteSet(D), NEW f, NEW h, \A x \in D : f[x] \in Nat /\ h[x] \in Nat,
         NEW y \in D, \A x \in D : x # y => h[x] = f[x]
  PROVE  SumOn(h, D) + f[y] = SumOn(f, D) + h[y]
<1>1. PICK g : SumOn(f, D) = g[D] /\ \A E \in SUBSET D : AddsAt(g, f, E)
  BY SumSteps
<1>2. PICK k : SumOn(h, D) = k[D] /\ \A E \in SUBSET D : AddsAt(k, h, E)
  BY SumSteps
<1> DEFINE T == {E \in SUBSET D : /\ g[E] \in Nat /\ k[E] \in Nat
                                  /\ IF y \in E THEN k[E] + f[y] = g[E] + h[y] ELSE k[E] = g[E]}
<1>3. {} \in T
  <2>1. g[{}] = 0 /\ k[{}] = 0
    BY <1>1, <1>2 DEF AddsAt
  <2> QED
    BY <2>1
<1>4. ASSUME NEW E \in SUBSET D, E # {}, E \ {Pick(E)} \in T PROVE E \in T
  <2>1. Pick(E) \in E /\ f[Pick(E)] \in Nat /\ h[Pick(E)] \in Nat /\ f[y] \in Nat /\ h[y] \in Nat
    BY <1>4 DEF Pick
  <2>2. g[E] = f[Pick(E)] + g[E \ {Pick(E)}] /\ k[E] = h[Pick(E)] + k[E \ {Pick(E)}]
    BY <1>1, <1>2, <1>4 DEF AddsAt
  <2>3. g[E \ {Pick(E)}] \in Nat /\ k[E \ {Pick(E)}] \in Nat
    BY <1>4
  <2>4. CASE y = Pick(E)
    BY <1>4, <2>1, <2>2, <2>3, <2>4
  <2>5. CASE y # Pick(E)
    <3>1. h[Pick(E)] = f[Pick(E)]
      BY <2>1, <2>5
    <3> QED
      BY <1>4, <2>1, <2>2, <2>3, <2>5, <3>1
  <2> QED
    BY <2>4, <2>5
<1>5. SUBSET D \subseteq T
  <2> HIDE DEF T
  <2> QED
    BY <1>3, <1>4, AllSubsets
<1> QED
  BY <1>1, <1>2, <1>5

\* Sums of zeroes.
LEMMA SumZero ==
  ASSUME NEW D, IsFiniteSet(D), NEW f, \A x \in D : f[x] = 0
  PROVE  SumOn(f, D) = 0
<1>1. PICK g : SumOn(f, D) = g[D] /\ \A E \in SUBSET D : AddsAt(g, f, E)
  BY SumSteps
<1> DEFINE T == {E \in SUBSET D : g[E] = 0}
<1>2. {} \in T
  <2>1. g[{}] = 0
    BY <1>1 DEF AddsAt
  <2> QED
    BY <2>1
<1>3. ASSUME NEW E \in SUBSET D, E # {}, E \ {Pick(E)} \in T PROVE E \in T
  <2>1. f[Pick(E)] = 0
    BY <1>3 DEF Pick
  <2> QED
    <3>1. g[E] = f[Pick(E)] + g[E \ {Pick(E)}]
      BY <1>1, <1>3 DEF AddsAt
    <3> QED
      BY <1>3, <2>1, <3>1
<1>4. SUBSET D \subseteq T
  <2> HIDE DEF T
  <2> QED
    BY <1>2, <1>3, AllSubsets
<1> QED
  BY <1>1, <1>4

-----------------------------------------------------------------------------
(* The rendezvous of pthread.c                                             *)

\* The workers whose places, or whose values, f has in the set P.
Within(f, P) == {w \in Rendezvous!Workers : f[w] \in P}

\* How the number of those changes with one worker.
LEMMA WithinChange ==
  ASSUME WORKERS \in Nat, NEW P, NEW f, NEW h, NEW w \in Rendezvous!Workers,
         \A v \in Rendezvous!Workers : v # w => (h[v] \in P <=> f[v] \in P)
  PROVE  /\ Cardinality(Within(f, P)) \in Nat
         /\ (h[w] \in P <=> f[w] \in P) => Cardinality(Within(h, P)) = Cardinality(Within(f, P))
         /\ h[w] \in P /\ f[w] \notin P =>
               Cardinality(Within(h, P)) = Cardinality(Within(f, P)) + 1
         /\ h[w] \notin P /\ f[w] \in P =>
               Cardinality(Within(h, P)) + 1 = Cardinality(Within(f, P))
<1>1. IsFiniteSet(Rendezvous!Workers)
  BY FS_Interval DEF Rendezvous!Workers
<1>2. /\ Within(f, P) \subseteq Rendezvous!Workers /\ Within(h, P) \subseteq Rendezvous!Workers
  BY DEF Within
<1>3. /\ IsFiniteSet(Within(f, P)) /\ Cardinality(Within(f, P)) \in Nat
      /\ IsFiniteSet(Within(h, P)) /\ Cardinality(Within(h, P)) \in Nat
  BY <1>1, <1>2, FS_Subset, FS_CardinalityType
<1>4. CASE h[w] \in P <=> f[w] \in P
  <2>1. Within(h, P) = Within(f, P)
    BY <1>4 DEF Within
  <2> QED
    BY <1>3, <1>4, <2>1
<1>5. CASE h[w] \in P /\ f[w] \notin P
  <2>1. Within(h, P) = Within(f, P) \cup {w} /\ w \notin Within(f, P)
    BY <1>5 DEF Within
  <2>2. Cardinality(Within(h, P)) = Cardinality(Within(f, P)) + 1
    BY <1>3, <2>1, FS_AddElement
  <2> QED
    BY <1>3, <1>5, <2>2
<1>6. CASE h[w] \notin P /\ f[w] \in P
  <2>1. Within(f, P) = Within(h, P) \cup {w} /\ w \notin Within(h, P)
    BY <1>6 DEF Within
  <2>2. Cardinality(Within(f, P)) = Cardinality(Within(h, P)) + 1
    BY <1>3, <2>1, FS_AddElement
  <2> QED
    BY <1>3, <1>6, <2>2
<1> QED
  BY <1>4, <1>5, <1>6

InCS == {"read", "write", "count", "unlock"}
InLoop == {"work", "read", "write", "count", "unlock"}
OutOfLoop == {"wait", "woken", "leave", "over"}

\* Who holds which mutex.
RvLocks ==
    /\ \A w \in Rendezvous!Workers : rv_at[w] \in InCS <=> csmutex = w
    /\ \A w \in Rendezvous!Workers : rv_at[w] \in {"test", "leave"} => donemutex = w
    /\ master = "set" => donemutex = 0

\* The master creates the workers in order; one that goes round has a turn left, and one
\* that is about to write has read the entry as it is.
RvTurns ==
    /\ master = "create" => \A w \in Rendezvous!Workers : w >= next => rv_at[w] = "unborn"
    /\ \A w \in Rendezvous!Workers :
          /\ rv_at[w] \in InLoop \/ (rv_at[w] = "test" /\ ~mdone) => rv_count[w] < MAX_TURNS
          /\ rv_at[w] = "write" => rv_s[w] = rv_A[rv_i[w]]

\* wdone counts the workers that do not go round any more, and who has been woken by the
\* last of them or goes knows that there are N.
RvGone ==
    /\ wdone = Cardinality(Within(rv_at, OutOfLoop))
    /\ \A w \in Rendezvous!Workers \ rv_spurious :
          rv_at[w] \in {"woken", "leave", "over"} => wdone = WORKERS

\* The workers' counts, C and A differ by the worker between its writes.
RvSums ==
    /\ SumOn(rv_C, Rendezvous!Indices) =
          SumOn(rv_count, Rendezvous!Workers) + Cardinality(Within(rv_at, {"unlock"}))
    /\ SumOn(rv_A, Rendezvous!Indices) =
          SumOn(rv_count, Rendezvous!Workers) + Cardinality(Within(rv_at, {"count", "unlock"}))

RvInv == Rendezvous!TypeOK /\ RvLocks /\ RvTurns /\ RvGone /\ RvSums

\* The invariant holds at the start.
LEMMA RvStart ==
  ASSUME Rendezvous!RendezvousAssumption, Rendezvous!Init
  PROVE  RvInv
<1> USE DEF Rendezvous!RendezvousAssumption, Rendezvous!Init, Rendezvous!Workers,
           Rendezvous!Indices
<1>1. Rendezvous!TypeOK
  <2>1. WORKERS \in Nat /\ 1 \in 1 .. WORKERS /\ WORKERS + 1 \in 0 .. WORKERS + 1
        /\ 0 \in 0 .. WORKERS /\ 0 \in 0 .. ENTRIES - 1 /\ 0 \in 0 .. MAX_TURNS
    OBVIOUS
  <2>2. master = "create" /\ next = 1 /\ donemutex = WORKERS + 1 /\ csmutex = WORKERS + 1
        /\ mdone = FALSE /\ wdone = 0 /\ rv_spurious = {}
    BY DEF Rendezvous!Free
  <2>3. /\ rv_at \in [1 .. WORKERS -> {"unborn"}] /\ rv_A \in [0 .. ENTRIES - 1 -> {0}]
        /\ rv_C \in [0 .. ENTRIES - 1 -> {0}] /\ rv_i \in [1 .. WORKERS -> {0}]
        /\ rv_s \in [1 .. WORKERS -> {0}] /\ rv_count \in [1 .. WORKERS -> {0}]
    OBVIOUS
  <2> HIDE DEF Rendezvous!Init
  <2> QED
    <3>1. /\ rv_at \in [1 .. WORKERS -> {"unborn", "check", "test", "wait", "woken", "leave",
                            "over", "work", "read", "write", "count", "unlock"}]
          /\ rv_A \in [0 .. ENTRIES - 1 -> Nat] /\ rv_C \in [0 .. ENTRIES - 1 -> Nat]
          /\ rv_i \in [1 .. WORKERS -> 0 .. ENTRIES - 1] /\ rv_s \in [1 .. WORKERS -> Nat]
      BY <2>1, <2>3
    <3>2. rv_count \in [1 .. WORKERS -> 0 .. MAX_TURNS]
      BY <2>1, <2>3
    <3> QED
      BY <2>1, <2>2, <3>1, <3>2 DEF Rendezvous!TypeOK
<1>2. RvLocks /\ RvTurns
  BY DEF RvLocks, RvTurns, InCS, InLoop, Rendezvous!Free
<1>3. \A P : "unborn" \notin P => Cardinality(Within(rv_at, P)) = 0
  <2> SUFFICES ASSUME NEW P, "unborn" \notin P PROVE Within(rv_at, P) = {}
    BY FS_EmptySet
  <2> QED
    BY DEF Within
<1>4. RvGone
  <2>1. Cardinality(Within(rv_at, OutOfLoop)) = 0
    BY <1>3 DEF OutOfLoop
  <2> QED
    BY <2>1 DEF RvGone
<1>5. RvSums
  <2>1. IsFiniteSet(Rendezvous!Workers) /\ IsFiniteSet(Rendezvous!Indices)
    BY FS_Interval
  <2>2. /\ \A x \in Rendezvous!Workers : rv_count[x] = 0
        /\ \A x \in Rendezvous!Indices : rv_A[x] = 0 /\ rv_C[x] = 0
    OBVIOUS
  <2>3. /\ SumOn(rv_C, Rendezvous!Indices) = 0 /\ SumOn(rv_A, Rendezvous!Indices) = 0
        /\ SumOn(rv_count, Rendezvous!Workers) = 0
    <3> HIDE DEF Rendezvous!Init, Rendezvous!Workers, Rendezvous!Indices
    <3> QED
      BY <2>1, <2>2, SumZero
  <2>4. /\ Cardinality(Within(rv_at, {"unlock"})) = 0
        /\ Cardinality(Within(rv_at, {"count", "unlock"})) = 0
    BY <1>3
  <2> HIDE DEF Rendezvous!Init, Rendezvous!Workers, Rendezvous!Indices
  <2> QED
    BY <2>3, <2>4 DEF RvSums
<1> QED
  BY <1>1, <1>2, <1>4, <1>5 DEF RvInv

\* A step in which nobody comes to the two last places of the critical section or leaves
\* them, and the arrays and the counts stay.
LEMMA SumsStay ==
  ASSUME WORKERS \in Nat, RvSums, UNCHANGED <<rv_A, rv_C, rv_count>>,
         \A v \in Rendezvous!Workers : rv_at'[v] = rv_at[v]
            \/ /\ rv_at[v] \notin {"count", "unlock"} /\ rv_at'[v] \notin {"count", "unlock"}
  PROVE  RvSums'
<1>1. /\ Within(rv_at', {"unlock"}) = Within(rv_at, {"unlock"})
      /\ Within(rv_at', {"count", "unlock"}) = Within(rv_at, {"count", "unlock"})
  BY DEF Within
<1> QED
  BY <1>1 DEF RvSums, Within, Rendezvous!Workers, Rendezvous!Indices

\* A step in which nobody comes to the places after the loop.
LEMMA GoneStay ==
  ASSUME WORKERS \in Nat, RvGone, UNCHANGED wdone, rv_spurious \subseteq rv_spurious',
         \A v \in Rendezvous!Workers :
            /\ rv_at[v] \in OutOfLoop <=> rv_at'[v] \in OutOfLoop
            /\ v \notin rv_spurious' /\ rv_at'[v] \in {"woken", "leave", "over"} =>
                  rv_at[v] \in {"woken", "leave", "over"}
  PROVE  RvGone'
<1>1. Within(rv_at', OutOfLoop) = Within(rv_at, OutOfLoop)
  BY DEF Within
<1>2. \A v \in Rendezvous!Workers \ rv_spurious' :
          rv_at'[v] \in {"woken", "leave", "over"} => wdone = WORKERS
  BY DEF RvGone
<1> QED
  BY <1>1, <1>2 DEF RvGone, Within, Rendezvous!Workers, OutOfLoop

\* What each step of the rendezvous leaves alone.
LEMMA RvStep ==
  ASSUME Rendezvous!RendezvousAssumption, RvInv, [Rendezvous!Next]_(Rendezvous!vars)
  PROVE  RvInv'
<1> DEFINE Places == {"unborn", "check", "test", "wait", "woken", "leave", "over",
                      "work", "read", "write", "count", "unlock"}
           Owner == 0 .. WORKERS + 1
           Free == WORKERS + 1
<1>I. Rendezvous!TypeOK /\ RvLocks /\ RvTurns /\ RvGone /\ RvSums
  BY DEF RvInv
<1>0. /\ WORKERS \in Nat \ {0} /\ ENTRIES \in Nat \ {0} /\ MAX_TURNS \in Nat
      /\ next \in Nat /\ wdone \in Nat
  BY <1>I DEF Rendezvous!RendezvousAssumption, Rendezvous!TypeOK, Rendezvous!Workers
<1>N. /\ \A w \in Rendezvous!Workers : w \in Owner /\ w \in Nat /\ w # 0 /\ w # Free /\ w <= WORKERS
      /\ 0 \in Owner /\ Free \in Owner /\ Free # 0
  BY <1>0 DEF Rendezvous!Workers
<1>T. /\ rv_at \in [Rendezvous!Workers -> Places] /\ donemutex \in Owner /\ csmutex \in Owner
      /\ master \in {"create", "sleep", "set", "join", "over", "failed"}
      /\ next \in Rendezvous!Workers
      /\ mdone \in BOOLEAN /\ wdone \in 0 .. WORKERS
      /\ rv_A \in [Rendezvous!Indices -> Nat] /\ rv_C \in [Rendezvous!Indices -> Nat]
      /\ rv_i \in [Rendezvous!Workers -> Rendezvous!Indices]
      /\ rv_s \in [Rendezvous!Workers -> Nat]
      /\ rv_count \in [Rendezvous!Workers -> 0 .. MAX_TURNS]
      /\ rv_spurious \subseteq Rendezvous!Workers
  BY <1>I DEF Rendezvous!TypeOK
<1>A. rv_at \in [Rendezvous!Workers -> Places]
  BY <1>T
<1>E. ASSUME NEW w \in Rendezvous!Workers, NEW x, rv_at' = [rv_at EXCEPT ![w] = x]
      PROVE  \A v \in Rendezvous!Workers : rv_at'[v] = IF v = w THEN x ELSE rv_at[v]
  BY <1>A, <1>E
<1>F. IsFiniteSet(Rendezvous!Workers) /\ IsFiniteSet(Rendezvous!Indices)
  BY <1>0, FS_Interval DEF Rendezvous!Workers, Rendezvous!Indices
<1>M. Rendezvous!Free = Free /\ Rendezvous!Master = 0
  BY DEF Rendezvous!Free, Rendezvous!Master
<1>P. \A x : x \in Places <=> x \in {"unborn", "check", "test", "wait", "woken", "leave", "over",
                                     "work", "read", "write", "count", "unlock"}
  OBVIOUS
<1>X. ASSUME rv_at' \in [Rendezvous!Workers -> Places], donemutex' \in Owner, csmutex' \in Owner,
             master' \in {"create", "sleep", "set", "join", "over", "failed"},
             next' \in Rendezvous!Workers, mdone' \in BOOLEAN, wdone' \in 0 .. WORKERS,
             rv_A' \in [Rendezvous!Indices -> Nat], rv_C' \in [Rendezvous!Indices -> Nat],
             rv_i' \in [Rendezvous!Workers -> Rendezvous!Indices],
             rv_s' \in [Rendezvous!Workers -> Nat],
             rv_count' \in [Rendezvous!Workers -> 0 .. MAX_TURNS],
             rv_spurious' \subseteq Rendezvous!Workers
      PROVE  Rendezvous!TypeOK'
  BY <1>X DEF Rendezvous!TypeOK, Rendezvous!Workers, Rendezvous!Indices
<1>J. ASSUME Rendezvous!TypeOK', RvLocks', RvTurns', RvGone', RvSums' PROVE RvInv'
  BY <1>J DEF RvInv
<1> HIDE DEF Owner, Places, Free
<1>1. CASE UNCHANGED Rendezvous!vars
  BY <1>1 DEF Rendezvous!vars, Rendezvous!arrays, Rendezvous!locals, Rendezvous!done, RvInv,
              Rendezvous!TypeOK, RvLocks, RvTurns, RvGone, RvSums, Within, Rendezvous!Workers,
              Rendezvous!Indices
<1>2. CASE Rendezvous!CreateWorker
  <2>1. /\ master = "create"
        /\ UNCHANGED <<csmutex, rv_A, rv_C, rv_i, rv_s, rv_count, donemutex, mdone, wdone,
                       rv_spurious>>
        /\ \/ /\ master' = (IF next = WORKERS THEN "sleep" ELSE "create")
              /\ rv_at' = [rv_at EXCEPT ![next] = "check"]
              /\ next' = IF next = WORKERS THEN 1 ELSE next + 1
           \/ master' = "failed" /\ UNCHANGED <<rv_at, next>>
    BY <1>2 DEF Rendezvous!CreateWorker, Rendezvous!Goto, Rendezvous!arrays, Rendezvous!locals,
                Rendezvous!done
  <2>2. next \in Rendezvous!Workers /\ rv_at[next] = "unborn"
    BY <1>I, <1>0, <1>T, <2>1 DEF RvTurns
  <2>3. \A v \in Rendezvous!Workers : rv_at'[v] = rv_at[v] \/ (rv_at[v] = "unborn" /\ rv_at'[v] = "check")
    BY <1>E, <2>1, <2>2
  <2>4. Rendezvous!TypeOK'
    <3>1. 1 \in Rendezvous!Workers /\ (next # WORKERS => next + 1 \in Rendezvous!Workers)
      BY <1>0, <1>T DEF Rendezvous!Workers
    <3>2. next' \in Rendezvous!Workers
      BY <2>1, <2>2, <3>1
    <3>3. rv_at' \in [Rendezvous!Workers -> Places]
      BY <1>A, <1>P, <2>1
    <3>4. master' \in {"create", "sleep", "set", "join", "over", "failed"}
      BY <2>1
    <3> QED
      BY <1>T, <1>X, <2>1, <3>2, <3>3, <3>4
  <2>5. RvLocks'
    BY <1>I, <2>1, <2>3 DEF RvLocks, InCS
  <2>6. RvTurns'
    <3>1. master' = "create" => next' = next + 1 /\ rv_at' = [rv_at EXCEPT ![next] = "check"]
      BY <2>1
    <3>2. master' = "create" => \A v \in Rendezvous!Workers : v >= next' => rv_at'[v] = "unborn"
      BY <1>I, <1>0, <1>T, <2>1, <2>2, <3>1 DEF RvTurns
    <3> QED
      BY <1>I, <2>1, <2>3, <3>2 DEF RvTurns, InLoop
  <2>7. RvGone'
    BY <1>I, <1>0, <2>1, <2>3, GoneStay DEF OutOfLoop
  <2>8. RvSums'
    BY <1>I, <1>0, <2>1, <2>3, SumsStay
  <2> QED
    BY <2>4, <2>5, <2>6, <2>7, <2>8, <1>J
<1>3. CASE Rendezvous!MasterLocks \/ Rendezvous!SetDone \/ Rendezvous!JoinWorker
  <2>1. /\ UNCHANGED <<csmutex, rv_A, rv_C, rv_i, rv_s, rv_count, wdone, rv_spurious, rv_at>>
        /\ \/ /\ master = "sleep" /\ master' = "set" /\ donemutex = Free /\ donemutex' = 0
              /\ UNCHANGED <<next, mdone>>
           \/ /\ master = "set" /\ master' = "join" /\ mdone' = TRUE /\ donemutex' = Free
              /\ UNCHANGED next
           \/ /\ master = "join" /\ master' \in {"join", "over"}
              /\ next' = (IF next = WORKERS THEN next ELSE next + 1)
              /\ UNCHANGED <<donemutex, mdone>>
    BY <1>3, <1>M DEF Rendezvous!MasterLocks, Rendezvous!SetDone, Rendezvous!JoinWorker,
                Rendezvous!Goto, Rendezvous!arrays, Rendezvous!locals, Rendezvous!done
  <2>4. Rendezvous!TypeOK'
    <3>1. /\ donemutex' \in Owner /\ mdone' \in BOOLEAN
          /\ master' \in {"create", "sleep", "set", "join", "over", "failed"}
      BY <1>T, <1>N, <2>1
    <3>2. next' \in Rendezvous!Workers
      <4>1. next \in Rendezvous!Workers /\ (next # WORKERS => next + 1 \in Rendezvous!Workers)
        BY <1>0, <1>T DEF Rendezvous!Workers
      <4> QED
        BY <2>1, <4>1
    <3> QED
      BY <2>1, <3>1, <3>2, <1>T, <1>X
  <2>5. RvLocks'
    BY <1>I, <1>N, <2>1 DEF RvLocks
  <2>6. RvTurns'
    BY <1>I, <2>1 DEF RvTurns
  <2>7. RvGone'
    BY <1>I, <1>0, <2>1, GoneStay
  <2>8. RvSums'
    BY <1>I, <1>0, <2>1, SumsStay
  <2> QED
    BY <2>4, <2>5, <2>6, <2>7, <2>8, <1>J
<1>4. ASSUME NEW w \in Rendezvous!Workers,
             \/ Rendezvous!LockDone(w) \/ Rendezvous!GoOn(w) \/ Rendezvous!Leave(w)
             \/ Rendezvous!WakesUp(w)
      PROVE  RvInv'
  <2>1. /\ UNCHANGED <<csmutex, rv_A, rv_C, rv_i, rv_s, rv_count, mdone, wdone, master, next>>
        /\ \/ /\ donemutex = Free /\ donemutex' = w /\ rv_at[w] = "check"
              /\ mdone \/ rv_count[w] < MAX_TURNS
              /\ rv_at' = [rv_at EXCEPT ![w] = "test"] /\ UNCHANGED rv_spurious
           \/ /\ donemutex = Free /\ donemutex' = w /\ rv_at[w] = "woken"
              /\ rv_at' = [rv_at EXCEPT ![w] = "leave"] /\ UNCHANGED rv_spurious
           \/ /\ ~mdone /\ donemutex' = Free /\ rv_at[w] = "test"
              /\ rv_at' = [rv_at EXCEPT ![w] = "work"] /\ UNCHANGED rv_spurious
           \/ /\ donemutex' = Free /\ rv_at[w] = "leave"
              /\ rv_at' = [rv_at EXCEPT ![w] = "over"] /\ UNCHANGED rv_spurious
           \/ /\ UNCHANGED donemutex /\ rv_at[w] = "wait"
              /\ rv_at' = [rv_at EXCEPT ![w] = "woken"] /\ rv_spurious' = rv_spurious \cup {w}
    BY <1>4, <1>M DEF Rendezvous!LockDone, Rendezvous!GoOn, Rendezvous!Leave, Rendezvous!WakesUp,
                Rendezvous!Move, Rendezvous!arrays, Rendezvous!locals
  <2>2. \A v \in Rendezvous!Workers :
            /\ v # w => rv_at'[v] = rv_at[v]
            /\ \/ rv_at'[v] = rv_at[v] \/ (rv_at[v] = "check" /\ rv_at'[v] = "test")
               \/ (rv_at[v] = "woken" /\ rv_at'[v] = "leave")
               \/ (rv_at[v] = "test" /\ rv_at'[v] = "work")
               \/ (rv_at[v] = "leave" /\ rv_at'[v] = "over")
               \/ (rv_at[v] = "wait" /\ rv_at'[v] = "woken" /\ v \in rv_spurious')
    <3> SUFFICES ASSUME NEW v \in Rendezvous!Workers
                 PROVE  /\ v # w => rv_at'[v] = rv_at[v]
                        /\ \/ rv_at'[v] = rv_at[v] \/ (rv_at[v] = "check" /\ rv_at'[v] = "test")
                           \/ (rv_at[v] = "woken" /\ rv_at'[v] = "leave")
                           \/ (rv_at[v] = "test" /\ rv_at'[v] = "work")
                           \/ (rv_at[v] = "leave" /\ rv_at'[v] = "over")
                           \/ (rv_at[v] = "wait" /\ rv_at'[v] = "woken" /\ v \in rv_spurious')
      OBVIOUS
    <3>1. \E x : rv_at' = [rv_at EXCEPT ![w] = x]
      BY <2>1
    <3>2. v # w => rv_at'[v] = rv_at[v]
      BY <1>E, <3>1
    <3>3. CASE v = w
      BY <1>E, <2>1, <3>3
    <3> QED
      BY <3>2, <3>3
  <2>4. Rendezvous!TypeOK'
    <3>1. donemutex' \in Owner /\ rv_spurious' \subseteq Rendezvous!Workers
      BY <1>T, <1>N, <2>1
    <3>2. rv_at' \in [Rendezvous!Workers -> Places]
      BY <1>A, <1>P, <2>1
    <3> QED
      BY <2>1, <3>1, <3>2, <1>T, <1>X
  <2>5. RvLocks'
    <3>1. \A v \in Rendezvous!Workers : rv_at'[v] \in {"test", "leave"} => donemutex' = v
      BY <1>I, <1>N, <1>A, <2>1 DEF RvLocks
    <3>2. \A v \in Rendezvous!Workers : rv_at'[v] \in InCS <=> csmutex' = v
      BY <1>I, <2>1, <2>2 DEF RvLocks, InCS
    <3>3. master' = "set" => donemutex' = 0
      BY <1>I, <1>N, <2>1 DEF RvLocks
    <3> QED
      BY <1>I, <3>1, <3>2, <3>3 DEF RvLocks
  <2>6. RvTurns'
    <3>1. master' = "create" => \A v \in Rendezvous!Workers : v >= next' => rv_at'[v] = "unborn"
      BY <1>I, <2>1, <2>2 DEF RvTurns
    <3>2. \A v \in Rendezvous!Workers :
             rv_at'[v] \in InLoop \/ (rv_at'[v] = "test" /\ ~mdone') => rv_count'[v] < MAX_TURNS
      BY <1>I, <1>T, <2>1 DEF RvTurns, InLoop
    <3>3. \A v \in Rendezvous!Workers : rv_at'[v] = "write" => rv_at[v] = "write"
      BY <2>2
    <3> QED
      BY <1>I, <2>1, <3>1, <3>2, <3>3 DEF RvTurns
  <2>7. RvGone'
    BY <1>I, <1>0, <2>1, <2>2, GoneStay DEF OutOfLoop
  <2>8. RvSums'
    BY <1>I, <1>0, <2>1, <2>2, SumsStay
  <2> QED
    BY <2>4, <2>5, <2>6, <2>7, <2>8, <1>J
<1>5. ASSUME NEW w \in Rendezvous!Workers, Rendezvous!CountIn(w)
      PROVE  RvInv'
  <2>1. /\ UNCHANGED <<csmutex, rv_A, rv_C, rv_i, rv_s, rv_count, mdone, rv_spurious, master, next>>
        /\ mdone /\ wdone' = wdone + 1 /\ rv_at[w] = "test"
        /\ \/ /\ wdone + 1 < WORKERS /\ donemutex' = Free
              /\ rv_at' = [rv_at EXCEPT ![w] = "wait"]
           \/ /\ ~(wdone + 1 < WORKERS) /\ UNCHANGED donemutex
              /\ rv_at' = [v \in Rendezvous!Workers |-> IF v = w THEN "leave"
                                 ELSE IF rv_at[v] = "wait" THEN "woken" ELSE rv_at[v]]
    BY <1>5, <1>M DEF Rendezvous!CountIn, Rendezvous!Move, Rendezvous!arrays, Rendezvous!locals
  <2>2. \A v \in Rendezvous!Workers :
            /\ v # w => rv_at'[v] = rv_at[v] \/ (rv_at[v] = "wait" /\ rv_at'[v] = "woken")
            /\ v = w => rv_at'[v] \in {"wait", "leave"}
    <3>1. CASE rv_at' = [rv_at EXCEPT ![w] = "wait"]
      <4>1. \A v \in Rendezvous!Workers : rv_at'[v] = IF v = w THEN "wait" ELSE rv_at[v]
        BY <1>E, <3>1
      <4> QED
        BY <4>1
    <3>2. CASE rv_at' = [v \in Rendezvous!Workers |-> IF v = w THEN "leave"
                                 ELSE IF rv_at[v] = "wait" THEN "woken" ELSE rv_at[v]]
      BY <3>2
    <3> QED
      BY <2>1, <3>1, <3>2
  <2>3. Cardinality(Within(rv_at', OutOfLoop)) = Cardinality(Within(rv_at, OutOfLoop)) + 1
    <3>1. /\ rv_at'[w] \in OutOfLoop /\ rv_at[w] \notin OutOfLoop
          /\ \A v \in Rendezvous!Workers : v # w => (rv_at'[v] \in OutOfLoop <=> rv_at[v] \in OutOfLoop)
      BY <2>1, <2>2 DEF OutOfLoop
    <3> QED
      BY <1>0, <3>1, WithinChange
  <2>A. wdone + 1 \in 0 .. WORKERS
    <3>1. Within(rv_at', OutOfLoop) \subseteq Rendezvous!Workers
      BY DEF Within
    <3>2. Cardinality(Rendezvous!Workers) = WORKERS
      BY <1>0, FS_Interval DEF Rendezvous!Workers
    <3>3. Cardinality(Within(rv_at', OutOfLoop)) <= WORKERS
      BY <1>F, <3>1, <3>2, FS_Subset
    <3> QED
      BY <1>I, <1>0, <2>3, <3>3 DEF RvGone
  <2>4. Rendezvous!TypeOK'
    <3>1. donemutex' \in Owner
      BY <1>T, <1>N, <2>1
    <3>2. rv_at' \in [Rendezvous!Workers -> Places]
      BY <1>A, <1>P, <2>1
    <3> QED
      BY <2>1, <2>A, <3>1, <3>2, <1>T, <1>X
  <2>5. RvLocks'
    <3>1. \A v \in Rendezvous!Workers : rv_at'[v] \in {"test", "leave"} => donemutex' = v
      BY <1>I, <1>N, <1>A, <2>1 DEF RvLocks
    <3>2. \A v \in Rendezvous!Workers : rv_at'[v] \in InCS <=> csmutex' = v
      BY <1>I, <2>1, <2>2 DEF RvLocks, InCS
    <3>3. master # "set"
      BY <1>I, <1>N, <2>1 DEF RvLocks
    <3> QED
      BY <1>I, <2>1, <3>1, <3>2, <3>3 DEF RvLocks
  <2>6. RvTurns'
    <3>1. \A v \in Rendezvous!Workers : rv_at'[v] \notin {"test", "unborn"} \cup InLoop \/ rv_at'[v] = rv_at[v]
      BY <2>2 DEF InLoop
    <3>2. \A v \in Rendezvous!Workers : rv_at[v] = "unborn" => rv_at'[v] = "unborn"
      BY <2>1, <2>2
    <3> QED
      BY <1>I, <2>1, <3>1, <3>2 DEF RvTurns, InLoop
  <2>7. RvGone'
    <3>1. \A v \in Rendezvous!Workers : rv_at[v] \in {"woken", "leave", "over"} => v \in rv_spurious
      BY <1>I, <1>0, <2>1, <2>A DEF RvGone
    <3>2. \A v \in Rendezvous!Workers \ rv_spurious :
             rv_at'[v] \in {"woken", "leave", "over"} => wdone + 1 = WORKERS
      <4>1. CASE wdone + 1 < WORKERS
        BY <1>A, <2>1, <3>1, <4>1
      <4>2. CASE ~(wdone + 1 < WORKERS)
        BY <1>0, <2>A, <4>2
      <4> QED
        BY <4>1, <4>2
    <3> QED
      BY <1>I, <2>1, <2>3, <3>2 DEF RvGone, Within, OutOfLoop
  <2>8. RvSums'
    BY <1>I, <1>0, <2>1, <2>2, SumsStay
  <2> QED
    BY <2>4, <2>5, <2>6, <2>7, <2>8, <1>J
\* The critical section: between its writes the one in it makes the sums differ.
<1>6. ASSUME NEW w \in Rendezvous!Workers, Rendezvous!EnterCS(w) \/ Rendezvous!ReadA(w)
      PROVE  RvInv'
  <2>1. /\ UNCHANGED <<rv_A, rv_C, rv_count, donemutex, mdone, wdone, rv_spurious, master, next>>
        /\ \/ /\ csmutex = Free /\ csmutex' = w /\ rv_at[w] = "work" /\ UNCHANGED rv_s
              /\ rv_at' = [rv_at EXCEPT ![w] = "read"]
              /\ \E k \in Rendezvous!Indices : rv_i' = [rv_i EXCEPT ![w] = k]
           \/ /\ UNCHANGED <<csmutex, rv_i>> /\ rv_at[w] = "read"
              /\ rv_at' = [rv_at EXCEPT ![w] = "write"]
              /\ rv_s' = [rv_s EXCEPT ![w] = rv_A[rv_i[w]]]
    BY <1>6, <1>M DEF Rendezvous!EnterCS, Rendezvous!ReadA, Rendezvous!Move, Rendezvous!arrays,
                Rendezvous!locals, Rendezvous!done
  <2>2. \A v \in Rendezvous!Workers :
            /\ v # w => rv_at'[v] = rv_at[v] /\ rv_i'[v] = rv_i[v] /\ rv_s'[v] = rv_s[v]
            /\ \/ rv_at'[v] = rv_at[v] \/ (rv_at[v] = "work" /\ rv_at'[v] = "read")
               \/ (rv_at[v] = "read" /\ rv_at'[v] = "write")
    <3>1. \E x : rv_at' = [rv_at EXCEPT ![w] = x]
      BY <2>1
    <3>2. \A v \in Rendezvous!Workers : v # w => rv_at'[v] = rv_at[v]
      BY <1>E, <3>1
    <3>3. rv_at'[w] = rv_at[w] \/ (rv_at[w] = "work" /\ rv_at'[w] = "read")
             \/ (rv_at[w] = "read" /\ rv_at'[w] = "write")
      BY <1>E, <2>1
    <3>4. /\ rv_i \in [Rendezvous!Workers -> Rendezvous!Indices]
          /\ rv_s \in [Rendezvous!Workers -> Nat]
      BY <1>T
    <3>5. /\ rv_i' = rv_i \/ \E x : rv_i' = [rv_i EXCEPT ![w] = x]
          /\ rv_s' = rv_s \/ \E x : rv_s' = [rv_s EXCEPT ![w] = x]
      BY <2>1
    <3>6. \A v \in Rendezvous!Workers : v # w => rv_i'[v] = rv_i[v] /\ rv_s'[v] = rv_s[v]
      BY <3>4, <3>5
    <3> QED
      BY <3>2, <3>3, <3>6
  <2>4. Rendezvous!TypeOK'
    <3>1. rv_at' \in [Rendezvous!Workers -> Places]
      BY <1>A, <1>P, <2>1
    <3>2. rv_i' \in [Rendezvous!Workers -> Rendezvous!Indices]
      <4>1. rv_i \in [Rendezvous!Workers -> Rendezvous!Indices]
        BY <1>T
      <4> QED
        BY <2>1, <4>1
    <3>3. rv_s' \in [Rendezvous!Workers -> Nat]
      <4>1. rv_s \in [Rendezvous!Workers -> Nat] /\ rv_A[rv_i[w]] \in Nat
        BY <1>T
      <4> QED
        BY <2>1, <4>1
    <3>4. csmutex' \in Owner
      BY <1>T, <1>N, <2>1
    <3> QED
      BY <2>1, <3>1, <3>2, <3>3, <3>4, <1>T, <1>X
  <2>5. RvLocks'
    <3>1. rv_at'[w] \in InCS /\ csmutex' = w
      BY <1>I, <1>E, <2>1 DEF RvLocks, InCS
    <3>2. \A v \in Rendezvous!Workers : v # w => rv_at'[v] \notin InCS
      BY <1>I, <1>N, <2>1, <2>2 DEF RvLocks, InCS
    <3>3. \A v \in Rendezvous!Workers : rv_at'[v] \in InCS <=> csmutex' = v
      BY <3>1, <3>2
    <3> QED
      BY <1>I, <2>1, <2>2, <3>3 DEF RvLocks
  <2>6. RvTurns'
    <3>1. \A v \in Rendezvous!Workers : rv_at'[v] \in InLoop => rv_at[v] \in InLoop
      BY <2>2 DEF InLoop
    <3>2. rv_at'[w] = "write" => rv_s'[w] = rv_A[rv_i'[w]]
      <4>1. rv_s \in [Rendezvous!Workers -> Nat]
        BY <1>T
      <4>2. CASE rv_at[w] = "work"
        <5>1. rv_at'[w] = "read"
          BY <1>E, <2>1, <4>2
        <5> QED
          BY <5>1
      <4>3. CASE rv_at[w] # "work"
        <5>1. rv_s' = [rv_s EXCEPT ![w] = rv_A[rv_i[w]]] /\ UNCHANGED rv_i
          BY <2>1, <4>3
        <5> QED
          BY <4>1, <5>1
      <4> QED
        BY <4>2, <4>3
    <3>3. \A v \in Rendezvous!Workers : rv_at'[v] \in {"test", "unborn"} => rv_at'[v] = rv_at[v]
      BY <2>2
    <3>4. \A v \in Rendezvous!Workers : rv_at[v] = "unborn" => rv_at'[v] = "unborn"
      BY <2>2
    <3>5. \A v \in Rendezvous!Workers : rv_at'[v] = "write" => rv_s'[v] = rv_A'[rv_i'[v]]
      BY <1>I, <2>1, <2>2, <3>2 DEF RvTurns
    <3> QED
      BY <1>I, <2>1, <3>1, <3>3, <3>4, <3>5 DEF RvTurns
  <2>7. RvGone'
    BY <1>I, <1>0, <2>1, <2>2, GoneStay DEF OutOfLoop
  <2>8. RvSums'
    BY <1>I, <1>0, <2>1, <2>2, SumsStay
  <2> QED
    BY <2>4, <2>5, <2>6, <2>7, <2>8, <1>J
<1>7. ASSUME NEW w \in Rendezvous!Workers,
             Rendezvous!WriteA(w) \/ Rendezvous!CountChange(w) \/ Rendezvous!LeaveCS(w)
      PROVE  RvInv'
  <2> DEFINE k == rv_i[w]
  <2>1. /\ UNCHANGED <<rv_i, rv_s, donemutex, mdone, wdone, rv_spurious, master, next>>
        /\ \/ /\ rv_at[w] = "write" /\ rv_at' = [rv_at EXCEPT ![w] = "count"]
              /\ rv_A' = [rv_A EXCEPT ![k] = rv_s[w] + 1]
              /\ UNCHANGED <<rv_C, rv_count, csmutex>>
           \/ /\ rv_at[w] = "count" /\ rv_at' = [rv_at EXCEPT ![w] = "unlock"]
              /\ rv_C' = [rv_C EXCEPT ![k] = rv_C[k] + 1]
              /\ UNCHANGED <<rv_A, rv_count, csmutex>>
           \/ /\ rv_at[w] = "unlock" /\ rv_at' = [rv_at EXCEPT ![w] = "check"]
              /\ rv_count' = [rv_count EXCEPT ![w] = rv_count[w] + 1]
              /\ csmutex' = Free /\ UNCHANGED <<rv_A, rv_C>>
    BY <1>7, <1>M DEF Rendezvous!WriteA, Rendezvous!CountChange, Rendezvous!LeaveCS,
                Rendezvous!Move, Rendezvous!arrays, Rendezvous!locals, Rendezvous!done
  <2>2. /\ \A v \in Rendezvous!Workers : v # w => rv_at'[v] = rv_at[v]
        /\ \/ rv_at[w] = "write" /\ rv_at'[w] = "count"
           \/ rv_at[w] = "count" /\ rv_at'[w] = "unlock"
           \/ rv_at[w] = "unlock" /\ rv_at'[w] = "check"
    <3>1. \E x : rv_at' = [rv_at EXCEPT ![w] = x]
      BY <2>1
    <3>2. \A v \in Rendezvous!Workers : v # w => rv_at'[v] = rv_at[v]
      BY <1>E, <3>1
    <3> QED
      BY <1>E, <2>1, <3>2
  <2>3. /\ k \in Rendezvous!Indices /\ rv_A[k] \in Nat /\ rv_C[k] \in Nat /\ rv_count[w] \in Nat
        /\ rv_count[w] < MAX_TURNS /\ rv_count[w] + 1 \in 0 .. MAX_TURNS
        /\ rv_at[w] = "write" => rv_s[w] = rv_A[k]
        /\ csmutex = w
    <3>1. /\ k \in Rendezvous!Indices /\ rv_A[k] \in Nat /\ rv_C[k] \in Nat
          /\ rv_count[w] \in 0 .. MAX_TURNS
      BY <1>T
    <3>2. rv_count[w] < MAX_TURNS /\ (rv_at[w] = "write" => rv_s[w] = rv_A[k])
      BY <1>I, <2>2 DEF RvTurns, InLoop
    <3>3. csmutex = w
      BY <1>I, <2>2 DEF RvLocks, InCS
    <3> QED
      BY <1>0, <3>1, <3>2, <3>3
  <2> HIDE DEF k
  <2>4. Rendezvous!TypeOK'
    <3>1. rv_at' \in [Rendezvous!Workers -> Places]
      BY <1>A, <1>P, <2>1
    <3>2. rv_A' \in [Rendezvous!Indices -> Nat]
      <4>1. rv_A \in [Rendezvous!Indices -> Nat] /\ (rv_at[w] = "write" => rv_s[w] + 1 \in Nat)
        BY <1>T, <2>3
      <4> QED
        BY <2>1, <4>1
    <3>3. rv_C' \in [Rendezvous!Indices -> Nat]
      <4>1. rv_C \in [Rendezvous!Indices -> Nat] /\ rv_C[k] + 1 \in Nat
        BY <1>T, <2>3
      <4> QED
        BY <2>1, <4>1
    <3>4. csmutex' \in Owner
      BY <1>T, <1>N, <2>1
    <3>5. rv_count' \in [Rendezvous!Workers -> 0 .. MAX_TURNS]
      <4>1. rv_count \in [Rendezvous!Workers -> 0 .. MAX_TURNS]
        BY <1>T
      <4> DEFINE Range0 == 0 .. MAX_TURNS
      <4>2. rv_count[w] + 1 \in Range0
        BY <2>3
      <4> HIDE DEF Range0
      <4>3. rv_count \in [Rendezvous!Workers -> Range0]
        BY <4>1 DEF Range0
      <4>4. rv_count' \in [Rendezvous!Workers -> Range0]
        BY <2>1, <4>2, <4>3
      <4> QED
        BY <4>4 DEF Range0
    <3> QED
      BY <2>1, <3>1, <3>2, <3>3, <3>4, <3>5, <1>T, <1>X
  <2>5. RvLocks'
    <3>1. \A v \in Rendezvous!Workers : v # w => rv_at'[v] \notin InCS
      BY <1>I, <2>2, <2>3 DEF RvLocks
    <3>2. rv_at'[w] \in InCS <=> csmutex' = w
      BY <1>E, <1>N, <2>1, <2>2, <2>3 DEF InCS
    <3>3. \A v \in Rendezvous!Workers : v # w => csmutex' # v
      BY <1>N, <2>1, <2>3
    <3>4. \A v \in Rendezvous!Workers : rv_at'[v] \in InCS <=> csmutex' = v
      BY <3>1, <3>2, <3>3
    <3>5. \A v \in Rendezvous!Workers : rv_at'[v] \in {"test", "leave"} => donemutex' = v
      BY <1>I, <2>1, <2>2 DEF RvLocks
    <3> QED
      BY <1>I, <2>1, <3>4, <3>5 DEF RvLocks
  <2>6. RvTurns'
    <3>1. \A v \in Rendezvous!Workers : rv_at[v] = "unborn" => rv_at'[v] = "unborn"
      BY <2>2
    <3>2. \A v \in Rendezvous!Workers : v # w => rv_count'[v] = rv_count[v]
      <4>1. rv_count \in [Rendezvous!Workers -> 0 .. MAX_TURNS]
        BY <1>T
      <4>2. rv_count' = rv_count \/ \E x : rv_count' = [rv_count EXCEPT ![w] = x]
        BY <2>1
      <4> QED
        BY <4>1, <4>2
    <3>3. rv_at'[w] \in {"count", "unlock", "check"}
      BY <2>2
    <3>4. rv_at'[w] \in InLoop => rv_count'[w] = rv_count[w]
      BY <2>1, <2>2 DEF InLoop
    <3>5. \A v \in Rendezvous!Workers : rv_at'[v] # "write"
      BY <1>I, <2>2, <2>3, <3>3 DEF RvLocks, InCS
    <3>6. \A v \in Rendezvous!Workers :
             rv_at'[v] \in InLoop \/ (rv_at'[v] = "test" /\ ~mdone') => rv_count'[v] < MAX_TURNS
      BY <1>I, <2>1, <2>2, <2>3, <3>2, <3>3, <3>4 DEF RvTurns
    <3> QED
      BY <1>I, <2>1, <3>1, <3>5, <3>6 DEF RvTurns
  <2>7. RvGone'
    BY <1>I, <1>0, <2>1, <2>2, GoneStay DEF OutOfLoop
  <2>8. RvSums'
    <3> DEFINE Unlock(f) == Cardinality(Within(f, {"unlock"}))
               Both(f) == Cardinality(Within(f, {"count", "unlock"}))
               SumA == SumOn(rv_A, Rendezvous!Indices)
               SumC == SumOn(rv_C, Rendezvous!Indices)
               Turns0 == SumOn(rv_count, Rendezvous!Workers)
               SumA1 == SumOn(rv_A', Rendezvous!Indices)
               SumC1 == SumOn(rv_C', Rendezvous!Indices)
               Turns1 == SumOn(rv_count', Rendezvous!Workers)
    <3>1. /\ rv_A \in [Rendezvous!Indices -> Nat] /\ rv_C \in [Rendezvous!Indices -> Nat]
          /\ \A v \in Rendezvous!Workers : rv_count[v] \in Nat
          /\ rv_count \in [Rendezvous!Workers -> 0 .. MAX_TURNS]
      BY <1>0, <1>T
    <3>2. SumA \in Nat /\ SumC \in Nat /\ Turns0 \in Nat
      BY <1>F, <3>1, SumType
    <3>3. Unlock(rv_at) \in Nat /\ Both(rv_at) \in Nat
      BY <1>0, WithinChange
    <3>4. /\ SumC = Turns0 + Unlock(rv_at) /\ SumA = Turns0 + Both(rv_at)
      BY <1>I DEF RvSums
    <3>5. CASE rv_at[w] = "write"
      <4>1. Both(rv_at') = Both(rv_at) + 1 /\ Unlock(rv_at') = Unlock(rv_at)
        <5>1. /\ rv_at[w] \notin {"count", "unlock"} /\ rv_at'[w] \in {"count", "unlock"}
              /\ rv_at[w] \notin {"unlock"} /\ rv_at'[w] \notin {"unlock"}
          BY <2>2, <3>5
        <5>2. \A P, v : v \in Rendezvous!Workers /\ v # w => (rv_at'[v] \in P <=> rv_at[v] \in P)
          BY <2>2
        <5>3. Both(rv_at') = Both(rv_at) + 1
          BY <1>0, <5>1, <5>2, WithinChange
        <5>4. Unlock(rv_at') = Unlock(rv_at)
          BY <1>0, <5>1, <5>2, WithinChange
        <5> QED
          BY <5>3, <5>4
      <4>2. rv_A' = [rv_A EXCEPT ![k] = rv_A[k] + 1] /\ UNCHANGED <<rv_C, rv_count>>
        BY <2>1, <2>3, <3>5
      <4>3. SumA1 = SumA + 1
        <5>1. \A x \in Rendezvous!Indices : /\ rv_A'[x] = IF x = k THEN rv_A[k] + 1 ELSE rv_A[x]
                                            /\ rv_A[x] \in Nat /\ rv_A'[x] \in Nat
          BY <2>3, <3>1, <4>2
        <5>2. SumA1 + rv_A[k] = SumA + (rv_A[k] + 1)
          BY <1>F, <2>3, <5>1, SumChange
        <5>3. SumA1 \in Nat
          BY <1>F, <5>1, SumType
        <5> QED
          BY <2>3, <3>2, <5>2, <5>3
      <4>4. SumC1 = SumC /\ Turns1 = Turns0
        BY <4>2
      <4>5. SumC1 = Turns1 + Unlock(rv_at') /\ SumA1 = Turns1 + Both(rv_at')
        BY <3>2, <3>3, <3>4, <4>1, <4>3, <4>4
      <4> QED
        BY <4>5 DEF RvSums, Within, Rendezvous!Workers, Rendezvous!Indices
    <3>6. CASE rv_at[w] = "count"
      <4>1. Both(rv_at') = Both(rv_at) /\ Unlock(rv_at') = Unlock(rv_at) + 1
        <5>1. /\ rv_at[w] \in {"count", "unlock"} /\ rv_at'[w] \in {"count", "unlock"}
              /\ rv_at[w] \notin {"unlock"} /\ rv_at'[w] \in {"unlock"}
          BY <2>2, <3>6
        <5>2. \A P, v : v \in Rendezvous!Workers /\ v # w => (rv_at'[v] \in P <=> rv_at[v] \in P)
          BY <2>2
        <5>3. Both(rv_at') = Both(rv_at)
          BY <1>0, <5>1, <5>2, WithinChange
        <5>4. Unlock(rv_at') = Unlock(rv_at) + 1
          BY <1>0, <5>1, <5>2, WithinChange
        <5> QED
          BY <5>3, <5>4
      <4>2. rv_C' = [rv_C EXCEPT ![k] = rv_C[k] + 1] /\ UNCHANGED <<rv_A, rv_count>>
        BY <2>1, <2>3, <3>6
      <4>3. SumC1 = SumC + 1
        <5>1. \A x \in Rendezvous!Indices : /\ rv_C'[x] = IF x = k THEN rv_C[k] + 1 ELSE rv_C[x]
                                            /\ rv_C[x] \in Nat /\ rv_C'[x] \in Nat
          BY <2>3, <3>1, <4>2
        <5>2. SumC1 + rv_C[k] = SumC + (rv_C[k] + 1)
          BY <1>F, <2>3, <5>1, SumChange
        <5>3. SumC1 \in Nat
          BY <1>F, <5>1, SumType
        <5> QED
          BY <2>3, <3>2, <5>2, <5>3
      <4>4. SumA1 = SumA /\ Turns1 = Turns0
        BY <4>2
      <4>5. SumC1 = Turns1 + Unlock(rv_at') /\ SumA1 = Turns1 + Both(rv_at')
        BY <3>2, <3>3, <3>4, <4>1, <4>3, <4>4
      <4> QED
        BY <4>5 DEF RvSums, Within, Rendezvous!Workers, Rendezvous!Indices
    <3>7. CASE rv_at[w] = "unlock"
      <4>1. /\ Both(rv_at') + 1 = Both(rv_at) /\ Unlock(rv_at') + 1 = Unlock(rv_at)
            /\ Both(rv_at') \in Nat /\ Unlock(rv_at') \in Nat
        BY <1>0, <2>2, <3>7, WithinChange
      <4>2. rv_count' = [rv_count EXCEPT ![w] = rv_count[w] + 1] /\ UNCHANGED <<rv_A, rv_C>>
        BY <2>1, <2>3, <3>7
      <4>3. Turns1 = Turns0 + 1
        <5>1. \A x \in Rendezvous!Workers :
                 /\ rv_count'[x] = IF x = w THEN rv_count[w] + 1 ELSE rv_count[x]
                 /\ rv_count[x] \in Nat /\ rv_count'[x] \in Nat
          BY <2>3, <3>1, <4>2
        <5>2. Turns1 + rv_count[w] = Turns0 + (rv_count[w] + 1)
          BY <1>F, <2>3, <5>1, SumChange
        <5>3. Turns1 \in Nat
          BY <1>F, <5>1, SumType
        <5> QED
          BY <2>3, <3>2, <5>2, <5>3
      <4>4. SumA1 = SumA /\ SumC1 = SumC
        BY <4>2
      <4>5. SumC1 = Turns1 + Unlock(rv_at') /\ SumA1 = Turns1 + Both(rv_at')
        BY <3>2, <3>3, <3>4, <4>1, <4>3, <4>4
      <4> QED
        BY <4>5 DEF RvSums, Within, Rendezvous!Workers, Rendezvous!Indices
    <3> QED
      BY <2>2, <3>5, <3>6, <3>7
  <2> QED
    BY <2>4, <2>5, <2>6, <2>7, <2>8, <1>J
<1> QED
  BY <1>1, <1>2, <1>3, <1>4, <1>5, <1>6, <1>7
     DEF Rendezvous!Next, Rendezvous!System, Rendezvous!MasterStep, Rendezvous!Worker

\* What the invariant says of the workers.
LEMMA RvShows ==
  ASSUME RvInv
  PROVE  LeaveTogether
<1>1. \A D : Rendezvous!Cardinality(D) = Cardinality(D)
  BY DEF Rendezvous!Cardinality, Cardinality
<1>2. /\ {w \in Rendezvous!Workers : rv_at[w] \in {"count", "unlock"}}
           = Within(rv_at, {"count", "unlock"})
      /\ {w \in Rendezvous!Workers : rv_at[w] = "unlock"} = Within(rv_at, {"unlock"})
  BY DEF Within
<1>3. /\ Rendezvous!MapThenSumSet(LAMBDA x : rv_C[x], Rendezvous!Indices)
           = SumOn(rv_C, Rendezvous!Indices)
      /\ Rendezvous!MapThenSumSet(LAMBDA x : rv_A[x], Rendezvous!Indices)
           = SumOn(rv_A, Rendezvous!Indices)
      /\ Rendezvous!MapThenSumSet(LAMBDA x : rv_count[x], Rendezvous!Workers)
           = SumOn(rv_count, Rendezvous!Workers)
  BY SumDef
<1> QED
  BY <1>1, <1>2, <1>3 DEF RvInv, RvGone, RvSums, LeaveTogether, Rendezvous!LeaveTogether

\* Of the workers of pthread.c nobody goes before all have counted themselves unless its own
\* wait returned by itself, and no change of the arrays is lost: for any number of workers,
\* entries and turns.
THEOREM TogetherLeft ==
  ASSUME Rendezvous!RendezvousAssumption
  PROVE  Rendezvous!Spec => []LeaveTogether
<1>1. Rendezvous!Init => RvInv
  BY RvStart
<1>2. RvInv /\ [Rendezvous!Next]_(Rendezvous!vars) => RvInv'
  BY RvStep
<1>3. RvInv => LeaveTogether
  BY RvShows
<1> QED
  BY <1>1, <1>2, <1>3, PTL DEF Rendezvous!Spec

-----------------------------------------------------------------------------
(* The tree sum of computesum.c                                            *)

\* The sum depends on the values of the members only.
LEMMA SumSame ==
  ASSUME NEW D, IsFiniteSet(D), NEW f, NEW h, \A x \in D : h[x] = f[x]
  PROVE  SumOn(h, D) = SumOn(f, D)
<1>1. PICK g : SumOn(f, D) = g[D] /\ \A E \in SUBSET D : AddsAt(g, f, E)
  BY SumSteps
<1>2. PICK k : SumOn(h, D) = k[D] /\ \A E \in SUBSET D : AddsAt(k, h, E)
  BY SumSteps
<1> DEFINE T == {E \in SUBSET D : k[E] = g[E]}
<1>3. {} \in T
  <2>1. g[{}] = 0 /\ k[{}] = 0
    BY <1>1, <1>2 DEF AddsAt
  <2> QED
    BY <2>1
<1>4. ASSUME NEW E \in SUBSET D, E # {}, E \ {Pick(E)} \in T PROVE E \in T
  <2>1. h[Pick(E)] = f[Pick(E)]
    BY <1>4 DEF Pick
  <2>2. g[E] = f[Pick(E)] + g[E \ {Pick(E)}] /\ k[E] = h[Pick(E)] + k[E \ {Pick(E)}]
    BY <1>1, <1>2, <1>4 DEF AddsAt
  <2> QED
    BY <1>4, <2>1, <2>2
<1>5. SUBSET D \subseteq T
  <2> HIDE DEF T
  <2> QED
    BY <1>3, <1>4, AllSubsets
<1> QED
  BY <1>1, <1>2, <1>5

\* The children of a node are finitely many, and it is not one of them.
LEMMA ChildrenFinite ==
  ASSUME Sum!TreeAssumption, NEW k \in Sum!Nodes
  PROVE  /\ IsFiniteSet(Sum!Nodes) /\ IsFiniteSet(Sum!Children(k))
         /\ Sum!Children(k) \subseteq Sum!Nodes /\ k \notin Sum!Children(k)
<1>1. num_nodes \in Nat
  BY DEF Sum!TreeAssumption
<1>2. Sum!Nodes = 0 .. num_nodes - 1
  BY DEF Sum!Nodes
<1>3. IsFiniteSet(Sum!Nodes)
  BY <1>1, <1>2, FS_Interval
<1>4. Sum!Children(k) \subseteq Sum!Nodes
  BY DEF Sum!Children
<1>5. PICK height \in [Sum!Nodes -> Sum!Nodes] :
        \A v \in Sum!Nodes : ts_Parent[v] # -1 => height[v] < height[ts_Parent[v]]
  BY DEF Sum!TreeAssumption
<1>6. k \notin Sum!Children(k)
  <2>1. k \in Int /\ k >= 0 /\ height[k] \in Int
    BY <1>1, <1>2, <1>5
  <2>2. ts_Parent[k] # k
    BY <1>5, <2>1
  <2> QED
    BY <2>2 DEF Sum!Children
<1> QED
  BY <1>3, <1>4, <1>6, FS_Subset

\* What the sum of every subtree is, as an equation.
Totals(g) == g = [k \in Sum!Nodes |-> Value[k] + SumOn(g, Sum!Children(k))]

\* A tree has such sums, by induction on the height of its nodes.
LEMMA TotalsExist ==
  ASSUME Sum!TreeAssumption
  PROVE  \E g : Totals(g)
<1>1. PICK height \in [Sum!Nodes -> Sum!Nodes] :
        \A v \in Sum!Nodes : ts_Parent[v] # -1 => height[v] < height[ts_Parent[v]]
  BY DEF Sum!TreeAssumption
<1>2. num_nodes \in Nat /\ \A v \in Sum!Nodes : height[v] \in Nat /\ height[v] <= num_nodes
  <2>1. num_nodes \in Nat
    BY DEF Sum!TreeAssumption
  <2> QED
    BY <1>1, <2>1 DEF Sum!Nodes
<1>3. \A k \in Sum!Nodes : \A v \in Sum!Children(k) : v \in Sum!Nodes /\ height[v] < height[k]
  <2> SUFFICES ASSUME NEW k \in Sum!Nodes, NEW v \in Sum!Children(k)
               PROVE  v \in Sum!Nodes /\ height[v] < height[k]
    OBVIOUS
  <2>1. v \in Sum!Nodes /\ ts_Parent[v] = k
    BY DEF Sum!Children
  <2>2. k # -1
    BY <1>2 DEF Sum!Nodes
  <2> QED
    BY <1>1, <2>1, <2>2
<1> DEFINE At(g, k) == g[k] = Value[k] + SumOn(g, Sum!Children(k))
           Good == {x \in Nat : \E g : \A k \in Sum!Nodes : height[k] < x => At(g, k)}
<1>4. 0 \in Good
  <2>1. \A k \in Sum!Nodes : ~(height[k] < 0)
    BY <1>2
  <2> HIDE DEF At
  <2> QED
    BY <2>1
<1>5. ASSUME NEW x \in Nat, x \in Good PROVE x + 1 \in Good
  <2> HIDE DEF At
  <2>1. PICK g : \A k \in Sum!Nodes : height[k] < x => At(g, k)
    BY <1>5
  <2> DEFINE h == [k \in Sum!Nodes |-> IF height[k] < x THEN g[k]
                                       ELSE Value[k] + SumOn(g, Sum!Children(k))]
  <2>2. ASSUME NEW k \in Sum!Nodes, height[k] < x + 1 PROVE At(h, k)
    <3>1. \A v \in Sum!Children(k) : h[v] = g[v]
      <4>1. \A v \in Sum!Children(k) : v \in Sum!Nodes /\ height[v] < x
        BY <1>2, <1>3, <2>2
      <4> QED
        BY <4>1
    <3>2. h[k] = IF height[k] < x THEN g[k] ELSE Value[k] + SumOn(g, Sum!Children(k))
      OBVIOUS
    <3> HIDE DEF h
    <3>3. SumOn(h, Sum!Children(k)) = SumOn(g, Sum!Children(k))
      BY <3>1, ChildrenFinite, SumSame
    <3>4. height[k] < x => g[k] = Value[k] + SumOn(g, Sum!Children(k))
      BY <2>1 DEF At
    <3> QED
      BY <3>2, <3>3, <3>4 DEF At
  <2> HIDE DEF h
  <2> QED
    BY <2>2
<1>6. num_nodes + 1 \in Good
  <2> HIDE DEF Good
  <2> QED
    BY <1>2, <1>4, <1>5, AllNumbers
<1>7. PICK g : \A k \in Sum!Nodes : At(g, k)
  <2>1. PICK g : \A k \in Sum!Nodes : height[k] < num_nodes + 1 => At(g, k)
    BY <1>6
  <2> HIDE DEF At
  <2> QED
    BY <1>2, <2>1
<1> DEFINE h == [k \in Sum!Nodes |-> g[k]]
<1>8. \A k \in Sum!Nodes : SumOn(h, Sum!Children(k)) = SumOn(g, Sum!Children(k))
  <2> TAKE k \in Sum!Nodes
  <2>1. \A v \in Sum!Children(k) : h[v] = g[v]
    BY ChildrenFinite
  <2> HIDE DEF h
  <2> QED
    BY <2>1, ChildrenFinite, SumSame
<1>9. h = [k \in Sum!Nodes |-> Value[k] + SumOn(h, Sum!Children(k))]
  BY <1>7, <1>8
<1> QED
  BY <1>9 DEF Totals

\* Sums as the module writes them.
LEMMA TreeSumDef ==
  ASSUME NEW f, NEW D
  PROVE  Sum!MapThenSumSet(LAMBDA x : f[x], D) = SumOn(f, D)
BY DEF SumOn, Sum!MapThenSumSet, Sum!MapThenFoldSet, Adds

\* Total gives the sums of the subtrees.
LEMMA TotalIs ==
  ASSUME Sum!TreeAssumption, NEW k \in Sum!Nodes
  PROVE  Sum!Total[k] = Value[k] + SumOn(Sum!Total, Sum!Children(k))
<1> DEFINE Fits(g) ==
         g = [v \in Sum!Nodes |->
                 Value[v] + Sum!MapThenSumSet(LAMBDA c_1 : g[c_1], Sum!Children(v))]
<1>1. Sum!Total = CHOOSE g : Fits(g)
  BY DEF Sum!Total
<1>2. \A g : Fits(g) <=> Totals(g)
  BY TreeSumDef DEF Totals
<1>3. Fits(Sum!Total)
  <2> HIDE DEF Fits
  <2> QED
    BY <1>1, <1>2, TotalsExist
<1> HIDE DEF Fits
<1>4. Totals(Sum!Total)
  BY <1>2, <1>3
<1> QED
  BY <1>4 DEF Totals

\* The kinds of steps a program consists of, and steps as records.
Ops == {"reset", "own", "lock", "check", "status", "disown", "free", "signal", "enter", "clear",
        "print", "P", "V", "pop", "load", "store", "test", "count", "post", "zero", "clone",
        "leaf", "add"}

Rec == [op : Ops, what : Int]

\* The steps that are not steps of a barrier or of joining: no semaphore of a barrier or of
\* the leader, no sum and no new thread.
Plain(r) ==
    \/ r.op \in {"reset", "own", "lock", "check", "status", "disown", "free", "enter", "clear"}
    \/ r.op \in {"P", "V"} /\ r.what \in {-1, -3, -4}
    \/ r.op = "pop" /\ r.what \in {-1, -num_nodes}

PlainCall(ss) == ss \in Seq(Rec) /\ \A k \in 1 .. Len(ss) : Plain(ss[k])

\* Steps are records.
LEMMA StepIs ==
  ASSUME NEW o \in Ops, NEW w \in Int
  PROVE  Sum!Step(o, w) \in Rec /\ Sum!Step(o, w).op = o /\ Sum!Step(o, w).what = w
BY DEF Sum!Step, Rec

\* One call after the other.
Joins(cc, ss, rr) ==
    /\ cc \in Seq(Rec) /\ Len(cc) = Len(ss) + Len(rr)
    /\ \A k \in 1 .. Len(ss) : cc[k] = ss[k]
    /\ \A k \in 1 .. Len(rr) : cc[Len(ss) + k] = rr[k]

\* A concatenation keeps the steps of both calls in their order.
LEMMA Joined ==
  ASSUME NEW ss \in Seq(Rec), NEW rr \in Seq(Rec)
  PROVE  Joins(ss \o rr, ss, rr)
BY DEF Joins

\* Plain calls one after the other are a plain call.
LEMMA PlainJoined ==
  ASSUME NEW ss, NEW rr, PlainCall(ss), PlainCall(rr)
  PROVE  PlainCall(ss \o rr)
<1> USE DEF PlainCall
<1>1. ss \o rr \in Seq(Rec) /\ Len(ss) \in Nat /\ Len(rr) \in Nat
  OBVIOUS
<1>2. ASSUME NEW k \in 1 .. Len(ss \o rr) PROVE Plain((ss \o rr)[k])
  <2>1. CASE k <= Len(ss)
    BY <2>1, Joined DEF Joins
  <2>2. CASE ~(k <= Len(ss))
    <3>1. k - Len(ss) \in 1 .. Len(rr) /\ k = Len(ss) + (k - Len(ss))
      BY <1>1, <2>2, Joined DEF Joins
    <3>2. (ss \o rr)[k] = rr[k - Len(ss)]
      BY <3>1, Joined DEF Joins
    <3> QED
      BY <3>1, <3>2
  <2> QED
    BY <2>1, <2>2
<1> QED
  BY <1>1, <1>2

\* The calls that have nothing to do with barriers.
LEMMA PlainCalls ==
  ASSUME num_nodes \in Nat, Sum!Root \in Nat
  PROVE  /\ PlainCall(Sum!Lock) /\ Len(Sum!Lock) = 4
         /\ PlainCall(Sum!Unlock) /\ Len(Sum!Unlock) = 6
         /\ PlainCall(<< >>)
<1> DEFINE Pl == {r \in Rec : Plain(r)}
<1>0. \A ss \in Seq(Pl) : PlainCall(ss)
  BY DEF PlainCall
<1>1. /\ Sum!Step("reset", 0) \in Pl /\ Sum!Step("own", 0) \in Pl /\ Sum!Step("check", 0) \in Pl
      /\ Sum!Step("disown", 0) \in Pl /\ Sum!Step("lock", 0) \in Pl
      /\ Sum!Step("status", 0) \in Pl /\ Sum!Step("free", 0) \in Pl
  BY DEF Plain, Sum!Step, Rec, Ops
<1>2. Sum!Step("P", Sum!Mutex) \in Pl /\ Sum!Step("V", Sum!Mutex) \in Pl
  BY DEF Plain, Sum!Mutex, Sum!Step, Rec, Ops
<1> HIDE DEF Pl
<1>3. Sum!Lock \in Seq(Pl) /\ Len(Sum!Lock) = 4
  BY <1>1, <1>2 DEF Sum!Lock
<1>4. Sum!Unlock \in Seq(Pl) /\ Len(Sum!Unlock) = 6
  BY <1>1, <1>2 DEF Sum!Unlock
<1>5. << >> \in Seq(Pl)
  OBVIOUS
<1> QED
  BY <1>0, <1>3, <1>4, <1>5

\* The steps of foothread_exit: in a node the third one signals the leader, in the leader the
\* fifth one waits for the nodes.
LEMMA ExitSteps ==
  ASSUME num_nodes \in Nat
  PROVE  /\ Sum!NodeExit \in Seq(Rec) /\ Len(Sum!NodeExit) = 7
         /\ Sum!NodeExit[3] = Sum!Step("signal", 0)
         /\ \A k \in 1 .. 7 : k # 3 => Plain(Sum!NodeExit[k])
         /\ Sum!LeaderExit \in Seq(Rec) /\ Len(Sum!LeaderExit) = 9
         /\ Sum!LeaderExit[5] = Sum!Step("P", -2)
         /\ \A k \in 1 .. 9 : k # 5 => Plain(Sum!LeaderExit[k])
<1>1. /\ Sum!Step("reset", 0) \in Rec /\ Sum!Step("signal", 0) \in Rec
      /\ Sum!Step("clear", 0) \in Rec /\ Sum!Step("P", Sum!Table) \in Rec
      /\ Sum!Step("V", Sum!Table) \in Rec /\ Sum!Step("P", Sum!Joined) \in Rec
      /\ Sum!Step("pop", -1) \in Rec /\ Sum!Step("pop", -num_nodes) \in Rec
  BY DEF Sum!Table, Sum!Joined, Sum!Step, Rec, Ops
<1>2. /\ Plain(Sum!Step("reset", 0)) /\ Plain(Sum!Step("clear", 0))
      /\ Plain(Sum!Step("P", Sum!Table)) /\ Plain(Sum!Step("V", Sum!Table))
      /\ Plain(Sum!Step("pop", -1)) /\ Plain(Sum!Step("pop", -num_nodes))
  BY DEF Plain, Sum!Table, Sum!Step
<1>3. Sum!NodeExit \in Seq(Rec) /\ Len(Sum!NodeExit) = 7 /\ Sum!NodeExit[3] = Sum!Step("signal", 0)
  BY <1>1 DEF Sum!NodeExit
<1>4. ASSUME NEW k \in 1 .. 7, k # 3 PROVE Plain(Sum!NodeExit[k])
  <2>1. k = 1 \/ k = 2 \/ k = 4 \/ k = 5 \/ k = 6 \/ k = 7
    BY <1>4
  <2>2. /\ Sum!NodeExit[1] = Sum!Step("reset", 0) /\ Sum!NodeExit[2] = Sum!Step("P", Sum!Table)
        /\ Sum!NodeExit[4] = Sum!Step("V", Sum!Table) /\ Sum!NodeExit[5] = Sum!Step("pop", -1)
        /\ Sum!NodeExit[6] = Sum!Step("P", Sum!Table) /\ Sum!NodeExit[7] = Sum!Step("V", Sum!Table)
    BY DEF Sum!NodeExit
  <2> QED
    BY <1>2, <2>1, <2>2
<1>5. /\ Sum!LeaderExit \in Seq(Rec) /\ Len(Sum!LeaderExit) = 9
      /\ Sum!LeaderExit[5] = Sum!Step("P", -2)
  BY <1>1 DEF Sum!LeaderExit, Sum!Joined
<1>6. ASSUME NEW k \in 1 .. 9, k # 5 PROVE Plain(Sum!LeaderExit[k])
  <2>1. k = 1 \/ k = 2 \/ k = 3 \/ k = 4 \/ k = 6 \/ k = 7 \/ k = 8 \/ k = 9
    BY <1>6
  <2>2. /\ Sum!LeaderExit[1] = Sum!Step("reset", 0) /\ Sum!LeaderExit[2] = Sum!Step("P", Sum!Table)
        /\ Sum!LeaderExit[3] = Sum!Step("V", Sum!Table)
        /\ Sum!LeaderExit[4] = Sum!Step("pop", -num_nodes)
        /\ Sum!LeaderExit[6] = Sum!Step("pop", -1) /\ Sum!LeaderExit[7] = Sum!Step("P", Sum!Table)
        /\ Sum!LeaderExit[8] = Sum!Step("clear", 0) /\ Sum!LeaderExit[9] = Sum!Step("V", Sum!Table)
    BY DEF Sum!LeaderExit
  <2> QED
    BY <1>2, <2>1, <2>2
<1> QED
  BY <1>3, <1>4, <1>5, <1>6

\* The steps of a barrier.
LEMMA AwaitSteps ==
  ASSUME NEW b \in Int
  PROVE  /\ Sum!Await(b) \in Seq(Rec) /\ Len(Sum!Await(b)) = 10
         /\ Sum!Await(b)[1] = Sum!Step("reset", 0) /\ Sum!Await(b)[2] = Sum!Step("P", -4)
         /\ Sum!Await(b)[3] = Sum!Step("load", b) /\ Sum!Await(b)[4] = Sum!Step("store", b)
         /\ Sum!Await(b)[5] = Sum!Step("test", b) /\ Sum!Await(b)[6] = Sum!Step("V", -4)
         /\ Sum!Await(b)[7] = Sum!Step("count", b) /\ Sum!Await(b)[8] = Sum!Step("post", b)
         /\ Sum!Await(b)[9] = Sum!Step("zero", b) /\ Sum!Await(b)[10] = Sum!Step("P", b)
<1>1. /\ Sum!Step("reset", 0) \in Rec /\ Sum!Step("P", Sum!Arrival) \in Rec
      /\ Sum!Step("load", b) \in Rec /\ Sum!Step("store", b) \in Rec
      /\ Sum!Step("test", b) \in Rec /\ Sum!Step("V", Sum!Arrival) \in Rec
      /\ Sum!Step("count", b) \in Rec /\ Sum!Step("post", b) \in Rec
      /\ Sum!Step("zero", b) \in Rec /\ Sum!Step("P", b) \in Rec
  BY DEF Sum!Arrival, Sum!Step, Rec, Ops
<1>2. Sum!Await(b) \in Seq(Rec)
  BY <1>1 DEF Sum!Await
<1>3. /\ Len(Sum!Await(b)) = 10
      /\ Sum!Await(b)[1] = Sum!Step("reset", 0) /\ Sum!Await(b)[2] = Sum!Step("P", -4)
      /\ Sum!Await(b)[3] = Sum!Step("load", b) /\ Sum!Await(b)[4] = Sum!Step("store", b)
      /\ Sum!Await(b)[5] = Sum!Step("test", b) /\ Sum!Await(b)[6] = Sum!Step("V", -4)
      /\ Sum!Await(b)[7] = Sum!Step("count", b) /\ Sum!Await(b)[8] = Sum!Step("post", b)
      /\ Sum!Await(b)[9] = Sum!Step("zero", b) /\ Sum!Await(b)[10] = Sum!Step("P", b)
  BY DEF Sum!Await, Sum!Arrival
<1> QED
  BY <1>2, <1>3

\* There is one root, and every other node has a parent.
LEMMA RootIs ==
  ASSUME Sum!TreeAssumption
  PROVE  /\ Sum!Root \in Sum!Nodes /\ ts_Parent[Sum!Root] = -1
         /\ \A k \in Sum!Nodes : k # Sum!Root => ts_Parent[k] \in Sum!Nodes
<1> DEFINE Roots == {k \in Sum!Nodes : ts_Parent[k] = -1}
<1>1. Sum!Cardinality(Roots) = 1
  BY DEF Sum!TreeAssumption
<1>2. Cardinality(Roots) = 1
  BY <1>1 DEF Sum!Cardinality, Cardinality
<1>3. IsFiniteSet(Sum!Nodes) /\ num_nodes \in Nat
  <2>1. num_nodes \in Nat /\ Sum!Nodes = 0 .. num_nodes - 1
    BY DEF Sum!TreeAssumption, Sum!Nodes
  <2> QED
    BY <2>1, FS_Interval
<1>4. IsFiniteSet(Roots)
  BY <1>3, FS_Subset
<1>5. \E x : Roots = {x}
  <2> HIDE DEF Roots
  <2> QED
    BY <1>2, <1>4, FS_Singleton
<1>6. Sum!Root \in Roots /\ \A k \in Roots : k = Sum!Root
  BY <1>5 DEF Sum!Root
<1>7. \A k \in Sum!Nodes : ts_Parent[k] \in -1 .. num_nodes - 1
  BY DEF Sum!TreeAssumption
<1>8. \A k \in Sum!Nodes : ts_Parent[k] # -1 => ts_Parent[k] \in Sum!Nodes
  BY <1>3, <1>7 DEF Sum!Nodes
<1> QED
  BY <1>6, <1>8

Inner(k) == Sum!Children(k) # {}

\* Thread u comes to the barrier of b, after Off(u, b) other steps.
Arrives(u, b) == u \in Sum!Nodes /\ b \in Sum!Nodes /\ ((b = u /\ Inner(u)) \/ b = ts_Parent[u])
Off(u, b) == IF b = u THEN 0 ELSE IF Inner(u) THEN 21 ELSE 1

\* The step with which a node has its sum.
Adding(u) == IF Inner(u) THEN 15 ELSE 1

\* The step with which a node signals the leader.
Signalling(u) == (IF Inner(u) THEN 21 ELSE 1) + (IF u = Sum!Root THEN 0 ELSE 10)
                 + (IF Inner(u) THEN 10 ELSE 0) + 3

\* What a node does until it has its sum.
LEMMA SumUpSteps ==
  ASSUME num_nodes \in Nat, Sum!Root \in Nat, NEW u \in Nat
  PROVE  /\ Sum!SumUp(u) \in Seq(Rec) /\ Len(Sum!SumUp(u)) = IF Inner(u) THEN 21 ELSE 1
         /\ Sum!SumUp(u)[Adding(u)] = Sum!Step(IF Inner(u) THEN "add" ELSE "leaf", u)
         /\ Inner(u) => \A k \in 1 .. 10 : Sum!SumUp(u)[k] = Sum!Await(u)[k]
         /\ \A k \in 1 .. Len(Sum!SumUp(u)) :
               \/ Inner(u) /\ k <= 10
               \/ k = Adding(u)
               \/ Plain(Sum!SumUp(u)[k])
<1>1. CASE ~Inner(u)
  <2>1. Sum!SumUp(u) = <<Sum!Step("leaf", u)>>
    BY <1>1 DEF Sum!SumUp, Inner
  <2>2. Sum!Step("leaf", u) \in Rec
    BY DEF Sum!Step, Rec, Ops
  <2>3. Sum!SumUp(u) \in Seq(Rec) /\ Len(Sum!SumUp(u)) = 1 /\ Sum!SumUp(u)[1] = Sum!Step("leaf", u)
    BY <2>1, <2>2
  <2> QED
    BY <1>1, <2>3 DEF Adding
<1>2. CASE Inner(u)
  <2> DEFINE one == <<Sum!Step("add", u)>>
             AL == Sum!Await(u) \o Sum!Lock
             ALo == AL \o one
             all == ALo \o Sum!Unlock
  <2>1. Sum!SumUp(u) = all
    BY <1>2 DEF Sum!SumUp, Inner
  <2>2. one \in Seq(Rec) /\ Len(one) = 1 /\ one[1] = Sum!Step("add", u)
    <3>1. Sum!Step("add", u) \in Rec
      BY DEF Sum!Step, Rec, Ops
    <3> QED
      BY <3>1
  <2>3. /\ Sum!Lock \in Seq(Rec) /\ Len(Sum!Lock) = 4 /\ \A k \in 1 .. 4 : Plain(Sum!Lock[k])
        /\ Sum!Unlock \in Seq(Rec) /\ Len(Sum!Unlock) = 6 /\ \A k \in 1 .. 6 : Plain(Sum!Unlock[k])
    BY PlainCalls DEF PlainCall
  <2>4. Sum!Await(u) \in Seq(Rec) /\ Len(Sum!Await(u)) = 10
    BY AwaitSteps
  <2> HIDE DEF one
  <2>5. /\ AL \in Seq(Rec) /\ Len(AL) = 14 /\ \A k \in 1 .. 10 : AL[k] = Sum!Await(u)[k]
        /\ \A k \in 1 .. 4 : AL[10 + k] = Sum!Lock[k]
    <3>1. Joins(AL, Sum!Await(u), Sum!Lock)
      BY <2>3, <2>4, Joined
    <3> HIDE DEF AL
    <3> QED
      BY <2>3, <2>4, <3>1 DEF Joins
  <2> HIDE DEF AL
  <2>6. /\ ALo \in Seq(Rec) /\ Len(ALo) = 15 /\ \A k \in 1 .. 14 : ALo[k] = AL[k]
        /\ ALo[14 + 1] = one[1]
    <3>1. Joins(ALo, AL, one)
      BY <2>2, <2>5, Joined
    <3> HIDE DEF ALo
    <3> QED
      BY <2>2, <2>5, <3>1 DEF Joins
  <2> HIDE DEF ALo
  <2>7. /\ all \in Seq(Rec) /\ Len(all) = 21 /\ \A k \in 1 .. 15 : all[k] = ALo[k]
        /\ \A k \in 1 .. 6 : all[15 + k] = Sum!Unlock[k]
    <3>1. Joins(all, ALo, Sum!Unlock)
      BY <2>3, <2>6, Joined
    <3> HIDE DEF all
    <3> QED
      BY <2>3, <2>6, <3>1 DEF Joins
  <2> HIDE DEF all
  <2>8. \A k \in 1 .. 10 : all[k] = Sum!Await(u)[k]
    <3> TAKE k \in 1 .. 10
    <3>1. k \in 1 .. 14 /\ k \in 1 .. 15
      OBVIOUS
    <3>2. all[k] = ALo[k] /\ ALo[k] = AL[k]
      BY <2>6, <2>7, <3>1
    <3> QED
      BY <2>5, <3>2
  <2>9. all[15] = Sum!Step("add", u)
    BY <2>2, <2>6, <2>7
  <2>10. ASSUME NEW k \in 1 .. 21, k > 10, k # 15 PROVE Plain(all[k])
    <3>1. CASE k <= 14
      <4>1. k \in 1 .. 15 /\ k \in 1 .. 14 /\ k - 10 \in 1 .. 4 /\ k = 10 + (k - 10)
        BY <2>10, <3>1
      <4>2. all[k] = ALo[k] /\ ALo[k] = AL[k]
        BY <2>6, <2>7, <4>1
      <4>3. AL[k] = Sum!Lock[k - 10]
        BY <2>5, <4>1
      <4> QED
        BY <2>3, <4>1, <4>2, <4>3
    <3>2. CASE k > 15
      <4>1. k - 15 \in 1 .. 6 /\ k = 15 + (k - 15)
        BY <2>10, <3>2
      <4>2. all[k] = Sum!Unlock[k - 15]
        BY <2>7, <4>1
      <4> QED
        BY <2>3, <4>1, <4>2
    <3> QED
      BY <2>10, <3>1, <3>2
  <2>11. \A k \in 1 .. 21 : k <= 10 \/ k = 15 \/ Plain(all[k])
    BY <2>10
  <2> QED
    BY <1>2, <2>1, <2>7, <2>8, <2>9, <2>11 DEF Adding
<1> QED
  BY <1>1, <1>2

\* The program of a node: its barriers are where Off says, its sum where Adding says, the
\* signal to the leader where Signalling says, and all else is plain.
NodeCode(u, cc) ==
    /\ cc \in Seq(Rec) /\ Adding(u) <= Len(cc)
    /\ cc[Adding(u)] = Sum!Step(IF Inner(u) THEN "add" ELSE "leaf", u)
    /\ \A b \in Sum!Nodes : Arrives(u, b) =>
          /\ Off(u, b) + 10 <= Len(cc)
          /\ \A k \in 1 .. 10 : cc[Off(u, b) + k] = Sum!Await(b)[k]
    /\ \A k \in 1 .. Len(cc) :
          \/ \E b \in Sum!Nodes : Arrives(u, b) /\ k - Off(u, b) \in 1 .. 10
          \/ k = Adding(u)
          \/ k = Signalling(u) /\ cc[k] = Sum!Step("signal", 0)
          \/ Plain(cc[k])

\* The program of every node is of that form.
LEMMA NodeCodeIs ==
  ASSUME Sum!TreeAssumption, NEW u \in Sum!Nodes
  PROVE  NodeCode(u, Sum!Code[u])
<1> DEFINE up == Sum!SumUp(u)
           meet == IF u = Sum!Root THEN << >> ELSE Sum!Await(ts_Parent[u])
           talk == IF Sum!Children(u) = {} THEN << >> ELSE Sum!Lock \o Sum!Unlock
           UM == up \o meet
           UMT == UM \o talk
           all == UMT \o Sum!NodeExit
<1>1. num_nodes \in Nat /\ u \in Nat /\ Sum!Root \in Nat /\ u \in Sum!Tids /\ u # Sum!Leader
  <2>1. num_nodes \in Nat
    BY DEF Sum!TreeAssumption
  <2>2. Sum!Root \in Sum!Nodes
    BY RootIs
  <2> QED
    BY <2>1, <2>2 DEF Sum!Nodes, Sum!Tids, Sum!Leader
<1>2. Sum!Code[u] = all
  BY <1>1 DEF Sum!Code, Sum!NodeThread
<1> DEFINE L == IF Inner(u) THEN 21 ELSE 1
           K == IF u = Sum!Root THEN 0 ELSE 10
<1>3. /\ up \in Seq(Rec) /\ Len(up) = L
      /\ up[Adding(u)] = Sum!Step(IF Inner(u) THEN "add" ELSE "leaf", u)
      /\ Inner(u) => \A k \in 1 .. 10 : up[k] = Sum!Await(u)[k]
      /\ \A k \in 1 .. L : (Inner(u) /\ k <= 10) \/ k = Adding(u) \/ Plain(up[k])
  BY <1>1, SumUpSteps
<1> HIDE DEF up
<1>4. /\ meet \in Seq(Rec) /\ Len(meet) = K
      /\ u # Sum!Root => \A k \in 1 .. 10 : meet[k] = Sum!Await(ts_Parent[u])[k]
  <2>1. CASE u = Sum!Root
    BY <2>1
  <2>2. CASE u # Sum!Root
    <3>1. ts_Parent[u] \in Sum!Nodes
      BY <2>2, RootIs
    <3>2. ts_Parent[u] \in Int
      BY <1>1, <3>1 DEF Sum!Nodes
    <3>3. Sum!Await(ts_Parent[u]) \in Seq(Rec) /\ Len(Sum!Await(ts_Parent[u])) = 10
      BY <3>2, AwaitSteps
    <3> QED
      BY <2>2, <3>3
  <2> QED
    BY <2>1, <2>2
<1> DEFINE T == IF Inner(u) THEN 10 ELSE 0
<1>5. PlainCall(talk) /\ Len(talk) = T
  <2>1. CASE Inner(u)
    <3>1. talk = Sum!Lock \o Sum!Unlock
      BY <2>1 DEF Inner
    <3>2. PlainCall(Sum!Lock) /\ PlainCall(Sum!Unlock) /\ Len(Sum!Lock) = 4 /\ Len(Sum!Unlock) = 6
      BY <1>1, PlainCalls
    <3>3. Len(Sum!Lock \o Sum!Unlock) = 10
      <4>1. Joins(Sum!Lock \o Sum!Unlock, Sum!Lock, Sum!Unlock)
        BY <3>2, Joined DEF PlainCall
      <4> QED
        BY <3>2, <4>1 DEF Joins
    <3> QED
      BY <2>1, <3>1, <3>2, <3>3, PlainJoined
  <2>2. CASE ~Inner(u)
    <3>1. talk = << >>
      BY <2>2 DEF Inner
    <3> QED
      BY <1>1, <2>2, <3>1, PlainCalls
  <2> QED
    BY <2>1, <2>2
<1> HIDE DEF meet, talk
<1>6. /\ Sum!NodeExit \in Seq(Rec) /\ Len(Sum!NodeExit) = 7
      /\ Sum!NodeExit[3] = Sum!Step("signal", 0)
      /\ \A k \in 1 .. 7 : k # 3 => Plain(Sum!NodeExit[k])
  BY <1>1, ExitSteps
<1> DEFINE rest == talk \o Sum!NodeExit
<1>7. all = UM \o rest
  <2>1. UM \in Seq(Rec) /\ talk \in Seq(Rec) /\ Sum!NodeExit \in Seq(Rec)
    BY <1>3, <1>4, <1>5, <1>6 DEF PlainCall
  <2> HIDE DEF UM
  <2> QED
    BY <2>1
<1>8. /\ rest \in Seq(Rec) /\ Len(rest) \in Nat
      /\ \A k \in 1 .. Len(rest) : (k = T + 3 /\ rest[k] = Sum!Step("signal", 0)) \/ Plain(rest[k])
  <2>1. talk \in Seq(Rec) /\ T \in Nat /\ \A k \in 1 .. T : Plain(talk[k])
    BY <1>5 DEF PlainCall
  <2>2. Joins(rest, talk, Sum!NodeExit)
    BY <1>6, <2>1, Joined
  <2> HIDE DEF rest, T
  <2>3. /\ rest \in Seq(Rec) /\ Len(rest) = T + 7 /\ \A k \in 1 .. T : rest[k] = talk[k]
        /\ \A k \in 1 .. 7 : rest[T + k] = Sum!NodeExit[k]
    BY <1>5, <1>6, <2>2 DEF Joins
  <2>4. ASSUME NEW k \in 1 .. Len(rest)
        PROVE  (k = T + 3 /\ rest[k] = Sum!Step("signal", 0)) \/ Plain(rest[k])
    <3>1. CASE k <= T
      BY <2>1, <2>3, <3>1
    <3>2. CASE ~(k <= T)
      <4>1. k - T \in 1 .. 7 /\ k = T + (k - T)
        <5>1. k \in Nat /\ k <= T + 7 /\ T \in Nat /\ k > T
          BY <2>1, <2>3, <3>2
        <5> QED
          BY <5>1
      <4>2. rest[k] = Sum!NodeExit[k - T]
        BY <2>3, <4>1
      <4>3. k - T = 3 => k = T + 3
        BY <4>1, <2>1
      <4> QED
        BY <1>6, <4>1, <4>2, <4>3
    <3> QED
      BY <3>1, <3>2
  <2> QED
    BY <2>1, <2>3, <2>4
<1> HIDE DEF rest, all
<1>9. /\ UM \in Seq(Rec) /\ Len(UM) = L + K
      /\ \A k \in 1 .. L : UM[k] = up[k]
      /\ \A k \in 1 .. K : UM[L + k] = meet[k]
  <2>1. Joins(UM, up, meet)
    BY <1>3, <1>4, Joined
  <2> HIDE DEF L, K, UM
  <2> QED
    BY <1>3, <1>4, <2>1 DEF Joins
<1> HIDE DEF UM
<1> DEFINE M == Len(rest)
<1>10. /\ all \in Seq(Rec) /\ Len(all) = L + K + M
       /\ \A k \in 1 .. L + K : all[k] = UM[k]
       /\ \A k \in 1 .. M : all[L + K + k] = rest[k]
  <2>1. Joins(all, UM, rest)
    BY <1>7, <1>8, <1>9, Joined
  <2> HIDE DEF L, K
  <2> QED
    BY <1>9, <2>1 DEF Joins
<1>11. M \in Nat
  BY <1>8
<1> HIDE DEF M
<1>12. \A k \in 1 .. L : all[k] = up[k]
  BY <1>9, <1>10
<1>13. \A k \in 1 .. K : all[L + k] = meet[k]
  BY <1>9, <1>10
<1>14. Adding(u) \in 1 .. L
  BY DEF Adding
<1>15. Adding(u) <= Len(all) /\ all[Adding(u)] = Sum!Step(IF Inner(u) THEN "add" ELSE "leaf", u)
  <2>1. all[Adding(u)] = up[Adding(u)]
    BY <1>12, <1>14
  <2>2. Adding(u) <= L /\ L \in Nat /\ K \in Nat /\ Adding(u) \in Nat
    BY DEF Adding
  <2>3. Adding(u) <= Len(all)
    <3> HIDE DEF L, K
    <3> QED
      BY <1>10, <1>11, <2>2
  <2> QED
    BY <1>3, <2>1, <2>3
<1>16. ASSUME NEW b \in Sum!Nodes, Arrives(u, b)
       PROVE  Off(u, b) + 10 <= Len(all) /\ \A k \in 1 .. 10 : all[Off(u, b) + k] = Sum!Await(b)[k]
  <2>1. CASE b = u
    <3>1. Inner(u)
      <4>1. b # ts_Parent[u]
        <5>1. u \notin Sum!Children(u)
          BY ChildrenFinite
        <5> QED
          BY <2>1, <5>1 DEF Sum!Children
      <4> QED
        BY <1>16, <4>1 DEF Arrives
    <3>2. Off(u, b) = 0 /\ L = 21 /\ K \in Nat
      BY <2>1, <3>1 DEF Off
    <3>3. Off(u, b) + 10 <= Len(all)
      BY <1>10, <1>11, <3>2
    <3>4. \A k \in 1 .. 10 : all[k] = up[k] /\ up[k] = Sum!Await(u)[k]
      BY <1>3, <1>12, <3>1, <3>2
    <3> QED
      BY <2>1, <3>2, <3>3, <3>4
  <2>2. CASE b # u
    <3>1. b = ts_Parent[u] /\ Off(u, b) = L
      BY <1>16, <2>2 DEF Arrives, Off
    <3>2. u # Sum!Root
      <4>1. b # -1
        BY <1>1 DEF Sum!Nodes
      <4> QED
        BY <3>1, <4>1, RootIs
    <3>3. K = 10 /\ L \in Nat
      BY <3>2
    <3>4. Off(u, b) + 10 <= Len(all)
      BY <1>10, <1>11, <3>1, <3>3
    <3>5. \A k \in 1 .. 10 : all[L + k] = meet[k] /\ meet[k] = Sum!Await(ts_Parent[u])[k]
      BY <1>4, <1>13, <3>2, <3>3
    <3> HIDE DEF L, K
    <3> QED
      BY <3>1, <3>4, <3>5
  <2> QED
    BY <2>1, <2>2
<1>17. ASSUME NEW k \in 1 .. Len(all)
       PROVE  \/ \E b \in Sum!Nodes : Arrives(u, b) /\ k - Off(u, b) \in 1 .. 10
              \/ k = Adding(u)
              \/ k = Signalling(u) /\ all[k] = Sum!Step("signal", 0)
              \/ Plain(all[k])
  <2>1. CASE k <= L
    <3>1. k \in 1 .. L /\ all[k] = up[k]
      BY <1>12, <2>1
    <3>2. CASE Inner(u) /\ k <= 10
      <4>1. Arrives(u, u) /\ Off(u, u) = 0
        BY <3>2 DEF Arrives, Off
      <4> QED
        BY <3>1, <3>2, <4>1
    <3> QED
      BY <1>3, <3>1, <3>2
  <2>2. CASE k > L /\ k <= L + K
    <3>1. u # Sum!Root
      BY <2>2
    <3>2. ts_Parent[u] \in Sum!Nodes /\ Arrives(u, ts_Parent[u])
      BY <3>1, RootIs DEF Arrives
    <3>3. Off(u, ts_Parent[u]) = L
      <4>1. u \notin Sum!Children(u)
        BY ChildrenFinite
      <4> QED
        BY <4>1 DEF Off, Sum!Children
    <3> QED
      BY <2>2, <3>2, <3>3
  <2>3. CASE k > L + K
    <3>1. L + K \in Nat /\ k - (L + K) \in 1 .. M /\ k = L + K + (k - (L + K))
      BY <1>10, <1>11, <2>3
    <3>2. all[k] = rest[k - (L + K)]
      <4> HIDE DEF L, K
      <4> QED
        BY <1>10, <3>1
    <3>3. k - (L + K) = T + 3 => k = Signalling(u)
      <4>1. Signalling(u) = L + K + T + 3 /\ T \in Nat
        BY DEF Signalling
      <4> HIDE DEF L, K, T
      <4> QED
        BY <3>1, <4>1
    <3> HIDE DEF L, K, T
    <3> QED
      BY <1>8, <3>1, <3>2, <3>3 DEF M
  <2> QED
    BY <2>1, <2>2, <2>3
<1> QED
  BY <1>2, <1>10, <1>15, <1>16, <1>17 DEF NodeCode

\* The steps with which the leader waits for the nodes and prints the sum.
Joining == 5 * num_nodes + 5
Printing == 5 * num_nodes + 14

\* The program of the leader: it starts with the reset of a call, creates node v with its
\* step 5v + 3, waits for the nodes and prints, and all else is plain.
LeaderStep(k, r) ==
    /\ k = Joining => r = Sum!Step("P", -2)
    /\ \/ \E v \in Sum!Nodes : k = 5 * v + 3 /\ r = Sum!Step("clone", v)
       \/ k = Joining
       \/ k = Printing /\ r = Sum!Step("print", Sum!Root)
       \/ Plain(r)

LeaderCode(cc) ==
    /\ cc \in Seq(Rec) /\ Len(cc) > 0 /\ cc[1] = Sum!Step("reset", 0)
    /\ \A k \in 1 .. Len(cc) : LeaderStep(k, cc[k])

\* The five steps of foothread_create.
LEMMA CreateSteps ==
  ASSUME NEW v \in Nat
  PROVE  /\ Sum!Create(v)[1] = Sum!Step("reset", 0)
         /\ Sum!Create(v)[3] = Sum!Step("clone", v)
         /\ \A k \in 1 .. 5 : Sum!Create(v)[k] \in Rec /\ (k # 3 => Plain(Sum!Create(v)[k]))
<1>1. /\ Sum!Create(v)[1] = Sum!Step("reset", 0)
      /\ Sum!Create(v)[2] = Sum!Step("P", Sum!Table)
      /\ Sum!Create(v)[3] = Sum!Step("clone", v)
      /\ Sum!Create(v)[4] = Sum!Step("enter", v)
      /\ Sum!Create(v)[5] = Sum!Step("V", Sum!Table)
  BY DEF Sum!Create
<1>2. /\ Plain(Sum!Step("reset", 0)) /\ Plain(Sum!Step("P", Sum!Table))
      /\ Plain(Sum!Step("enter", v)) /\ Plain(Sum!Step("V", Sum!Table))
  BY DEF Plain, Sum!Step, Sum!Table
<1>3. /\ Sum!Step("reset", 0) \in Rec /\ Sum!Step("P", Sum!Table) \in Rec
      /\ Sum!Step("clone", v) \in Rec
      /\ Sum!Step("enter", v) \in Rec /\ Sum!Step("V", Sum!Table) \in Rec
  BY DEF Rec, Ops, Sum!Step, Sum!Table
<1>4. \A k \in 1 .. 5 : k = 1 \/ k = 2 \/ k = 3 \/ k = 4 \/ k = 5
  OBVIOUS
<1> QED
  BY <1>1, <1>2, <1>3, <1>4

\* A call at the end of the program of the leader leaves its form as it is, if the steps of
\* the call are at their places.
LEMMA LeaderJoined ==
  ASSUME num_nodes \in Nat, NEW ss, NEW rr, LeaderCode(ss), rr \in Seq(Rec),
         \A k \in 1 .. Len(rr) : LeaderStep(Len(ss) + k, rr[k])
  PROVE  LeaderCode(ss \o rr) /\ Len(ss \o rr) = Len(ss) + Len(rr)
<1> DEFINE all == ss \o rr
           M == Len(rr)
           L == Len(ss)
<1>1. ss \in Seq(Rec) /\ rr \in Seq(Rec) /\ L \in Nat /\ M \in Nat /\ L > 0
  BY DEF LeaderCode, PlainCall
<1>2. Joins(all, ss, rr)
  BY <1>1, Joined
<1> HIDE DEF all
<1>3. /\ all \in Seq(Rec) /\ Len(all) = L + M
      /\ \A k \in 1 .. L : all[k] = ss[k]
      /\ \A k \in 1 .. M : all[L + k] = rr[k]
  BY <1>2 DEF Joins
<1> HIDE DEF L, M
<1>4. all[1] = Sum!Step("reset", 0) /\ Len(all) > 0
  BY <1>1, <1>3 DEF LeaderCode
<1>5. ASSUME NEW k \in 1 .. Len(all)
      PROVE  LeaderStep(k, all[k])
  <2>1. CASE k <= L
    <3>1. k \in 1 .. L /\ all[k] = ss[k]
      BY <1>3, <2>1
    <3> QED
      BY <3>1 DEF LeaderCode, L
  <2>2. CASE k > L
    <3>1. k - L \in 1 .. M /\ k = L + (k - L)
      BY <1>1, <1>3, <2>2
    <3>2. all[k] = rr[k - L]
      BY <1>3, <3>1
    <3>3. LeaderStep(L + (k - L), rr[k - L])
      BY <3>1 DEF L, M
    <3> QED
      BY <3>1, <3>2, <3>3
  <2> QED
    BY <1>1, <2>1, <2>2
<1>6. LeaderCode(all)
  BY <1>3, <1>4, <1>5 DEF LeaderCode
<1> QED
  BY <1>3, <1>6 DEF all, L, M

\* The program of the leader is of that form: the threads are created one after the other.
LEMMA LeaderCodeIs ==
  ASSUME Sum!TreeAssumption
  PROVE  LeaderCode(Sum!Code[Sum!Leader])
<1>1. num_nodes \in Nat \ {0} /\ Sum!Root \in Nat /\ Sum!Leader \in Sum!Tids
  <2>1. num_nodes \in Nat \ {0}
    BY DEF Sum!TreeAssumption
  <2>2. Sum!Root \in Sum!Nodes
    BY RootIs
  <2> QED
    BY <2>1, <2>2 DEF Sum!Nodes, Sum!Tids, Sum!Leader
<1> DEFINE make == Sum!Creation
           one == <<Sum!Step("print", Sum!Root)>>
           L == 5 * num_nodes
<1>2. ASSUME NEW k \in 1 .. L
      PROVE  \E v \in Sum!Nodes : k - 5 * v \in 1 .. 5 /\ make[k] = Sum!Create(v)[k - 5 * v]
  <2> DEFINE v == (k - 1) \div 5
  <2>1. v \in Nat /\ 5 * v <= k - 1 /\ k - 1 < 5 * v + 5
    BY <1>1
  <2>2. make[k] = Sum!Create(v)[k - 5 * v]
    BY DEF Sum!Creation
  <2> HIDE DEF v
  <2>3. v \in Sum!Nodes /\ k - 5 * v \in 1 .. 5
    BY <1>1, <2>1 DEF Sum!Nodes
  <2> QED
    BY <2>2, <2>3
<1>3. make \in Seq(Rec) /\ Len(make) = L
  <2>1. \A v \in Sum!Nodes : \A k \in 1 .. 5 : Sum!Create(v)[k] \in Rec
    BY <1>1, CreateSteps DEF Sum!Nodes
  <2>2. \A k \in 1 .. L : make[k] \in Rec
    BY <1>2, <2>1
  <2>3. make = [k \in 1 .. L |-> make[k]]
    BY DEF Sum!Creation
  <2> HIDE DEF make
  <2>4. make \in [1 .. L -> Rec] /\ L \in Nat
    BY <1>1, <2>2, <2>3
  <2> QED
    BY <2>4
<1>4. L \in Nat /\ L >= 5
  BY <1>1
<1> HIDE DEF make, L
<1>5. make[1] = Sum!Step("reset", 0)
  <2>1. PICK v \in Sum!Nodes : 1 - 5 * v \in 1 .. 5 /\ make[1] = Sum!Create(v)[1 - 5 * v]
    BY <1>2, <1>4
  <2>2. v \in Nat /\ v = 0
    BY <1>1, <2>1 DEF Sum!Nodes
  <2> QED
    BY <2>1, <2>2, CreateSteps
<1>6. ASSUME NEW k \in 1 .. L
      PROVE  LeaderStep(k, make[k])
  <2>1. PICK v \in Sum!Nodes : k - 5 * v \in 1 .. 5 /\ make[k] = Sum!Create(v)[k - 5 * v]
    BY <1>2
  <2>2. v \in Nat /\ k \in Nat
    BY <1>1, <1>4 DEF Sum!Nodes
  <2>3. k # Joining
    BY <1>1 DEF Joining, L
  <2>4. CASE k - 5 * v = 3
    <3>1. k = 5 * v + 3
      BY <2>2, <2>4
    <3>2. make[k] = Sum!Create(v)[3]
      BY <2>1, <2>4
    <3>3. make[k] = Sum!Step("clone", v)
      BY <2>2, <3>2, CreateSteps
    <3> QED
      BY <2>3, <3>1, <3>3 DEF LeaderStep
  <2>5. CASE k - 5 * v # 3
    <3>1. Plain(Sum!Create(v)[k - 5 * v])
      BY <2>1, <2>2, <2>5, CreateSteps
    <3> QED
      BY <2>1, <2>3, <3>1 DEF LeaderStep
  <2> QED
    BY <2>4, <2>5
<1>7. LeaderCode(make)
  BY <1>3, <1>4, <1>5, <1>6 DEF LeaderCode
<1>8. Sum!Code[Sum!Leader] = (((make \o Sum!LeaderExit) \o Sum!Lock) \o one) \o Sum!Unlock
  BY <1>1 DEF Sum!Code, Sum!Main, make
<1> DEFINE mL == make \o Sum!LeaderExit
           mLL == mL \o Sum!Lock
           mLLo == mLL \o one
<1>9. /\ Sum!Lock \in Seq(Rec) /\ Len(Sum!Lock) = 4 /\ \A k \in 1 .. 4 : Plain(Sum!Lock[k])
      /\ Sum!Unlock \in Seq(Rec) /\ Len(Sum!Unlock) = 6 /\ \A k \in 1 .. 6 : Plain(Sum!Unlock[k])
      /\ Sum!LeaderExit \in Seq(Rec) /\ Len(Sum!LeaderExit) = 9
      /\ Sum!LeaderExit[5] = Sum!Step("P", -2)
      /\ \A k \in 1 .. 9 : k # 5 => Plain(Sum!LeaderExit[k])
  BY <1>1, PlainCalls, ExitSteps DEF PlainCall
<1>10. one \in Seq(Rec) /\ Len(one) = 1 /\ one[1] = Sum!Step("print", Sum!Root)
  <2>1. Sum!Step("print", Sum!Root) \in Rec
    BY <1>1 DEF Sum!Step, Rec, Ops
  <2> QED
    BY <2>1
<1> HIDE DEF one, mL, mLL, mLLo
<1>11. Joining = L + 5 /\ Printing = L + 14 /\ num_nodes \in Nat
  BY <1>1 DEF L, Joining, Printing
<1>12. LeaderCode(mL) /\ Len(mL) = L + 9
  <2>1. ASSUME NEW k \in 1 .. 9 PROVE LeaderStep(L + k, Sum!LeaderExit[k])
    <3>1. CASE k = 5
      BY <1>9, <1>11, <3>1 DEF LeaderStep
    <3>2. CASE k # 5
      <4>1. L + k # Joining
        BY <1>4, <1>11, <3>2
      <4> QED
        BY <1>9, <3>2, <4>1 DEF LeaderStep
    <3> QED
      BY <3>1, <3>2
  <2> QED
    BY <1>3, <1>7, <1>9, <1>11, <2>1, LeaderJoined DEF mL
<1>13. LeaderCode(mLL) /\ Len(mLL) = L + 13
  <2>1. ASSUME NEW k \in 1 .. 4 PROVE LeaderStep(L + 9 + k, Sum!Lock[k])
    <3>1. L + 9 + k # Joining
      BY <1>4, <1>11
    <3> QED
      BY <1>9, <3>1 DEF LeaderStep
  <2>2. L + 9 + 4 = L + 13
    BY <1>4
  <2> QED
    BY <1>9, <1>11, <1>12, <2>1, <2>2, LeaderJoined DEF mLL
<1>14. LeaderCode(mLLo) /\ Len(mLLo) = L + 14
  <2>1. ASSUME NEW k \in 1 .. 1 PROVE LeaderStep(L + 13 + k, one[k])
    <3>1. k = 1 /\ L + 13 + k = Printing /\ L + 13 + k # Joining
      BY <1>4, <1>11
    <3> QED
      BY <1>10, <3>1 DEF LeaderStep
  <2>2. L + 13 + 1 = L + 14
    BY <1>4
  <2> QED
    BY <1>10, <1>11, <1>13, <2>1, <2>2, LeaderJoined DEF mLLo
<1>15. LeaderCode(mLLo \o Sum!Unlock)
  <2>1. ASSUME NEW k \in 1 .. 6 PROVE LeaderStep(L + 14 + k, Sum!Unlock[k])
    <3>1. L + 14 + k # Joining
      BY <1>4, <1>11
    <3> QED
      BY <1>9, <3>1 DEF LeaderStep
  <2> QED
    BY <1>9, <1>11, <1>14, <2>1, LeaderJoined
<1> QED
  BY <1>8, <1>15 DEF mL, mLL, mLLo

\* Where in the program of thread u the steps of each kind are: with cc its program, and
\* k the place of a step.
OpIs(u, cc, k) ==
    /\ cc[k].op = "load" => Arrives(u, cc[k].what) /\ k = Off(u, cc[k].what) + 3
    /\ cc[k].op = "store" => Arrives(u, cc[k].what) /\ k = Off(u, cc[k].what) + 4
    /\ cc[k].op = "test" => Arrives(u, cc[k].what) /\ k = Off(u, cc[k].what) + 5
    /\ cc[k].op = "count" => Arrives(u, cc[k].what) /\ k = Off(u, cc[k].what) + 7
    /\ cc[k].op = "post" => Arrives(u, cc[k].what) /\ k = Off(u, cc[k].what) + 8
    /\ cc[k].op = "zero" => Arrives(u, cc[k].what) /\ k = Off(u, cc[k].what) + 9
    /\ cc[k].op = "P" =>
          \/ cc[k].what \in {-1, -3, -4}
          \/ cc[k].what = -2 /\ u = Sum!Leader /\ k = Joining
          \/ Arrives(u, cc[k].what) /\ k = Off(u, cc[k].what) + 10
    /\ cc[k].op = "V" => cc[k].what \in {-1, -3, -4}
    /\ cc[k].op = "signal" => u \in Sum!Nodes /\ k = Signalling(u)
    /\ cc[k].op = "print" => u = Sum!Leader /\ k = Printing /\ cc[k].what = Sum!Root
    /\ cc[k].op = "clone" =>
          u = Sum!Leader /\ cc[k].what \in Sum!Nodes /\ k = 5 * cc[k].what + 3
    /\ cc[k].op \in {"leaf", "add"} => u \in Sum!Nodes /\ k = Adding(u)
    /\ cc[k].op = "pop" => cc[k].what \in {-1, -num_nodes}

\* The steps of every program are where OpIs says.
LEMMA OpsAre ==
  ASSUME Sum!TreeAssumption, NEW u \in Sum!Tids, NEW k \in 1 .. Len(Sum!Code[u])
  PROVE  OpIs(u, Sum!Code[u], k)
<1> DEFINE cc == Sum!Code[u]
<1>0. num_nodes \in Nat
  BY DEF Sum!TreeAssumption
<1>1. Plain(cc[k]) => OpIs(u, cc, k)
  <2> HIDE DEF cc
  <2> QED
    BY DEF Plain, OpIs
<1>2. CASE u = Sum!Leader
  <2>1. LeaderCode(cc)
    BY <1>2, LeaderCodeIs
  <2> HIDE DEF cc
  <2>2. \/ \E v \in Sum!Nodes : k = 5 * v + 3 /\ cc[k] = Sum!Step("clone", v)
        \/ k = Joining /\ cc[k] = Sum!Step("P", -2)
        \/ k = Printing /\ cc[k] = Sum!Step("print", Sum!Root)
        \/ Plain(cc[k])
    BY <2>1 DEF LeaderCode, LeaderStep, cc
  <2>3. ASSUME NEW v \in Sum!Nodes, k = 5 * v + 3, cc[k] = Sum!Step("clone", v)
        PROVE  OpIs(u, cc, k)
    <3>1. cc[k].op = "clone" /\ cc[k].what = v
      BY <2>3 DEF Sum!Step
    <3> QED
      BY <1>2, <2>3, <3>1 DEF OpIs
  <2>4. ASSUME k = Joining, cc[k] = Sum!Step("P", -2) PROVE OpIs(u, cc, k)
    <3>1. cc[k].op = "P" /\ cc[k].what = -2
      BY <2>4 DEF Sum!Step
    <3> QED
      BY <1>2, <2>4, <3>1 DEF OpIs
  <2>5. ASSUME k = Printing, cc[k] = Sum!Step("print", Sum!Root) PROVE OpIs(u, cc, k)
    <3>1. cc[k].op = "print" /\ cc[k].what = Sum!Root
      BY <2>5 DEF Sum!Step
    <3> QED
      BY <1>2, <2>5, <3>1 DEF OpIs
  <2> QED
    BY <1>1, <2>2, <2>3, <2>4, <2>5 DEF cc
<1>3. CASE u # Sum!Leader
  <2>1. u \in Sum!Nodes
    BY <1>0, <1>3 DEF Sum!Tids, Sum!Nodes, Sum!Leader
  <2>2. NodeCode(u, cc)
    BY <2>1, NodeCodeIs
  <2>3. ASSUME NEW b \in Sum!Nodes, Arrives(u, b), k - Off(u, b) \in 1 .. 10
        PROVE  OpIs(u, cc, k)
    <3> DEFINE j == k - Off(u, b)
    <3>1. j \in 1 .. 10 /\ k = Off(u, b) + j
      BY <2>3 DEF Off
    <3>2. cc[k] = Sum!Await(b)[j]
      <4>1. \A j_1 \in 1 .. 10 : cc[Off(u, b) + j_1] = Sum!Await(b)[j_1]
        BY <2>2, <2>3 DEF NodeCode
      <4> HIDE DEF j
      <4> QED
        BY <3>1, <4>1
    <3> HIDE DEF cc, j
    <3>3. b \in Int
      BY <1>0 DEF Sum!Nodes
    <3>4. j = 1 \/ j = 2 \/ j = 3 \/ j = 4 \/ j = 5 \/ j = 6 \/ j = 7 \/ j = 8 \/ j = 9 \/ j = 10
      BY <3>1
    <3>5. \/ cc[k].op = "reset"
          \/ cc[k].op = "P" /\ cc[k].what = -4
          \/ cc[k].op = "load" /\ cc[k].what = b /\ k = Off(u, b) + 3
          \/ cc[k].op = "store" /\ cc[k].what = b /\ k = Off(u, b) + 4
          \/ cc[k].op = "test" /\ cc[k].what = b /\ k = Off(u, b) + 5
          \/ cc[k].op = "V" /\ cc[k].what = -4
          \/ cc[k].op = "count" /\ cc[k].what = b /\ k = Off(u, b) + 7
          \/ cc[k].op = "post" /\ cc[k].what = b /\ k = Off(u, b) + 8
          \/ cc[k].op = "zero" /\ cc[k].what = b /\ k = Off(u, b) + 9
          \/ cc[k].op = "P" /\ cc[k].what = b /\ k = Off(u, b) + 10
      <4>1. \/ cc[k] = Sum!Step("reset", 0)
            \/ cc[k] = Sum!Step("P", -4)
            \/ cc[k] = Sum!Step("load", b) /\ j = 3
            \/ cc[k] = Sum!Step("store", b) /\ j = 4
            \/ cc[k] = Sum!Step("test", b) /\ j = 5
            \/ cc[k] = Sum!Step("V", -4)
            \/ cc[k] = Sum!Step("count", b) /\ j = 7
            \/ cc[k] = Sum!Step("post", b) /\ j = 8
            \/ cc[k] = Sum!Step("zero", b) /\ j = 9
            \/ cc[k] = Sum!Step("P", b) /\ j = 10
        BY <3>2, <3>3, <3>4, AwaitSteps
      <4> QED
        BY <3>1, <4>1 DEF Sum!Step
    <3> QED
      BY <2>3, <3>5 DEF OpIs, cc
  <2>4. ASSUME k = Adding(u) PROVE OpIs(u, cc, k)
    <3>1. cc[k] = Sum!Step(IF Inner(u) THEN "add" ELSE "leaf", u)
      BY <2>2, <2>4 DEF NodeCode
    <3> HIDE DEF cc
    <3>2. cc[k].op \in {"add", "leaf"}
      BY <3>1 DEF Sum!Step
    <3> QED
      BY <2>1, <2>4, <3>2 DEF OpIs, cc
  <2>5. ASSUME k = Signalling(u), cc[k] = Sum!Step("signal", 0) PROVE OpIs(u, cc, k)
    <3> HIDE DEF cc
    <3>1. cc[k].op = "signal"
      BY <2>5 DEF Sum!Step
    <3> QED
      BY <2>1, <2>5, <3>1 DEF OpIs, cc
  <2> QED
    BY <1>1, <2>2, <2>3, <2>4, <2>5 DEF NodeCode
<1> QED
  BY <1>2, <1>3

\* And what the steps at these places are.
LEMMA OpsAt ==
  ASSUME Sum!TreeAssumption, NEW u \in Sum!Nodes, NEW b \in Sum!Nodes, Arrives(u, b)
  PROVE  /\ Off(u, b) \in {0, 1, 21} /\ Off(u, b) + 10 <= Len(Sum!Code[u])
         /\ Sum!Code[u][Off(u, b) + 3].op = "load" /\ Sum!Code[u][Off(u, b) + 3].what = b
         /\ Sum!Code[u][Off(u, b) + 5].op = "test" /\ Sum!Code[u][Off(u, b) + 5].what = b
         /\ Sum!Code[u][Off(u, b) + 6].op = "V"
         /\ Sum!Code[u][Off(u, b) + 7].op = "count"
         /\ Sum!Code[u][Off(u, b) + 10].op = "P" /\ Sum!Code[u][Off(u, b) + 10].what = b
<1> DEFINE cc == Sum!Code[u]
<1>1. b \in Int
  BY DEF Sum!Nodes, Sum!TreeAssumption
<1>2. Off(u, b) \in {0, 1, 21}
  BY DEF Off
<1>3. NodeCode(u, cc)
  BY NodeCodeIs
<1> HIDE DEF cc
<1>4. Off(u, b) + 10 <= Len(cc) /\ \A k \in 1 .. 10 : cc[Off(u, b) + k] = Sum!Await(b)[k]
  BY <1>3 DEF NodeCode
<1>5. /\ cc[Off(u, b) + 3] = Sum!Await(b)[3] /\ cc[Off(u, b) + 5] = Sum!Await(b)[5]
      /\ cc[Off(u, b) + 6] = Sum!Await(b)[6]
      /\ cc[Off(u, b) + 7] = Sum!Await(b)[7] /\ cc[Off(u, b) + 10] = Sum!Await(b)[10]
  BY <1>4
<1>6. /\ cc[Off(u, b) + 3] = Sum!Step("load", b) /\ cc[Off(u, b) + 5] = Sum!Step("test", b)
      /\ cc[Off(u, b) + 6] = Sum!Step("V", -4) /\ cc[Off(u, b) + 7] = Sum!Step("count", b)
      /\ cc[Off(u, b) + 10] = Sum!Step("P", b)
  BY <1>1, <1>5, AwaitSteps
<1>7. /\ Sum!Step("load", b).op = "load" /\ Sum!Step("load", b).what = b
      /\ Sum!Step("test", b).op = "test" /\ Sum!Step("test", b).what = b
      /\ Sum!Step("V", -4).op = "V" /\ Sum!Step("count", b).op = "count"
      /\ Sum!Step("P", b).op = "P" /\ Sum!Step("P", b).what = b
  BY DEF Sum!Step
<1> QED
  BY <1>2, <1>4, <1>6, <1>7 DEF cc

\* The step that stores the sum of a node is the one at Adding.
LEMMA AddingAt ==
  ASSUME Sum!TreeAssumption, NEW u \in Sum!Nodes
  PROVE  /\ Adding(u) \in 1 .. Len(Sum!Code[u]) /\ Len(Sum!Code[u]) \in Nat
         /\ Sum!Code[u][Adding(u)].op = IF Inner(u) THEN "add" ELSE "leaf"
<1>1. NodeCode(u, Sum!Code[u])
  BY NodeCodeIs
<1>2. /\ Adding(u) <= Len(Sum!Code[u]) /\ Len(Sum!Code[u]) \in Nat
      /\ Sum!Code[u][Adding(u)] = Sum!Step(IF Inner(u) THEN "add" ELSE "leaf", u)
  BY <1>1 DEF NodeCode
<1>3. Adding(u) \in {1, 15}
  BY DEF Adding
<1> QED
  BY <1>2, <1>3 DEF Sum!Step

-----------------------------------------------------------------------------

\* Those who come to the barrier of b, and those of them who have raised reached, when p
\* has the places of the threads.
Arrivers(b) == Sum!Children(b) \cup {b}
Stored(p, b) == {u \in Arrivers(b) : p[u] > Off(u, b) + 4}
Full(p, b) == \A u \in Arrivers(b) : p[u] > Off(u, b) + 4

\* The count of a barrier is how many come to it.
LEMMA Arrivals ==
  ASSUME Sum!TreeAssumption, NEW b \in Sum!Nodes
  PROVE  /\ IsFiniteSet(Arrivers(b)) /\ Cardinality(Arrivers(b)) = Sum!BarrierCount(b)
         /\ Sum!BarrierCount(b) \in Nat /\ Sum!BarrierCount(b) > 0
         /\ Arrivers(b) \subseteq Sum!Nodes
         /\ \A u \in Sum!Nodes : Arrives(u, b) => u \in Arrivers(b) /\ Inner(b)
         /\ Inner(b) => \A u \in Arrivers(b) : Arrives(u, b)
<1>1. /\ IsFiniteSet(Sum!Children(b)) /\ b \notin Sum!Children(b)
      /\ Sum!Children(b) \subseteq Sum!Nodes
  BY ChildrenFinite
<1>2. /\ IsFiniteSet(Arrivers(b)) /\ Cardinality(Arrivers(b)) = Cardinality(Sum!Children(b)) + 1
      /\ Cardinality(Sum!Children(b)) \in Nat
  BY <1>1, FS_AddElement, FS_CardinalityType DEF Arrivers
<1>3. Sum!Cardinality(Sum!Children(b)) = Cardinality(Sum!Children(b))
  BY DEF Sum!Cardinality, Cardinality
<1>4. \A u \in Sum!Nodes : Arrives(u, b) => u \in Arrivers(b) /\ Inner(b)
  BY DEF Arrives, Arrivers, Inner, Sum!Children
<1>5. Inner(b) => \A u \in Arrivers(b) : Arrives(u, b)
  BY <1>1 DEF Arrives, Arrivers, Inner, Sum!Children
<1> QED
  BY <1>1, <1>2, <1>3, <1>4, <1>5 DEF Sum!BarrierCount, Arrivers

\* Those who have stored can be counted.
LEMMA StoredFinite ==
  ASSUME Sum!TreeAssumption, NEW b \in Sum!Nodes, NEW p
  PROVE  IsFiniteSet(Stored(p, b)) /\ Cardinality(Stored(p, b)) \in Nat
<1>1. IsFiniteSet(Arrivers(b)) /\ Stored(p, b) \subseteq Arrivers(b)
  BY Arrivals DEF Stored
<1> QED
  BY <1>1, FS_Subset, FS_CardinalityType

\* When as many have stored as there are, all have.
LEMMA AllStored ==
  ASSUME Sum!TreeAssumption, NEW b \in Sum!Nodes, NEW p,
         Cardinality(Stored(p, b)) >= Sum!BarrierCount(b)
  PROVE  Full(p, b)
<1>1. /\ IsFiniteSet(Arrivers(b)) /\ Stored(p, b) \subseteq Arrivers(b)
      /\ Cardinality(Arrivers(b)) = Sum!BarrierCount(b) /\ Sum!BarrierCount(b) \in Nat
  BY Arrivals DEF Stored
<1>2. Cardinality(Stored(p, b)) \in Nat /\ Cardinality(Stored(p, b)) <= Cardinality(Arrivers(b))
  BY <1>1, StoredFinite, FS_Subset
<1>3. Cardinality(Stored(p, b)) = Cardinality(Arrivers(b))
  BY <1>1, <1>2
<1>4. Stored(p, b) = Arrivers(b)
  BY <1>1, <1>3, FS_Subset
<1> QED
  BY <1>4 DEF Stored, Full

\* Nobody goes back in the program.
Forward(p, q) == \A u \in Sum!Nodes : p[u] \in Nat /\ q[u] \in Nat /\ p[u] <= q[u]

\* Who has stored has done so for good.
LEMMA StoredGrows ==
  ASSUME Sum!TreeAssumption, NEW b \in Sum!Nodes, NEW p, NEW q, Forward(p, q)
  PROVE  /\ Cardinality(Stored(p, b)) <= Cardinality(Stored(q, b))
         /\ Full(p, b) => Full(q, b)
<1>1. Arrivers(b) \subseteq Sum!Nodes
  BY Arrivals
<1>2. \A u \in Arrivers(b) : Off(u, b) \in Nat
  BY DEF Off
<1>3. Stored(p, b) \subseteq Stored(q, b)
  BY <1>1, <1>2 DEF Forward, Stored
<1>4. Full(p, b) => Full(q, b)
  BY <1>1, <1>2 DEF Forward, Full
<1> QED
  BY <1>3, <1>4, StoredFinite, FS_Subset

\* A store adds one to those who have stored.
LEMMA StoredAdds ==
  ASSUME Sum!TreeAssumption, NEW b \in Sum!Nodes, NEW p, NEW q, Forward(p, q),
         NEW u \in Arrivers(b), p[u] = Off(u, b) + 4, q[u] = Off(u, b) + 5
  PROVE  Cardinality(Stored(p, b)) + 1 <= Cardinality(Stored(q, b))
<1>1. Arrivers(b) \subseteq Sum!Nodes
  BY Arrivals
<1>2. \A v \in Arrivers(b) : Off(v, b) \in Nat
  BY DEF Off
<1>3. Stored(p, b) \cup {u} \subseteq Stored(q, b) /\ u \notin Stored(p, b)
  BY <1>1, <1>2 DEF Forward, Stored
<1>4. Cardinality(Stored(p, b) \cup {u}) = Cardinality(Stored(p, b)) + 1
  BY <1>3, StoredFinite, FS_AddElement
<1>5. IsFiniteSet(Stored(q, b))
  BY StoredFinite
<1>6. Cardinality(Stored(p, b) \cup {u}) <= Cardinality(Stored(q, b))
  BY <1>3, <1>5, FS_Subset
<1> QED
  BY <1>4, <1>6

\* The types; nobody has moved as long as pop is 0.
TsTypes ==
    /\ ts_at \in [Sum!Tids -> Nat] /\ ts_reg \in [Sum!Tids -> Nat]
    /\ ts_reached \in [Sum!Nodes -> Nat] /\ sem \in [Sum!Semaphores -> Nat]
    /\ want \in [Sum!Tids -> {0, -1, -num_nodes}] /\ pop \in {0, -1, -num_nodes}
    /\ ts_vop \in {0, 1} \cup {Sum!BarrierCount(k) : k \in Sum!Nodes}
    /\ pop = 0 => ts_at[Sum!Leader] = 1 /\ \A k \in Sum!Nodes : ts_at[k] = 0

\* Who sleeps does so in a wait; nobody is behind the end of the program.
Asleep ==
    \A u \in Sum!Tids :
       /\ want[u] # 0 => ts_at[u] \in 1 .. Len(Sum!Code[u]) /\ Sum!Code[u][ts_at[u]].op = "P"
       /\ ts_at[u] <= Len(Sum!Code[u]) + 1

\* A node has not started until the leader has created it.
Created == \A k \in Sum!Nodes : ts_at[Sum!Leader] <= 5 * k + 3 => ts_at[k] = 0

\* reached, and what a thread has loaded of it, is never more than those who have stored,
\* and who has found it at the count knows that all have.
ArrivalAt(u, b, k, x, p) ==
    /\ k = Off(u, b) + 4 => x <= Cardinality(Stored(p, b))
    /\ k \in {Off(u, b) + 6, Off(u, b) + 7} => x = 0 \/ (x = Sum!BarrierCount(b) /\ Full(p, b))
    /\ k = Off(u, b) + 8 => x = Sum!BarrierCount(b) /\ Full(p, b)

Counting ==
    /\ \A b \in Sum!Nodes : Inner(b) => ts_reached[b] <= Cardinality(Stored(ts_at, b))
    /\ \A u, b \in Sum!Nodes :
          Arrives(u, b) => ArrivalAt(u, b, ts_at[u], ts_reg[u], ts_at)

\* A barrier is open, and a node is past its own, only when all have stored.
Opened ==
    \A b \in Sum!Nodes : Inner(b) /\ (sem[b] # 0 \/ ts_at[b] > 10) => Full(ts_at, b)

\* The sums of those who are past their own sum.
Sums == sum = [k \in Sum!Nodes |-> IF ts_at[k] > Adding(k) THEN Sum!Total[k] ELSE 0]

-----------------------------------------------------------------------------

\* A step of thread w: it falls asleep, or is done with step r of its program.
Sleeps(w, r) ==
    /\ r.op = "P" /\ want' = [want EXCEPT ![w] = pop]
    /\ UNCHANGED <<ts_at, ts_reg, ts_reached, sum, sem>>

Moves(w, r) ==
    /\ want' = [want EXCEPT ![w] = 0]
    /\ ts_at' = IF r.op = "clone" THEN [ts_at EXCEPT ![w] = @ + 1, ![r.what] = 1]
                ELSE [ts_at EXCEPT ![w] = @ + (IF r.op = "count" /\ ts_reg[w] = 0 THEN 3 ELSE 1)]
    /\ ts_reg' = IF r.op = "load" THEN [ts_reg EXCEPT ![w] = ts_reached[r.what]]
                 ELSE IF r.op = "test"
                 THEN [ts_reg EXCEPT ![w] = IF ts_reached[r.what] = Sum!BarrierCount(r.what)
                                            THEN Sum!BarrierCount(r.what) ELSE 0]
                 ELSE ts_reg
    /\ ts_reached' = IF r.op = "store" THEN [ts_reached EXCEPT ![r.what] = ts_reg[w] + 1]
                     ELSE IF r.op = "zero" THEN [ts_reached EXCEPT ![r.what] = 0]
                     ELSE ts_reached
    /\ sum' = IF r.op = "leaf" THEN [sum EXCEPT ![w] = Value[w]]
              ELSE IF r.op = "add" THEN [sum EXCEPT ![w] = Value[w] + SumOn(sum, Sum!Children(w))]
              ELSE sum
    /\ \A b \in Sum!Nodes : sem'[b] # 0 => sem[b] # 0 \/ (r.op = "post" /\ r.what = b)
    /\ r.op = "P" /\ r.what \in Sum!Nodes => sem[r.what] # 0

StepOf(w, r) ==
    /\ ts_at[w] \in 1 .. Len(Sum!Code[w]) /\ r = Sum!Code[w][ts_at[w]]
    /\ Sleeps(w, r) \/ Moves(w, r)

\* While pop is 0 only the leader can move, and not with a wait.
LEMMA PopSet ==
  ASSUME Sum!TreeAssumption, TsTypes, NEW w \in Sum!Tids,
         ts_at[w] \in 1 .. Len(Sum!Code[w]), Sum!Code[w][ts_at[w]].op # "reset"
  PROVE  pop # 0
<1>1. LeaderCode(Sum!Code[Sum!Leader])
  BY LeaderCodeIs
<1>2. Sum!Code[Sum!Leader][1].op = "reset"
  BY <1>1 DEF LeaderCode, Sum!Step
<1>3. w = Sum!Leader \/ w \in Sum!Nodes
  BY DEF Sum!Tids, Sum!Nodes, Sum!Leader, Sum!TreeAssumption
<1> QED
  BY <1>2, <1>3 DEF TsTypes

\* Nodes are numbers, and among the semaphores.
LEMMA NodesAre ==
  ASSUME Sum!TreeAssumption
  PROVE  /\ num_nodes \in Nat \ {0} /\ Sum!Nodes = 0 .. num_nodes - 1 /\ Sum!Tids = 0 .. num_nodes
         /\ Sum!Leader = num_nodes /\ Sum!Nodes \subseteq Sum!Semaphores
         /\ Sum!Nodes \subseteq Sum!Tids /\ Sum!Leader \notin Sum!Nodes
         /\ {-1, -2, -3, -4} \subseteq Sum!Semaphores
         /\ \A u \in Sum!Tids : u \in Sum!Nodes \/ u = Sum!Leader
BY DEF Sum!TreeAssumption, Sum!Nodes, Sum!Tids, Sum!Leader, Sum!Semaphores, Sum!Table,
       Sum!Joined, Sum!Mutex, Sum!Arrival

\* Every action of a thread is such a step.
LEMMA StepIsOne ==
  ASSUME Sum!TreeAssumption, TsTypes, Asleep, NEW w \in Sum!Tids, Sum!Thread(w)
  PROVE  StepOf(w, Sum!Now(w))
<1> DEFINE r == Sum!Now(w)
<1>0. /\ ts_at[w] \in Nat /\ ts_at \in [Sum!Tids -> Nat] /\ want \in [Sum!Tids -> {0, -1, -num_nodes}]
      /\ sem \in [Sum!Semaphores -> Nat] /\ num_nodes \in Nat /\ want[w] <= 0 /\ pop \in Int
      /\ pop <= 0 /\ ts_reg \in [Sum!Tids -> Nat] /\ want[w] \in Int
  <2>1. num_nodes \in Nat
    BY NodesAre
  <2>2. /\ ts_at \in [Sum!Tids -> Nat] /\ want \in [Sum!Tids -> {0, -1, -num_nodes}]
        /\ sem \in [Sum!Semaphores -> Nat] /\ pop \in {0, -1, -num_nodes}
        /\ ts_reg \in [Sum!Tids -> Nat]
    BY DEF TsTypes
  <2>3. want[w] \in {0, -1, -num_nodes} /\ ts_at[w] \in Nat
    BY <2>2
  <2>4. \A x \in {0, -1, -num_nodes} : x \in Int /\ x <= 0
    BY <2>1
  <2> QED
    BY <2>1, <2>2, <2>3, <2>4
<1>1. /\ Sum!Nodes \subseteq Sum!Semaphores /\ \A b \in Sum!Nodes : sem[b] \in Nat /\ b >= 0
  BY <1>0, NodesAre
<1>2. ts_at[w] \in 1 .. Len(Sum!Code[w]) => OpIs(w, Sum!Code[w], ts_at[w])
  BY OpsAre
<1>3. r = Sum!Code[w][ts_at[w]]
  BY DEF Sum!Now
<1>4. ASSUME NEW o, Sum!Does(w, o)
      PROVE  r.op = o /\ ts_at[w] \in 1 .. Len(Sum!Code[w]) /\ want[w] = 0 /\ want = [want EXCEPT ![w] = 0]
  BY <1>0, <1>4 DEF Sum!Does, Sum!Now
<1>5. \A s_1 : (sem' = [sem EXCEPT ![s_1] = @ + ts_vop]) /\ s_1 \notin Sum!Nodes =>
                \A b \in Sum!Nodes : sem'[b] = sem[b]
  BY <1>0, <1>1
<1>5a. ASSUME NEW s_1, NEW d \in Int, d < 0, sem' = [sem EXCEPT ![s_1] = @ + d], sem[s_1] + d >= 0
       PROVE  \A b \in Sum!Nodes : sem'[b] # 0 => sem[b] # 0
  <2> SUFFICES ASSUME NEW b \in Sum!Nodes, sem[b] = 0, sem'[b] # 0 PROVE FALSE
    OBVIOUS
  <2>1. b \in DOMAIN sem
    BY <1>0, <1>1
  <2>2. CASE b = s_1
    BY <1>5a, <2>2
  <2>3. CASE b # s_1
    BY <1>5a, <2>1, <2>3
  <2> QED
    BY <2>2, <2>3
<1> HIDE DEF r
<1> SUFFICES ts_at[w] \in 1 .. Len(Sum!Code[w]) /\ (Sleeps(w, r) \/ Moves(w, r))
  BY <1>3 DEF StepOf, r
<1>6. ASSUME Sum!Skip(w, 0) PROVE ts_at' = [ts_at EXCEPT ![w] = @ + 1]
  <2>1. ts_at' = [ts_at EXCEPT ![w] = ts_at[w] + 1 + 0]
    BY <1>6 DEF Sum!Skip
  <2>2. ts_at[w] + 1 + 0 = ts_at[w] + 1
    BY <1>0
  <2> QED
    BY <2>1, <2>2
<1>7. CASE Sum!Reset(w)
  <2>1. r.op = "reset" /\ ts_at[w] \in 1 .. Len(Sum!Code[w]) /\ want = [want EXCEPT ![w] = 0]
    BY <1>4, <1>7 DEF Sum!Reset
  <2> QED
    BY <1>6, <1>7, <2>1 DEF Sum!Reset, Moves
<1>8. CASE Sum!SetPop(w)
  <2>1. r.op = "pop" /\ ts_at[w] \in 1 .. Len(Sum!Code[w]) /\ want = [want EXCEPT ![w] = 0]
    BY <1>4, <1>8 DEF Sum!SetPop
  <2> QED
    BY <1>6, <1>8, <2>1 DEF Sum!SetPop, Moves
<1>9. CASE Sum!Down(w)
  <2>1. /\ r.op = "P" /\ ts_at[w] \in 1 .. Len(Sum!Code[w]) /\ want = [want EXCEPT ![w] = 0]
        /\ UNCHANGED <<ts_reg, ts_reached, sum>>
    BY <1>4, <1>9 DEF Sum!Down
  <2>2. pop < 0
    BY <1>0, <1>3, <2>1, PopSet
  <2>3. CASE sem[r.what] + pop >= 0
    <3>1. ts_at' = [ts_at EXCEPT ![w] = @ + 1] /\ sem' = [sem EXCEPT ![r.what] = @ + pop] /\ want' = want
      BY <1>6, <1>9, <2>3 DEF Sum!Down, r
    <3>2. \A b \in Sum!Nodes : sem'[b] # 0 => sem[b] # 0
      BY <1>0, <1>5a, <2>2, <2>3, <3>1
    <3>3. r.what \in Sum!Nodes => sem[r.what] # 0
      BY <1>0, <1>1, <2>2, <2>3
    <3> QED
      BY <2>1, <3>1, <3>2, <3>3 DEF Moves
  <2>4. CASE ~(sem[r.what] + pop >= 0)
    <3>1. want' = [want EXCEPT ![w] = pop] /\ UNCHANGED <<ts_at, sem>>
      BY <1>9, <2>4 DEF Sum!Down, r
    <3> QED
      BY <2>1, <3>1 DEF Sleeps
  <2> QED
    BY <2>3, <2>4
<1>10. CASE Sum!Wake(w)
  <2>1. /\ want[w] # 0 /\ sem[r.what] + want[w] >= 0 /\ ts_at' = [ts_at EXCEPT ![w] = @ + 1]
        /\ sem' = [sem EXCEPT ![r.what] = @ + want[w]] /\ want' = [want EXCEPT ![w] = 0]
        /\ UNCHANGED <<ts_reg, ts_reached, sum>>
    BY <1>6, <1>10 DEF Sum!Wake, r
  <2>2. r.op = "P" /\ ts_at[w] \in 1 .. Len(Sum!Code[w]) /\ want[w] < 0 /\ want[w] \in Int
    <3>1. ts_at[w] \in 1 .. Len(Sum!Code[w]) /\ Sum!Code[w][ts_at[w]].op = "P"
      BY <2>1 DEF Asleep
    <3>2. want[w] < 0
      BY <1>0, <2>1
    <3> QED
      BY <1>0, <1>3, <3>1, <3>2
  <2>3. \A b \in Sum!Nodes : sem'[b] # 0 => sem[b] # 0
    BY <1>5a, <2>1, <2>2
  <2>4. r.what \in Sum!Nodes => sem[r.what] # 0
    BY <1>0, <1>1, <2>1, <2>2
  <2> QED
    BY <2>1, <2>2, <2>3, <2>4 DEF Moves
<1>11. CASE Sum!Up(w)
  <2>1. /\ r.op = "V" /\ ts_at[w] \in 1 .. Len(Sum!Code[w]) /\ want = [want EXCEPT ![w] = 0]
        /\ sem' = [sem EXCEPT ![r.what] = @ + ts_vop]
    BY <1>4, <1>11 DEF Sum!Up, Sum!Raise, r
  <2>2. r.what \notin Sum!Nodes
    <3>1. r.what < 0
      BY <1>2, <1>3, <2>1 DEF OpIs
    <3>2. \A b \in Sum!Nodes : b \in Int /\ b >= 0
      BY NodesAre
    <3> QED
      BY <3>1, <3>2
  <2>3. \A b \in Sum!Nodes : sem'[b] = sem[b]
    BY <1>5, <2>1, <2>2
  <2> QED
    BY <1>6, <1>11, <2>1, <2>3 DEF Sum!Up, Moves
<1>12. CASE Sum!SignalLeader(w)
  <2>1. /\ r.op = "signal" /\ ts_at[w] \in 1 .. Len(Sum!Code[w]) /\ want = [want EXCEPT ![w] = 0]
        /\ sem' = [sem EXCEPT ![Sum!Joined] = @ + ts_vop] \/ sem' = sem
    BY <1>4, <1>12 DEF Sum!SignalLeader, Sum!Raise
  <2>2. Sum!Joined \notin Sum!Nodes
    BY <1>1 DEF Sum!Joined
  <2>3. \A b \in Sum!Nodes : sem'[b] = sem[b]
    BY <1>5, <2>1, <2>2
  <2> QED
    BY <1>6, <1>12, <2>1, <2>3 DEF Sum!SignalLeader, Moves
<1>13. CASE Sum!Own(w)
  <2>1. r.op = "own" /\ ts_at[w] \in 1 .. Len(Sum!Code[w]) /\ want = [want EXCEPT ![w] = 0]
    BY <1>4, <1>13 DEF Sum!Own
  <2> QED
    BY <1>6, <1>13, <2>1 DEF Sum!Own, Moves
<1>14. CASE Sum!CheckOwner(w)
  <2>1. r.op = "check" /\ ts_at[w] \in 1 .. Len(Sum!Code[w]) /\ want = [want EXCEPT ![w] = 0]
    BY <1>4, <1>14 DEF Sum!CheckOwner
  <2> QED
    BY <1>6, <1>14, <2>1 DEF Sum!CheckOwner, Moves, Sum!library
<1>15. CASE Sum!Disown(w)
  <2>1. r.op = "disown" /\ ts_at[w] \in 1 .. Len(Sum!Code[w]) /\ want = [want EXCEPT ![w] = 0]
    BY <1>4, <1>15 DEF Sum!Disown
  <2> QED
    BY <1>6, <1>15, <2>1 DEF Sum!Disown, Moves
<1>16. CASE Sum!Load(w)
  <2>1. r.op = "load" /\ ts_at[w] \in 1 .. Len(Sum!Code[w]) /\ want = [want EXCEPT ![w] = 0]
    BY <1>4, <1>16 DEF Sum!Load
  <2>2. ts_reg' = [ts_reg EXCEPT ![w] = ts_reached[r.what]]
    BY <1>16 DEF Sum!Load, r
  <2> QED
    BY <1>6, <1>16, <2>1, <2>2 DEF Sum!Load, Moves, Sum!library
<1>17. CASE Sum!Store(w)
  <2>1. r.op = "store" /\ ts_at[w] \in 1 .. Len(Sum!Code[w]) /\ want = [want EXCEPT ![w] = 0]
    BY <1>4, <1>17 DEF Sum!Store
  <2>2. ts_reached' = [ts_reached EXCEPT ![r.what] = ts_reg[w] + 1]
    BY <1>17 DEF Sum!Store, r
  <2> QED
    BY <1>6, <1>17, <2>1, <2>2 DEF Sum!Store, Moves
<1>18. CASE Sum!Test(w)
  <2>1. r.op = "test" /\ ts_at[w] \in 1 .. Len(Sum!Code[w]) /\ want = [want EXCEPT ![w] = 0]
    BY <1>4, <1>18 DEF Sum!Test
  <2>2. ts_reg' = [ts_reg EXCEPT ![w] = IF ts_reached[r.what] = Sum!BarrierCount(r.what)
                                        THEN Sum!BarrierCount(r.what) ELSE 0]
    BY <1>18 DEF Sum!Test, r
  <2> QED
    BY <1>6, <1>18, <2>1, <2>2 DEF Sum!Test, Moves, Sum!library
<1>19. CASE Sum!SetCount(w)
  <2>1. r.op = "count" /\ ts_at[w] \in 1 .. Len(Sum!Code[w]) /\ want = [want EXCEPT ![w] = 0]
    BY <1>4, <1>19 DEF Sum!SetCount
  <2>2. ts_at' = [ts_at EXCEPT ![w] = @ + (IF ts_reg[w] = 0 THEN 3 ELSE 1)]
    BY <1>0, <1>19 DEF Sum!SetCount, Sum!Skip
  <2> QED
    BY <1>19, <2>1, <2>2 DEF Sum!SetCount, Moves
<1>20. CASE Sum!Post(w)
  <2>1. /\ r.op = "post" /\ ts_at[w] \in 1 .. Len(Sum!Code[w]) /\ want = [want EXCEPT ![w] = 0]
        /\ sem' = [sem EXCEPT ![r.what] = @ + ts_vop]
    BY <1>4, <1>20 DEF Sum!Post, Sum!Raise, r
  <2>2. \A b \in Sum!Nodes : b # r.what => sem'[b] = sem[b]
    BY <1>0, <1>1, <2>1
  <2> QED
    BY <1>6, <1>20, <2>1, <2>2 DEF Sum!Post, Moves
<1>21. CASE Sum!Zero(w)
  <2>1. r.op = "zero" /\ ts_at[w] \in 1 .. Len(Sum!Code[w]) /\ want = [want EXCEPT ![w] = 0]
    BY <1>4, <1>21 DEF Sum!Zero
  <2>2. ts_reached' = [ts_reached EXCEPT ![r.what] = 0]
    BY <1>21 DEF Sum!Zero, r
  <2> QED
    BY <1>6, <1>21, <2>1, <2>2 DEF Sum!Zero, Moves
<1>22. CASE Sum!Clone(w)
  <2>1. r.op = "clone" /\ ts_at[w] \in 1 .. Len(Sum!Code[w]) /\ want = [want EXCEPT ![w] = 0]
    BY <1>4, <1>22 DEF Sum!Clone
  <2>2. ts_at' = [ts_at EXCEPT ![w] = @ + 1, ![r.what] = 1]
    BY <1>22 DEF Sum!Clone, r
  <2> QED
    BY <1>22, <2>1, <2>2 DEF Sum!Clone, Moves, Sum!library
<1>23. CASE Sum!Enter(w)
  <2>1. r.op = "enter" /\ ts_at[w] \in 1 .. Len(Sum!Code[w]) /\ want = [want EXCEPT ![w] = 0]
    BY <1>4, <1>23 DEF Sum!Enter
  <2> QED
    BY <1>6, <1>23, <2>1 DEF Sum!Enter, Moves
<1>24. CASE Sum!Clear(w)
  <2>1. r.op = "clear" /\ ts_at[w] \in 1 .. Len(Sum!Code[w]) /\ want = [want EXCEPT ![w] = 0]
    BY <1>4, <1>24 DEF Sum!Clear
  <2> QED
    BY <1>6, <1>24, <2>1 DEF Sum!Clear, Moves
<1>25. CASE Sum!Leaf(w)
  <2>1. r.op = "leaf" /\ ts_at[w] \in 1 .. Len(Sum!Code[w]) /\ want = [want EXCEPT ![w] = 0]
    BY <1>4, <1>25 DEF Sum!Leaf
  <2> QED
    BY <1>6, <1>25, <2>1 DEF Sum!Leaf, Moves, Sum!library
<1>26. CASE Sum!AddUp(w)
  <2>1. r.op = "add" /\ ts_at[w] \in 1 .. Len(Sum!Code[w]) /\ want = [want EXCEPT ![w] = 0]
    BY <1>4, <1>26 DEF Sum!AddUp
  <2>2. sum' = [sum EXCEPT ![w] = Value[w] + SumOn(sum, Sum!Children(w))]
    BY <1>26, TreeSumDef DEF Sum!AddUp
  <2> QED
    BY <1>6, <1>26, <2>1, <2>2 DEF Sum!AddUp, Moves, Sum!library
<1>27. CASE Sum!PrintTotal(w)
  <2>1. r.op = "print" /\ ts_at[w] \in 1 .. Len(Sum!Code[w]) /\ want = [want EXCEPT ![w] = 0]
    BY <1>4, <1>27 DEF Sum!PrintTotal
  <2> QED
    BY <1>6, <1>27, <2>1 DEF Sum!PrintTotal, Moves, Sum!library
<1>28. CASE Sum!SetStatus(w)
  <2>1. r.op = "lock" /\ ts_at[w] \in 1 .. Len(Sum!Code[w]) /\ want = [want EXCEPT ![w] = 0]
    BY <1>4, <1>28 DEF Sum!SetStatus
  <2> QED
    BY <1>6, <1>28, <2>1 DEF Sum!SetStatus, Moves
<1>29. CASE Sum!CheckStatus(w)
  <2>1. r.op = "status" /\ ts_at[w] \in 1 .. Len(Sum!Code[w]) /\ want = [want EXCEPT ![w] = 0]
    BY <1>4, <1>29 DEF Sum!CheckStatus
  <2> QED
    BY <1>6, <1>29, <2>1 DEF Sum!CheckStatus, Moves, Sum!library
<1>30. CASE Sum!ClearStatus(w)
  <2>1. r.op = "free" /\ ts_at[w] \in 1 .. Len(Sum!Code[w]) /\ want = [want EXCEPT ![w] = 0]
    BY <1>4, <1>30 DEF Sum!ClearStatus
  <2> QED
    BY <1>6, <1>30, <2>1 DEF Sum!ClearStatus, Moves
<1> QED
  BY <1>7, <1>8, <1>9, <1>10, <1>11, <1>12, <1>13, <1>14, <1>15, <1>16, <1>17, <1>18, <1>19,
     <1>20, <1>21, <1>22, <1>23, <1>24, <1>25, <1>26, <1>27, <1>28, <1>29, <1>30 DEF Sum!Thread

\* The values of the semaphores stay numbers, and the sembufs hold what calls store there.
LEMMA SembufsStep ==
  ASSUME Sum!TreeAssumption, TsTypes, Asleep, Counting, NEW w \in Sum!Tids, Sum!Thread(w)
  PROVE  /\ sem' \in [Sum!Semaphores -> Nat] /\ pop' \in {-1, -num_nodes}
         /\ ts_vop' \in {0, 1} \cup {Sum!BarrierCount(k) : k \in Sum!Nodes}
<1> DEFINE r == Sum!Now(w)
           Vops == {0, 1} \cup {Sum!BarrierCount(k) : k \in Sum!Nodes}
<1>1. StepOf(w, r)
  BY StepIsOne
<1>2. ts_at[w] \in 1 .. Len(Sum!Code[w]) /\ r = Sum!Code[w][ts_at[w]]
  BY <1>1 DEF StepOf
<1>3. OpIs(w, Sum!Code[w], ts_at[w])
  BY <1>2, OpsAre
<1>4. /\ sem \in [Sum!Semaphores -> Nat] /\ pop \in {0, -1, -num_nodes} /\ ts_vop \in Vops
      /\ want \in [Sum!Tids -> {0, -1, -num_nodes}] /\ num_nodes \in Nat \ {0}
  BY NodesAre DEF TsTypes
<1>5. ts_vop \in Nat
  BY <1>4, Arrivals
<1>6. r.op # "reset" => pop \in {-1, -num_nodes}
  BY <1>2, <1>4, PopSet
<1>7. ASSUME NEW x, sem' = [sem EXCEPT ![x] = @ + ts_vop] PROVE sem' \in [Sum!Semaphores -> Nat]
  <2>1. CASE x \in Sum!Semaphores
    <3>1. sem[x] + ts_vop \in Nat
      BY <1>4, <1>5, <2>1
    <3> QED
      BY <1>4, <1>7, <3>1
  <2>2. CASE x \notin Sum!Semaphores
    BY <1>4, <1>7, <2>2
  <2> QED
    BY <2>1, <2>2
<1>8. ASSUME NEW x, NEW d \in Int, sem' = [sem EXCEPT ![x] = @ + d], sem[x] + d >= 0
      PROVE  sem' \in [Sum!Semaphores -> Nat]
  <2>1. CASE x \in Sum!Semaphores
    <3>1. sem[x] + d \in Nat
      BY <1>4, <1>8, <2>1
    <3> QED
      BY <1>4, <1>8, <3>1
  <2>2. CASE x \notin Sum!Semaphores
    BY <1>4, <1>8, <2>2
  <2> QED
    BY <2>1, <2>2
<1> HIDE DEF r, Vops
<1>9. CASE r.op = "reset" /\ pop' = -1 /\ ts_vop' = 1 /\ sem' = sem
  BY <1>4, <1>9 DEF Vops
<1>10. CASE r.op = "pop" /\ pop' = r.what /\ ts_vop' = ts_vop /\ sem' = sem
  <2>1. r.what \in {-1, -num_nodes}
    BY <1>2, <1>3, <1>10 DEF OpIs
  <2> QED
    BY <1>4, <1>10, <2>1 DEF Vops
<1>11. CASE r.op # "reset" /\ pop' = pop /\ ts_vop' = ts_vop /\ sem' \in [Sum!Semaphores -> Nat]
  BY <1>4, <1>6, <1>11 DEF Vops
<1>12. CASE Sum!Reset(w)
  BY <1>9, <1>12 DEF Sum!Reset, Sum!Does, Sum!Now, r
<1>13. CASE Sum!SetPop(w)
  BY <1>10, <1>13 DEF Sum!SetPop, Sum!Does, Sum!Now, r
<1>14. CASE Sum!Down(w)
  <2>1. r.op = "P" /\ pop' = pop /\ ts_vop' = ts_vop
    BY <1>14 DEF Sum!Down, Sum!Does, Sum!Now, r
  <2>2. sem' \in [Sum!Semaphores -> Nat]
    <3>1. \/ sem[r.what] + pop >= 0 /\ sem' = [sem EXCEPT ![r.what] = @ + pop]
          \/ sem' = sem
      BY <1>14 DEF Sum!Down, r
    <3>2. pop \in Int
      BY <1>4
    <3> QED
      BY <1>4, <1>8, <3>1, <3>2
  <2> QED
    BY <1>11, <2>1, <2>2
<1>15. CASE Sum!Wake(w)
  <2>1. r.op = "P" /\ pop' = pop /\ ts_vop' = ts_vop
    BY <1>2, <1>15 DEF Sum!Wake, Asleep
  <2>2. sem' \in [Sum!Semaphores -> Nat]
    <3>1. sem[r.what] + want[w] >= 0 /\ sem' = [sem EXCEPT ![r.what] = @ + want[w]]
      BY <1>15 DEF Sum!Wake, r
    <3>2. want[w] \in Int
      <4>1. want[w] \in {0, -1, -num_nodes}
        BY <1>4
      <4> QED
        BY <1>4, <4>1
    <3> QED
      BY <1>8, <3>1, <3>2
  <2> QED
    BY <1>11, <2>1, <2>2
<1>16. CASE Sum!Up(w) \/ Sum!Post(w)
  <2>1. r.op \in {"V", "post"} /\ pop' = pop /\ ts_vop' = ts_vop
    BY <1>16 DEF Sum!Up, Sum!Post, Sum!Does, Sum!Now, r
  <2>2. sem' = [sem EXCEPT ![r.what] = @ + ts_vop]
    BY <1>16 DEF Sum!Up, Sum!Post, Sum!Raise, r
  <2> QED
    BY <1>7, <1>11, <2>1, <2>2
<1>17. CASE Sum!SignalLeader(w)
  <2>1. r.op = "signal" /\ pop' = pop /\ ts_vop' = ts_vop
    BY <1>17 DEF Sum!SignalLeader, Sum!Does, Sum!Now, r
  <2>2. sem' = [sem EXCEPT ![Sum!Joined] = @ + ts_vop] \/ sem' = sem
    BY <1>17 DEF Sum!SignalLeader, Sum!Raise
  <2> QED
    BY <1>4, <1>7, <1>11, <2>1, <2>2
<1>18. CASE Sum!SetCount(w)
  <2>1. r.op = "count" /\ pop' = pop /\ sem' = sem /\ (ts_vop' = ts_vop \/ (ts_reg[w] # 0 /\ ts_vop' = ts_reg[w]))
    BY <1>18 DEF Sum!SetCount, Sum!Does, Sum!Now, r
  <2>2. Arrives(w, r.what) /\ ts_at[w] = Off(w, r.what) + 7
    BY <1>2, <1>3, <2>1 DEF OpIs
  <2>3. w \in Sum!Nodes /\ r.what \in Sum!Nodes
    BY <2>2 DEF Arrives
  <2>4. ArrivalAt(w, r.what, ts_at[w], ts_reg[w], ts_at)
    BY <2>2, <2>3 DEF Counting
  <2>5. ts_reg[w] = 0 \/ ts_reg[w] = Sum!BarrierCount(r.what)
    BY <2>2, <2>4 DEF ArrivalAt
  <2>6. ts_vop' \in Vops
    BY <1>4, <2>1, <2>3, <2>5 DEF Vops
  <2> QED
    BY <1>4, <1>6, <2>1, <2>6 DEF Vops
<1>19. CASE \/ Sum!Own(w) \/ Sum!SetStatus(w) \/ Sum!Disown(w) \/ Sum!ClearStatus(w)
            \/ Sum!Store(w) \/ Sum!Zero(w) \/ Sum!Enter(w) \/ Sum!Clear(w)
  BY <1>4, <1>11, <1>19
     DEF Sum!Own, Sum!SetStatus, Sum!Disown, Sum!ClearStatus, Sum!Store, Sum!Zero, Sum!Enter,
         Sum!Clear, Sum!Does, Sum!Now, r
<1>20. CASE \/ Sum!CheckOwner(w) \/ Sum!CheckStatus(w) \/ Sum!Load(w) \/ Sum!Test(w) \/ Sum!Clone(w)
            \/ Sum!Leaf(w) \/ Sum!AddUp(w) \/ Sum!PrintTotal(w)
  <2>1. r.op # "reset"
    BY <1>20 DEF Sum!CheckOwner, Sum!CheckStatus, Sum!Load, Sum!Test, Sum!Clone, Sum!Leaf,
                 Sum!AddUp, Sum!PrintTotal, Sum!Does, Sum!Now, r
  <2>2. UNCHANGED Sum!library
    BY <1>20 DEF Sum!CheckOwner, Sum!CheckStatus, Sum!Load, Sum!Test, Sum!Clone, Sum!Leaf,
                 Sum!AddUp, Sum!PrintTotal
  <2> QED
    BY <1>4, <1>11, <2>1, <2>2 DEF Sum!library
<1> QED
  BY <1>12, <1>13, <1>14, <1>15, <1>16, <1>17, <1>18, <1>19, <1>20 DEF Sum!Thread

\* What a step means for the places: the thread goes on by one or by three, or creates another
\* one, and all others stay.
LEMMA PlacesStep ==
  ASSUME Sum!TreeAssumption, TsTypes, Created, NEW w \in Sum!Tids, NEW r, StepOf(w, r)
  PROVE  /\ ts_at' \in [Sum!Tids -> Nat] /\ Forward(ts_at, ts_at')
         /\ ts_at'[w] \in {ts_at[w], ts_at[w] + 1, ts_at[w] + 3}
         /\ ts_at'[w] = ts_at[w] + 3 => r.op = "count" /\ ts_reg[w] = 0
         /\ ts_at'[w] = ts_at[w] + 1 => Moves(w, r) /\ (r.op = "count" => ts_reg[w] # 0)
         /\ ts_at'[w] = ts_at[w] => Sleeps(w, r)
         /\ \A u \in Sum!Tids : u # w /\ ts_at'[u] # ts_at[u] =>
               /\ ts_at[u] = 0 /\ ts_at'[u] = 1
               /\ w = Sum!Leader /\ u \in Sum!Nodes /\ r.op = "clone" /\ r.what = u
               /\ ts_at[w] = 5 * u + 3
<1>1. /\ ts_at[w] \in 1 .. Len(Sum!Code[w]) /\ r = Sum!Code[w][ts_at[w]]
      /\ Sleeps(w, r) \/ Moves(w, r)
  BY DEF StepOf
<1>2. ts_at \in [Sum!Tids -> Nat] /\ ts_at[w] \in Nat
  BY DEF TsTypes
<1>3. OpIs(w, Sum!Code[w], ts_at[w])
  BY <1>1, OpsAre
<1>4. Sum!Nodes \subseteq Sum!Tids /\ Sum!Leader \notin Sum!Nodes /\ Sum!Leader \in Sum!Tids
  BY NodesAre
<1>5. CASE Sleeps(w, r)
  <2>1. ts_at' = ts_at
    BY <1>5 DEF Sleeps
  <2> QED
    BY <1>2, <1>4, <1>5, <2>1 DEF Forward
<1>6. CASE Moves(w, r) /\ r.op = "clone"
  <2>1. ts_at' = [ts_at EXCEPT ![w] = @ + 1, ![r.what] = 1]
    BY <1>6 DEF Moves
  <2>2. w = Sum!Leader /\ r.what \in Sum!Nodes /\ ts_at[w] = 5 * r.what + 3
    BY <1>1, <1>3, <1>6 DEF OpIs
  <2>3. ts_at[r.what] = 0
    <3>1. ts_at[w] <= 5 * r.what + 3
      BY <1>2, <2>2
    <3> QED
      BY <2>2, <3>1 DEF Created
  <2>4. r.what \in Sum!Tids /\ r.what # w
    BY <1>4, <2>2
  <2>5. ts_at' \in [Sum!Tids -> Nat]
    <3>1. ts_at[w] + 1 \in Nat
      BY <1>2
    <3>2. ts_at' = [[ts_at EXCEPT ![w] = ts_at[w] + 1] EXCEPT ![r.what] = 1]
      BY <2>1
    <3> QED
      BY <1>2, <3>1, <3>2
  <2>6. ts_at'[w] = ts_at[w] + 1 /\ ts_at'[r.what] = 1
    BY <1>2, <2>1, <2>4
  <2>7. \A u \in Sum!Tids : u # w /\ u # r.what => ts_at'[u] = ts_at[u]
    BY <1>2, <2>1
  <2>8. Forward(ts_at, ts_at')
    <3> SUFFICES ASSUME NEW u \in Sum!Nodes PROVE ts_at[u] \in Nat /\ ts_at'[u] \in Nat /\ ts_at[u] <= ts_at'[u]
      BY DEF Forward
    <3>1. u \in Sum!Tids /\ ts_at[u] \in Nat /\ ts_at'[u] \in Nat
      BY <1>2, <1>4, <2>5
    <3> QED
      BY <2>3, <2>6, <2>7, <3>1
  <2> QED
    BY <1>2, <1>6, <2>2, <2>3, <2>5, <2>6, <2>7, <2>8
<1>7. CASE Moves(w, r) /\ r.op # "clone"
  <2> DEFINE d == IF r.op = "count" /\ ts_reg[w] = 0 THEN 3 ELSE 1
  <2>1. ts_at' = [ts_at EXCEPT ![w] = @ + d]
    BY <1>7 DEF Moves
  <2>2. d \in {1, 3} /\ (d = 3 => r.op = "count" /\ ts_reg[w] = 0) /\ (d = 1 => (r.op = "count" => ts_reg[w] # 0))
    OBVIOUS
  <2> HIDE DEF d
  <2>3. ts_at' \in [Sum!Tids -> Nat] /\ ts_at'[w] = ts_at[w] + d
    BY <1>2, <2>1, <2>2
  <2>4. \A u \in Sum!Tids : u # w => ts_at'[u] = ts_at[u]
    BY <1>2, <2>1
  <2>5. Forward(ts_at, ts_at')
    BY <1>2, <1>4, <2>2, <2>3, <2>4 DEF Forward
  <2> QED
    BY <1>2, <1>7, <2>2, <2>3, <2>4, <2>5
<1> QED
  BY <1>1, <1>5, <1>6, <1>7

\* Every step keeps the types.
LEMMA TypesStep ==
  ASSUME Sum!TreeAssumption, TsTypes, Asleep, Created, Counting, NEW w \in Sum!Tids, Sum!Thread(w)
  PROVE  TsTypes'
<1> DEFINE r == Sum!Now(w)
<1>1. StepOf(w, r)
  BY StepIsOne
<1>2. /\ ts_at[w] \in 1 .. Len(Sum!Code[w]) /\ r = Sum!Code[w][ts_at[w]]
      /\ Sleeps(w, r) \/ Moves(w, r)
  BY <1>1 DEF StepOf
<1>3. OpIs(w, Sum!Code[w], ts_at[w])
  BY <1>2, OpsAre
<1> HIDE DEF r
<1>4. /\ sem' \in [Sum!Semaphores -> Nat] /\ pop' \in {-1, -num_nodes}
      /\ ts_vop' \in {0, 1} \cup {Sum!BarrierCount(k) : k \in Sum!Nodes}
  BY SembufsStep
<1>5. ts_at' \in [Sum!Tids -> Nat]
  BY <1>1, PlacesStep
<1>6. /\ ts_reg \in [Sum!Tids -> Nat] /\ ts_reached \in [Sum!Nodes -> Nat]
      /\ want \in [Sum!Tids -> {0, -1, -num_nodes}] /\ pop \in {0, -1, -num_nodes}
  BY DEF TsTypes
<1>7. want' \in [Sum!Tids -> {0, -1, -num_nodes}]
  BY <1>2, <1>6 DEF Sleeps, Moves
<1>8. r.op \in {"load", "test"} => ts_reached[r.what] \in Nat /\ Sum!BarrierCount(r.what) \in Nat
  <2>1. r.op \in {"load", "test"} => r.what \in Sum!Nodes
    BY <1>2, <1>3 DEF OpIs, Arrives
  <2> QED
    BY <1>6, <2>1, Arrivals
<1>9. ts_reg' \in [Sum!Tids -> Nat]
  BY <1>2, <1>6, <1>8 DEF Sleeps, Moves
<1>10. ts_reached' \in [Sum!Nodes -> Nat]
  BY <1>2, <1>6 DEF Sleeps, Moves
<1>11. pop' # 0
  BY <1>4, NodesAre
<1> QED
  BY <1>4, <1>5, <1>7, <1>9, <1>10, <1>11 DEF TsTypes

\* Programs have a length.
LEMMA LengthIs ==
  ASSUME Sum!TreeAssumption, NEW u \in Sum!Tids
  PROVE  Len(Sum!Code[u]) \in Nat
<1>1. u \in Sum!Nodes \/ u = Sum!Leader
  BY NodesAre
<1> QED
  BY <1>1, NodeCodeIs, LeaderCodeIs DEF NodeCode, LeaderCode

\* A step that ends a sleep clears want, and a thread that falls asleep stays at its wait.
LEMMA AsleepStep ==
  ASSUME Sum!TreeAssumption, TsTypes, Asleep, Created, NEW w \in Sum!Tids, NEW r, StepOf(w, r)
  PROVE  Asleep'
<1>1. /\ ts_at[w] \in 1 .. Len(Sum!Code[w]) /\ r = Sum!Code[w][ts_at[w]]
      /\ Sleeps(w, r) \/ Moves(w, r)
  BY DEF StepOf
<1>2. OpIs(w, Sum!Code[w], ts_at[w])
  BY <1>1, OpsAre
<1>3. ts_at \in [Sum!Tids -> Nat] /\ want \in [Sum!Tids -> {0, -1, -num_nodes}]
  BY DEF TsTypes
<1>4. \A u \in Sum!Tids : Len(Sum!Code[u]) \in Nat
  BY LengthIs
<1>5. ASSUME NEW u \in Sum!Tids
      PROVE  /\ want'[u] # 0 => ts_at'[u] \in 1 .. Len(Sum!Code[u]) /\ Sum!Code[u][ts_at'[u]].op = "P"
             /\ ts_at'[u] <= Len(Sum!Code[u]) + 1
  <2>1. CASE u = w
    <3>1. ts_at'[w] \in {ts_at[w], ts_at[w] + 1, ts_at[w] + 3}
      BY PlacesStep
    <3>2. CASE ts_at'[w] = ts_at[w]
      <4>1. r.op = "P"
        BY <3>2, PlacesStep DEF Sleeps
      <4> QED
        BY <1>1, <1>4, <2>1, <3>2, <4>1
    <3>3. CASE ts_at'[w] = ts_at[w] + 1
      <4>1. want'[w] = 0
        BY <1>3, <3>3, PlacesStep DEF Moves
      <4>2. ts_at[w] + 1 <= Len(Sum!Code[w]) + 1
        BY <1>1, <1>3, <1>4
      <4> QED
        BY <2>1, <3>3, <4>1, <4>2
    <3>4. CASE ts_at'[w] = ts_at[w] + 3
      <4>1. r.op = "count"
        BY <3>4, PlacesStep
      <4>2. want'[w] = 0
        BY <1>1, <1>3, <4>1 DEF Sleeps, Moves
      <4>3. Arrives(w, r.what) /\ ts_at[w] = Off(w, r.what) + 7
        BY <1>1, <1>2, <4>1 DEF OpIs
      <4>4. Off(w, r.what) + 10 <= Len(Sum!Code[w]) /\ Off(w, r.what) \in {0, 1, 21}
        BY <4>3, OpsAt DEF Arrives
      <4>5. ts_at[w] + 3 <= Len(Sum!Code[w]) + 1
        BY <1>4, <4>3, <4>4
      <4> QED
        BY <2>1, <3>4, <4>2, <4>5
    <3> QED
      BY <3>1, <3>2, <3>3, <3>4
  <2>2. CASE u # w
    <3>1. want'[u] = want[u]
      BY <1>1, <1>3, <2>2 DEF Sleeps, Moves
    <3>2. CASE ts_at'[u] = ts_at[u]
      BY <3>1, <3>2 DEF Asleep
    <3>3. CASE ts_at'[u] # ts_at[u]
      <4>1. ts_at[u] = 0 /\ ts_at'[u] = 1
        BY <2>2, <3>3, PlacesStep
      <4>2. want[u] = 0
        BY <1>4, <4>1 DEF Asleep
      <4>3. 1 <= Len(Sum!Code[u]) + 1
        BY <1>4
      <4> QED
        BY <3>1, <4>1, <4>2, <4>3
    <3> QED
      BY <3>2, <3>3
  <2> QED
    BY <2>1, <2>2
<1> QED
  BY <1>5 DEF Asleep

\* A node starts when the leader creates it, and not before.
LEMMA CreatedStep ==
  ASSUME Sum!TreeAssumption, TsTypes, Created, NEW w \in Sum!Tids, NEW r, StepOf(w, r)
  PROVE  Created'
<1>1. ts_at[w] \in 1 .. Len(Sum!Code[w])
  BY DEF StepOf
<1>2. /\ Sum!Nodes \subseteq Sum!Tids /\ Sum!Leader \notin Sum!Nodes /\ Sum!Leader \in Sum!Tids
      /\ \A k \in Sum!Nodes : k \in Nat
  BY NodesAre
<1>3. ts_at \in [Sum!Tids -> Nat] /\ ts_at' \in [Sum!Tids -> Nat]
  BY PlacesStep DEF TsTypes
<1>4. ts_at[Sum!Leader] <= ts_at'[Sum!Leader]
  <2>1. CASE w = Sum!Leader
    <3>1. ts_at'[w] \in {ts_at[w], ts_at[w] + 1, ts_at[w] + 3}
      BY PlacesStep
    <3> QED
      BY <1>3, <2>1, <3>1
  <2>2. CASE w # Sum!Leader
    <3>1. ts_at'[Sum!Leader] = ts_at[Sum!Leader]
      BY <1>2, <2>2, PlacesStep
    <3> QED
      BY <1>2, <1>3, <3>1
  <2> QED
    BY <2>1, <2>2
<1>5. ASSUME NEW k \in Sum!Nodes, ts_at'[Sum!Leader] <= 5 * k + 3
      PROVE  ts_at'[k] = 0
  <2>1. ts_at[Sum!Leader] <= 5 * k + 3
    BY <1>2, <1>3, <1>4, <1>5
  <2>2. ts_at[k] = 0
    BY <2>1 DEF Created
  <2>3. k # w
    BY <1>1, <2>2
  <2>4. CASE ts_at'[k] # ts_at[k]
    <3>1. w = Sum!Leader /\ r.op = "clone" /\ ts_at[w] = 5 * k + 3
      BY <1>2, <2>3, <2>4, PlacesStep
    <3>2. ts_at'[w] \in {ts_at[w], ts_at[w] + 1, ts_at[w] + 3}
      BY PlacesStep
    <3>3. ts_at'[w] # ts_at[w]
      BY <3>1, PlacesStep DEF Sleeps
    <3> QED
      BY <1>2, <1>5, <3>1, <3>2, <3>3
  <2> QED
    BY <2>2, <2>4
<1> QED
  BY <1>5 DEF Created

\* Only a store raises reached, by one over what was loaded before it; a reset makes it less.
\* This holds although load and store are not one step and Arrival may let in several.
LEMMA CountingStep ==
  ASSUME Sum!TreeAssumption, TsTypes, Created, Counting, NEW w \in Sum!Tids, NEW r, StepOf(w, r)
  PROVE  Counting'
<1>1. /\ ts_at[w] \in 1 .. Len(Sum!Code[w]) /\ r = Sum!Code[w][ts_at[w]]
      /\ Sleeps(w, r) \/ Moves(w, r)
  BY DEF StepOf
<1>2. OpIs(w, Sum!Code[w], ts_at[w])
  BY <1>1, OpsAre
<1>3. /\ ts_at \in [Sum!Tids -> Nat] /\ ts_at' \in [Sum!Tids -> Nat]
      /\ ts_reg \in [Sum!Tids -> Nat] /\ ts_reached \in [Sum!Nodes -> Nat]
      /\ Forward(ts_at, ts_at')
  BY PlacesStep DEF TsTypes
<1>4. Sum!Nodes \subseteq Sum!Tids
  BY NodesAre
<1>5. \A b \in Sum!Nodes : /\ Cardinality(Stored(ts_at, b)) <= Cardinality(Stored(ts_at', b))
                           /\ Full(ts_at, b) => Full(ts_at', b)
                           /\ Cardinality(Stored(ts_at, b)) \in Nat
                           /\ Cardinality(Stored(ts_at', b)) \in Nat
  BY <1>3, StoredGrows, StoredFinite
<1>6. ASSUME NEW b \in Sum!Nodes, Inner(b)
      PROVE  ts_reached'[b] <= Cardinality(Stored(ts_at', b))
  <2>1. ts_reached[b] <= Cardinality(Stored(ts_at, b)) /\ ts_reached[b] \in Nat
    BY <1>3, <1>6 DEF Counting
  <2>2. CASE ts_reached'[b] = ts_reached[b]
    BY <1>5, <2>1, <2>2
  <2>3. CASE Moves(w, r) /\ r.op = "store" /\ r.what = b
    <3>1. Arrives(w, b) /\ ts_at[w] = Off(w, b) + 4
      BY <1>1, <1>2, <2>3 DEF OpIs
    <3>2. w \in Arrivers(b) /\ w \in Sum!Nodes /\ Off(w, b) \in {0, 1, 21}
      BY <3>1, Arrivals, OpsAt DEF Arrives
    <3>3. ts_reg[w] <= Cardinality(Stored(ts_at, b)) /\ ts_reg[w] \in Nat
      BY <1>3, <3>1, <3>2 DEF Counting, ArrivalAt
    <3>4. ts_at'[w] = Off(w, b) + 5
      <4>1. ts_at'[w] = ts_at[w] + 1
        BY <1>3, <2>3 DEF Moves
      <4> QED
        BY <3>1, <3>2, <4>1
    <3>5. Cardinality(Stored(ts_at, b)) + 1 <= Cardinality(Stored(ts_at', b))
      BY <1>3, <3>1, <3>2, <3>4, StoredAdds
    <3>6. ts_reached'[b] = ts_reg[w] + 1
      BY <1>3, <2>3 DEF Moves
    <3> QED
      BY <1>5, <3>3, <3>5, <3>6
  <2>4. CASE Moves(w, r) /\ r.op = "zero" /\ r.what = b
    <3>1. ts_reached'[b] = 0
      BY <1>3, <2>4 DEF Moves
    <3> QED
      BY <1>5, <3>1
  <2>5. \/ ts_reached'[b] = ts_reached[b]
        \/ Moves(w, r) /\ r.op \in {"store", "zero"} /\ r.what = b
    BY <1>1, <1>3 DEF Moves, Sleeps
  <2> QED
    BY <2>2, <2>3, <2>4, <2>5
<1>7. ASSUME NEW u \in Sum!Nodes, NEW b \in Sum!Nodes, Arrives(u, b)
      PROVE  ArrivalAt(u, b, ts_at'[u], ts_reg'[u], ts_at')
  <2>1. Off(u, b) \in {0, 1, 21} /\ Off(u, b) \in Nat
    BY DEF Off
  <2>7. /\ Sum!Code[u][Off(u, b) + 3].op = "load" /\ Sum!Code[u][Off(u, b) + 3].what = b
        /\ Sum!Code[u][Off(u, b) + 5].op = "test" /\ Sum!Code[u][Off(u, b) + 5].what = b
        /\ Sum!Code[u][Off(u, b) + 6].op = "V"
        /\ Sum!Code[u][Off(u, b) + 7].op = "count"
    BY <1>7, OpsAt
  <2>2. ArrivalAt(u, b, ts_at[u], ts_reg[u], ts_at)
    BY <1>7 DEF Counting
  <2>3. ts_at[u] \in Nat /\ ts_reg[u] \in Nat
    BY <1>3, <1>4
  <2>4. CASE ts_at'[u] = ts_at[u] /\ ts_reg'[u] = ts_reg[u]
    BY <1>5, <2>2, <2>3, <2>4 DEF ArrivalAt
  <2>5. CASE u # w
    <3>1. ts_reg'[u] = ts_reg[u]
      BY <1>1, <1>3, <1>4, <2>5 DEF Moves, Sleeps
    <3>2. CASE ts_at'[u] # ts_at[u]
      <4>1. ts_at'[u] = 1
        BY <1>4, <2>5, <3>2, PlacesStep
      <4> QED
        BY <2>1, <4>1 DEF ArrivalAt
    <3> QED
      BY <2>4, <3>1, <3>2
  <2>6. CASE u = w
    <3>1. ts_at'[w] \in {ts_at[w], ts_at[w] + 1, ts_at[w] + 3}
      BY PlacesStep
    <3>2. CASE ts_at'[w] = ts_at[w]
      <4>1. ts_reg' = ts_reg
        BY <3>2, PlacesStep DEF Sleeps
      <4> QED
        BY <2>4, <2>6, <3>2, <4>1
    <3>3. CASE ts_at'[w] = ts_at[w] + 3
      <4>1. r.op = "count"
        BY <3>3, PlacesStep
      <4>2. Arrives(w, r.what) /\ ts_at[w] = Off(w, r.what) + 7
        BY <1>1, <1>2, <4>1 DEF OpIs
      <4>3. Off(w, r.what) \in {0, 1, 21}
        BY DEF Off
      <4>4. ts_at'[u] \notin {Off(u, b) + 4, Off(u, b) + 6, Off(u, b) + 7, Off(u, b) + 8}
        BY <2>1, <2>6, <3>3, <4>2, <4>3
      <4> QED
        BY <4>4 DEF ArrivalAt
    <3>4. CASE ts_at'[w] = ts_at[w] + 1
      <4>1. Moves(w, r) /\ (r.op = "count" => ts_reg[w] # 0)
        BY <3>4, PlacesStep
      <4>2. ASSUME ts_at'[u] = Off(u, b) + 4
            PROVE  ts_reg'[u] <= Cardinality(Stored(ts_at', b))
        <5>1. ts_at[u] = Off(u, b) + 3
          BY <2>1, <2>3, <2>6, <3>4, <4>2
        <5>2. r.op = "load" /\ r.what = b
          BY <1>1, <2>6, <2>7, <5>1
        <5>3. ts_reg'[u] = ts_reached[b]
          BY <1>3, <2>6, <4>1, <5>2 DEF Moves
        <5>4. Inner(b)
          BY <1>7, Arrivals
        <5>5. ts_reached[b] <= Cardinality(Stored(ts_at, b)) /\ ts_reached[b] \in Nat
          BY <1>3, <5>4 DEF Counting
        <5> QED
          BY <1>5, <5>3, <5>5
      <4>3. ASSUME ts_at'[u] = Off(u, b) + 6
            PROVE  ts_reg'[u] = 0 \/ (ts_reg'[u] = Sum!BarrierCount(b) /\ Full(ts_at', b))
        <5>1. ts_at[u] = Off(u, b) + 5
          BY <2>1, <2>3, <2>6, <3>4, <4>3
        <5>2. r.op = "test" /\ r.what = b
          BY <1>1, <2>6, <2>7, <5>1
        <5>3. ts_reg'[u] = IF ts_reached[b] = Sum!BarrierCount(b) THEN Sum!BarrierCount(b) ELSE 0
          BY <1>3, <2>6, <4>1, <5>2 DEF Moves
        <5>4. Inner(b)
          BY <1>7, Arrivals
        <5>5. ts_reached[b] <= Cardinality(Stored(ts_at, b))
          BY <5>4 DEF Counting
        <5>6. ts_reached[b] = Sum!BarrierCount(b) => Full(ts_at, b)
          BY <1>5, <5>5, Arrivals, AllStored
        <5> QED
          BY <1>5, <5>3, <5>6
      <4>4. ASSUME ts_at'[u] = Off(u, b) + 7
            PROVE  ts_reg'[u] = 0 \/ (ts_reg'[u] = Sum!BarrierCount(b) /\ Full(ts_at', b))
        <5>1. ts_at[u] = Off(u, b) + 6
          BY <2>1, <2>3, <2>6, <3>4, <4>4
        <5>2. r.op = "V"
          BY <1>1, <2>6, <2>7, <5>1
        <5>3. ts_reg' = ts_reg
          BY <4>1, <5>2 DEF Moves
        <5> QED
          BY <1>5, <2>2, <5>1, <5>3 DEF ArrivalAt
      <4>5. ASSUME ts_at'[u] = Off(u, b) + 8
            PROVE  ts_reg'[u] = Sum!BarrierCount(b) /\ Full(ts_at', b)
        <5>1. ts_at[u] = Off(u, b) + 7
          BY <2>1, <2>3, <2>6, <3>4, <4>5
        <5>2. r.op = "count"
          BY <1>1, <2>6, <2>7, <5>1
        <5>3. ts_reg' = ts_reg /\ ts_reg[u] # 0
          BY <2>6, <4>1, <5>2 DEF Moves
        <5> QED
          BY <1>5, <2>2, <5>1, <5>3 DEF ArrivalAt
      <4> QED
        BY <4>2, <4>3, <4>4, <4>5 DEF ArrivalAt
    <3> QED
      BY <3>1, <3>2, <3>3, <3>4
  <2> QED
    BY <2>5, <2>6
<1> QED
  BY <1>6, <1>7 DEF Counting

\* A barrier opens, and a node gets past its own, only when all who come to it have stored.
LEMMA OpenedStep ==
  ASSUME Sum!TreeAssumption, TsTypes, Created, Counting, Opened,
         NEW w \in Sum!Tids, NEW r, StepOf(w, r)
  PROVE  Opened'
<1>1. /\ ts_at[w] \in 1 .. Len(Sum!Code[w]) /\ r = Sum!Code[w][ts_at[w]]
      /\ Sleeps(w, r) \/ Moves(w, r)
  BY DEF StepOf
<1>2. OpIs(w, Sum!Code[w], ts_at[w])
  BY <1>1, OpsAre
<1>3. ts_at \in [Sum!Tids -> Nat] /\ Forward(ts_at, ts_at')
  BY PlacesStep DEF TsTypes
<1>4. Sum!Nodes \subseteq Sum!Tids
  BY NodesAre
<1>5. ASSUME NEW b \in Sum!Nodes, Inner(b), sem'[b] # 0 \/ ts_at'[b] > 10
      PROVE  Full(ts_at', b)
  <2>1. Full(ts_at, b) => Full(ts_at', b)
    BY <1>3, StoredGrows
  <2>2. sem[b] # 0 \/ ts_at[b] > 10 => Full(ts_at, b)
    BY <1>5 DEF Opened
  <2>3. ASSUME sem'[b] # 0, sem[b] = 0 PROVE Full(ts_at, b)
    <3>1. r.op = "post" /\ r.what = b
      BY <1>1, <2>3 DEF Sleeps, Moves
    <3>2. Arrives(w, b) /\ ts_at[w] = Off(w, b) + 8
      BY <1>1, <1>2, <3>1 DEF OpIs
    <3>3. w \in Sum!Nodes
      BY <3>2 DEF Arrives
    <3>4. ArrivalAt(w, b, ts_at[w], ts_reg[w], ts_at)
      BY <3>2, <3>3 DEF Counting
    <3> QED
      BY <3>2, <3>4 DEF ArrivalAt
  <2>4. ASSUME ts_at'[b] > 10, ~(ts_at[b] > 10) PROVE Full(ts_at, b)
    <3>1. b = w
      <4>1. b # w => ts_at'[b] \in {ts_at[b], 1}
        BY <1>4, PlacesStep
      <4> QED
        BY <2>4, <4>1
    <3>2. ts_at[w] \in Nat
      BY <1>3
    <3>3. ts_at'[w] \in {ts_at[w], ts_at[w] + 1, ts_at[w] + 3}
      BY PlacesStep
    <3>4. CASE ts_at'[w] = ts_at[w] + 3
      <4>1. r.op = "count"
        BY <3>4, PlacesStep
      <4>2. Arrives(w, r.what) /\ ts_at[w] = Off(w, r.what) + 7
        BY <1>1, <1>2, <4>1 DEF OpIs
      <4>3. Off(w, r.what) \in {0, 21}
        BY <1>5, <3>1 DEF Off
      <4> QED
        BY <2>4, <3>1, <3>4, <4>2, <4>3
    <3>5. CASE ts_at'[w] = ts_at[w] + 1
      <4>1. Moves(w, r)
        BY <3>5, PlacesStep
      <4>2. ts_at[w] = 10
        BY <2>4, <3>1, <3>2, <3>5
      <4>3. Arrives(b, b) /\ Off(b, b) = 0
        BY <1>5 DEF Arrives, Off
      <4>4. Sum!Code[b][Off(b, b) + 10].op = "P" /\ Sum!Code[b][Off(b, b) + 10].what = b
        BY <4>3, OpsAt
      <4>5. r.op = "P" /\ r.what = b
        BY <1>1, <3>1, <4>2, <4>3, <4>4
      <4>6. sem[b] # 0
        BY <4>1, <4>5 DEF Moves
      <4> QED
        BY <2>2, <4>6
    <3> QED
      BY <2>4, <3>1, <3>2, <3>3, <3>4, <3>5
  <2> QED
    BY <1>5, <2>1, <2>2, <2>3, <2>4
<1> QED
  BY <1>5 DEF Opened

\* A thread gets past the place of its own sum with the step that stores it.
LEMMA AddingStep ==
  ASSUME Sum!TreeAssumption, TsTypes, Created, NEW w \in Sum!Tids, NEW r, StepOf(w, r),
         NEW k \in Sum!Nodes
  PROVE  /\ ts_at[k] > Adding(k) => ts_at'[k] > Adding(k)
         /\ ts_at'[k] > Adding(k) =>
               \/ ts_at[k] > Adding(k)
               \/ k = w /\ Moves(w, r) /\ ts_at[k] = Adding(k) /\ r.op \in {"leaf", "add"}
<1>1. /\ ts_at[w] \in 1 .. Len(Sum!Code[w]) /\ r = Sum!Code[w][ts_at[w]]
      /\ Sleeps(w, r) \/ Moves(w, r)
  BY DEF StepOf
<1>2. OpIs(w, Sum!Code[w], ts_at[w])
  BY <1>1, OpsAre
<1>3. ts_at \in [Sum!Tids -> Nat] /\ Forward(ts_at, ts_at')
  BY PlacesStep DEF TsTypes
<1>4. k \in Sum!Tids /\ ts_at[k] \in Nat /\ ts_at'[k] \in Nat /\ ts_at[k] <= ts_at'[k]
  BY <1>3, NodesAre DEF Forward
<1>5. Adding(k) \in {1, 15}
  BY DEF Adding
<1>6. ASSUME ts_at'[k] > Adding(k), ~(ts_at[k] > Adding(k))
      PROVE  k = w /\ Moves(w, r) /\ ts_at[k] = Adding(k) /\ r.op \in {"leaf", "add"}
  <2>1. k = w
    <3>1. k # w => ts_at'[k] \in {ts_at[k], 1}
      BY <1>4, PlacesStep
    <3> QED
      BY <1>5, <1>6, <3>1
  <2>2. ts_at'[w] \in {ts_at[w], ts_at[w] + 1, ts_at[w] + 3}
    BY PlacesStep
  <2>3. ts_at'[w] # ts_at[w] + 3
    <3> SUFFICES ASSUME ts_at'[w] = ts_at[w] + 3 PROVE FALSE
      OBVIOUS
    <3>1. r.op = "count"
      BY PlacesStep
    <3>2. Arrives(w, r.what) /\ ts_at[w] = Off(w, r.what) + 7
      BY <1>1, <1>2, <3>1 DEF OpIs
    <3>3. \/ Off(w, r.what) = 0 /\ Inner(w)
          \/ Off(w, r.what) = 21
          \/ Off(w, r.what) = 1 /\ ~Inner(w)
      <4>1. r.what # w \/ Inner(w)
        <5>1. r.what = w => w \notin Sum!Children(w)
          BY <3>2, ChildrenFinite DEF Arrives
        <5> QED
          BY <3>2, <5>1 DEF Arrives, Sum!Children
      <4> QED
        BY <4>1 DEF Off
    <3>4. Adding(k) = IF Inner(w) THEN 15 ELSE 1
      BY <2>1 DEF Adding
    <3> QED
      BY <1>6, <2>1, <3>2, <3>3, <3>4
  <2>4. ts_at'[w] = ts_at[w] + 1 /\ ts_at[w] = Adding(w)
    BY <1>4, <1>5, <1>6, <2>1, <2>2, <2>3
  <2>5. Moves(w, r)
    BY <2>4, PlacesStep
  <2>6. r.op \in {"leaf", "add"}
    BY <1>1, <2>1, <2>4, AddingAt
  <2> QED
    BY <2>1, <2>4, <2>5, <2>6
<1> QED
  BY <1>4, <1>5, <1>6

\* What a thread stores is the sum of its subtree: those whose sums it reads are past their own.
LEMMA SumsStep ==
  ASSUME Sum!TreeAssumption, TsTypes, Created, Opened, Sums,
         NEW w \in Sum!Tids, NEW r, StepOf(w, r)
  PROVE  Sums'
<1>1. /\ ts_at[w] \in 1 .. Len(Sum!Code[w]) /\ r = Sum!Code[w][ts_at[w]]
      /\ Sleeps(w, r) \/ Moves(w, r)
  BY DEF StepOf
<1>2. OpIs(w, Sum!Code[w], ts_at[w])
  BY <1>1, OpsAre
<1>3. ts_at \in [Sum!Tids -> Nat] /\ ts_at[w] \in Nat
  BY DEF TsTypes
<1>4. \A k \in Sum!Nodes : ts_at'[k] > Adding(k) =>
          \/ ts_at[k] > Adding(k)
          \/ k = w /\ Moves(w, r) /\ ts_at[k] = Adding(k) /\ r.op \in {"leaf", "add"}
  BY AddingStep
<1>5. \A k \in Sum!Nodes : ts_at[k] > Adding(k) => ts_at'[k] > Adding(k)
  BY AddingStep
<1>6. sum = [k \in Sum!Nodes |-> IF ts_at[k] > Adding(k) THEN Sum!Total[k] ELSE 0]
  BY DEF Sums
<1>7. CASE ~(Moves(w, r) /\ r.op \in {"leaf", "add"})
  <2>1. \A k \in Sum!Nodes : ts_at'[k] > Adding(k) <=> ts_at[k] > Adding(k)
    BY <1>4, <1>5, <1>7
  <2>2. sum' = sum
    BY <1>1, <1>7 DEF Sleeps, Moves
  <2> QED
    BY <1>6, <2>1, <2>2 DEF Sums
<1>8. CASE Moves(w, r) /\ r.op \in {"leaf", "add"}
  <2>1. w \in Sum!Nodes /\ ts_at[w] = Adding(w)
    BY <1>1, <1>2, <1>8 DEF OpIs
  <2>2. Adding(w) \in {1, 15} /\ (Adding(w) = 15 <=> Inner(w))
    BY DEF Adding
  <2>3. ts_at'[w] = ts_at[w] + 1
    BY <1>3, <1>8 DEF Moves
  <2>4. ts_at'[w] > Adding(w)
    BY <2>1, <2>2, <2>3
  <2>5. r.op = IF Inner(w) THEN "add" ELSE "leaf"
    BY <1>1, <2>1, AddingAt
  <2>6. ASSUME NEW x, x = Sum!Total[w], sum' = [sum EXCEPT ![w] = x]
        PROVE  Sums'
    <3>1. \A k \in Sum!Nodes : k # w => (ts_at'[k] > Adding(k) <=> ts_at[k] > Adding(k))
      BY <1>4, <1>5
    <3> QED
      BY <1>6, <2>1, <2>4, <2>6, <3>1 DEF Sums
  <2>7. CASE ~Inner(w)
    <3>1. sum' = [sum EXCEPT ![w] = Value[w]]
      BY <1>8, <2>5, <2>7 DEF Moves
    <3>2. Sum!Children(w) = {} /\ IsFiniteSet(Sum!Children(w))
      BY <2>1, <2>7, ChildrenFinite DEF Inner
    <3>3. SumOn(Sum!Total, Sum!Children(w)) = 0
      BY <3>2, SumZero
    <3>4. Value[w] \in Int
      BY <2>1 DEF Sum!TreeAssumption
    <3>5. Value[w] = Sum!Total[w]
      BY <2>1, <3>3, <3>4, TotalIs
    <3> QED
      BY <2>6, <3>1, <3>5
  <2>8. CASE Inner(w)
    <3>1. sum' = [sum EXCEPT ![w] = Value[w] + SumOn(sum, Sum!Children(w))]
      BY <1>8, <2>5, <2>8 DEF Moves
    <3>2. Full(ts_at, w)
      <4>1. ts_at[w] > 10
        BY <2>1, <2>2, <2>8
      <4> QED
        BY <2>1, <2>8, <4>1 DEF Opened
    <3>3. ASSUME NEW v \in Sum!Children(w) PROVE sum[v] = Sum!Total[v]
      <4>1. v \in Sum!Nodes /\ v # w /\ v \in Arrivers(w) /\ ts_Parent[v] = w
        BY <2>1, ChildrenFinite DEF Arrivers, Sum!Children
      <4>2. ts_at[v] > Off(v, w) + 4 /\ ts_at[v] \in Nat
        BY <1>3, <3>2, <4>1, NodesAre DEF Full
      <4>3. Off(v, w) + 4 > Adding(v) /\ Adding(v) \in Nat /\ Off(v, w) \in Nat
        BY <4>1 DEF Off, Adding
      <4>4. ts_at[v] > Adding(v)
        BY <4>2, <4>3
      <4> QED
        BY <1>6, <4>1, <4>4
    <3>4. IsFiniteSet(Sum!Children(w))
      BY <2>1, ChildrenFinite
    <3>5. SumOn(sum, Sum!Children(w)) = SumOn(Sum!Total, Sum!Children(w))
      BY <3>3, <3>4, SumSame
    <3>6. Value[w] + SumOn(sum, Sum!Children(w)) = Sum!Total[w]
      BY <2>1, <3>5, TotalIs
    <3> QED
      BY <2>6, <3>1, <3>6
  <2> QED
    BY <2>7, <2>8
<1> QED
  BY <1>7, <1>8

\* The nodes that have signalled the leader.
Signalled(p) == {u \in Sum!Nodes : p[u] > Signalling(u)}

\* As long as no semop has used a number that was meant for another: a signal for each node
\* that has sent one, the leader waits for all of them, and prints what the root has then.
JoinsRight ==
    ~mixed =>
       /\ sem[-2] <= Cardinality(Signalled(ts_at))
       /\ want[Sum!Leader] # 0 /\ ts_at[Sum!Leader] = Joining => want[Sum!Leader] = -num_nodes
       /\ ts_at[Sum!Leader] > Joining => \A u \in Sum!Nodes : ts_at[u] > Signalling(u)
       /\ printed \in {-1, Sum!Total[Sum!Root]}

\* What a step that mixes nothing does for joining.
JoinStep(w, r) ==
    /\ ~mixed
    /\ sem'[-2] <= sem[-2] \/ (r.op = "signal" /\ sem'[-2] = sem[-2] + 1)
    /\ want'[Sum!Leader] \in {0, want[Sum!Leader]}
       \/ (w = Sum!Leader /\ (r.what = -2 => want'[w] = -num_nodes))
    /\ w = Sum!Leader /\ r.op = "P" /\ r.what = -2 /\ ts_at' # ts_at =>
          sem[-2] >= num_nodes \/ (want[w] # 0 /\ sem[-2] + want[w] >= 0)
    /\ printed' = printed \/ (r.op = "print" /\ printed' = sum[Sum!Root])

\* Every step that mixes nothing is such a step.
LEMMA JoinStepIs ==
  ASSUME Sum!TreeAssumption, TsTypes, Asleep, NEW w \in Sum!Tids, Sum!Thread(w), ~mixed'
  PROVE  JoinStep(w, Sum!Now(w))
<1> DEFINE r == Sum!Now(w)
<1>1. /\ ts_at[w] \in 1 .. Len(Sum!Code[w]) /\ r = Sum!Code[w][ts_at[w]]
  BY StepIsOne DEF StepOf
<1>2. OpIs(w, Sum!Code[w], ts_at[w])
  BY <1>1, OpsAre
<1>3. /\ sem \in [Sum!Semaphores -> Nat] /\ -2 \in Sum!Semaphores /\ sem[-2] \in Nat
      /\ want \in [Sum!Tids -> {0, -1, -num_nodes}] /\ num_nodes \in Nat \ {0}
      /\ pop \in Int /\ pop <= 0 /\ want[w] \in Int /\ want[w] <= 0 /\ Sum!Leader \in Sum!Tids
  <2>1. /\ num_nodes \in Nat \ {0} /\ -2 \in Sum!Semaphores /\ Sum!Leader \in Sum!Tids
    BY NodesAre DEF Sum!Tids, Sum!Leader
  <2>2. /\ sem \in [Sum!Semaphores -> Nat] /\ want \in [Sum!Tids -> {0, -1, -num_nodes}]
        /\ pop \in {0, -1, -num_nodes} /\ want[w] \in {0, -1, -num_nodes}
    BY DEF TsTypes
  <2>3. \A x \in {0, -1, -num_nodes} : x \in Int /\ x <= 0
    BY <2>1
  <2> QED
    BY <2>1, <2>2, <2>3
<1>4. ASSUME NEW x, NEW d \in Int, d <= 0, sem' = [sem EXCEPT ![x] = @ + d]
      PROVE  sem'[-2] <= sem[-2]
  <2>1. CASE x = -2
    BY <1>3, <1>4, <2>1
  <2>2. CASE x # -2
    BY <1>3, <1>4, <2>2
  <2> QED
    BY <2>1, <2>2
<1> HIDE DEF r
<1> SUFFICES JoinStep(w, r)
  BY DEF r
<1>5. CASE UNCHANGED <<sem, want, printed, mixed>> /\ r.op # "P"
  BY <1>3, <1>5 DEF JoinStep
<1>6. CASE Sum!Down(w)
  <2>1. /\ r.op = "P" /\ printed' = printed /\ (mixed' <=> mixed \/ pop # Sum!Meant(w))
        /\ \/ sem[r.what] + pop >= 0 /\ sem' = [sem EXCEPT ![r.what] = @ + pop] /\ want' = want
           \/ want' = [want EXCEPT ![w] = pop] /\ ts_at' = ts_at /\ sem' = sem
    BY <1>6 DEF Sum!Down, Sum!Does, Sum!Now, r
  <2>2. pop = Sum!Meant(w) /\ ~mixed
    BY <2>1
  <2>3. w = Sum!Leader /\ r.what = -2 => pop = -num_nodes
    BY <2>2 DEF Sum!Meant, Sum!Joined, r
  <2>4. sem'[-2] <= sem[-2]
    BY <1>3, <1>4, <2>1
  <2>5. \/ want'[Sum!Leader] = want[Sum!Leader]
        \/ w = Sum!Leader /\ (r.what = -2 => want'[w] = -num_nodes)
    BY <1>3, <2>1, <2>3
  <2>6. w = Sum!Leader /\ r.what = -2 /\ ts_at' # ts_at => sem[-2] >= num_nodes
    BY <1>3, <2>1, <2>3
  <2> QED
    BY <2>1, <2>2, <2>4, <2>5, <2>6 DEF JoinStep
<1>7. CASE Sum!Wake(w)
  <2>1. /\ want[w] # 0 /\ sem[r.what] + want[w] >= 0 /\ sem' = [sem EXCEPT ![r.what] = @ + want[w]]
        /\ want' = [want EXCEPT ![w] = 0] /\ printed' = printed /\ mixed' = mixed
    BY <1>7 DEF Sum!Wake, r
  <2>2. r.op = "P"
    BY <1>1, <2>1 DEF Asleep
  <2>3. sem'[-2] <= sem[-2]
    BY <1>3, <1>4, <2>1
  <2>4. want'[Sum!Leader] \in {0, want[Sum!Leader]}
    BY <1>3, <2>1
  <2> QED
    BY <2>1, <2>2, <2>3, <2>4 DEF JoinStep
<1>8. CASE Sum!Up(w) \/ Sum!Post(w)
  <2>1. /\ r.op \in {"V", "post"} /\ sem' = [sem EXCEPT ![r.what] = @ + ts_vop]
        /\ want' = want /\ printed' = printed
    BY <1>8 DEF Sum!Up, Sum!Post, Sum!Raise, Sum!Does, Sum!Now, r
  <2>2. ~mixed
    BY <1>8 DEF Sum!Up, Sum!Post, Sum!Raise
  <2>3. r.what # -2
    <3>1. r.op = "post" => r.what \in Sum!Nodes
      BY <1>1, <1>2 DEF OpIs, Arrives
    <3>2. -2 \notin Sum!Nodes
      BY <1>3, NodesAre
    <3>3. r.op = "V" => r.what \in {-1, -3, -4}
      BY <1>1, <1>2 DEF OpIs
    <3> QED
      BY <2>1, <3>1, <3>2, <3>3
  <2>4. sem'[-2] = sem[-2]
    BY <1>3, <2>1, <2>3
  <2>5. sem'[-2] <= sem[-2]
    BY <1>3, <2>4
  <2> QED
    BY <2>1, <2>2, <2>5 DEF JoinStep
<1>9. CASE Sum!SignalLeader(w)
  <2>1. /\ r.op = "signal" /\ want' = want /\ printed' = printed
        /\ \/ sem' = [sem EXCEPT ![-2] = @ + ts_vop] /\ (mixed' <=> mixed \/ ts_vop # 1)
           \/ sem' = sem /\ mixed' = mixed
    BY <1>9 DEF Sum!SignalLeader, Sum!Raise, Sum!Joined, Sum!Does, Sum!Now, r
  <2>2. ~mixed
    BY <2>1
  <2>3. sem'[-2] = sem[-2] + 1 \/ sem'[-2] = sem[-2]
    BY <1>3, <2>1
  <2>4. sem'[-2] <= sem[-2] \/ sem'[-2] = sem[-2] + 1
    BY <1>3, <2>3
  <2> QED
    BY <2>1, <2>2, <2>4 DEF JoinStep
<1>10. CASE Sum!PrintTotal(w)
  <2>1. r.op = "print" /\ printed' = sum[Sum!Root] /\ want' = want /\ mixed' = mixed /\ sem' = sem
    BY <1>10 DEF Sum!PrintTotal, Sum!library, Sum!Does, Sum!Now, r
  <2> QED
    BY <1>3, <2>1 DEF JoinStep
<1>11. CASE \/ Sum!Reset(w) \/ Sum!SetPop(w) \/ Sum!Own(w) \/ Sum!SetStatus(w) \/ Sum!Disown(w)
            \/ Sum!ClearStatus(w) \/ Sum!Store(w) \/ Sum!SetCount(w) \/ Sum!Zero(w)
            \/ Sum!Enter(w) \/ Sum!Clear(w)
  BY <1>5, <1>11 DEF Sum!Reset, Sum!SetPop, Sum!Own, Sum!SetStatus, Sum!Disown, Sum!ClearStatus,
                     Sum!Store, Sum!SetCount, Sum!Zero, Sum!Enter, Sum!Clear, Sum!Does, Sum!Now, r
<1>12. CASE \/ Sum!CheckOwner(w) \/ Sum!CheckStatus(w) \/ Sum!Load(w) \/ Sum!Test(w) \/ Sum!Clone(w)
            \/ Sum!Leaf(w) \/ Sum!AddUp(w)
  BY <1>5, <1>12 DEF Sum!CheckOwner, Sum!CheckStatus, Sum!Load, Sum!Test, Sum!Clone, Sum!Leaf,
                     Sum!AddUp, Sum!library, Sum!Does, Sum!Now, r
<1> QED
  BY <1>6, <1>7, <1>8, <1>9, <1>10, <1>11, <1>12 DEF Sum!Thread

\* What joining rests on: the leader gets past its wait only with a signal of every node.
LEMMA JoinsStep ==
  ASSUME Sum!TreeAssumption, TsTypes, Asleep, Created, Counting, Sums, JoinsRight,
         NEW w \in Sum!Tids, Sum!Thread(w)
  PROVE  JoinsRight'
<1> SUFFICES ASSUME ~mixed'
             PROVE  /\ sem'[-2] <= Cardinality(Signalled(ts_at'))
                    /\ want'[Sum!Leader] # 0 /\ ts_at'[Sum!Leader] = Joining =>
                          want'[Sum!Leader] = -num_nodes
                    /\ ts_at'[Sum!Leader] > Joining =>
                          \A u \in Sum!Nodes : ts_at'[u] > Signalling(u)
                    /\ printed' \in {-1, Sum!Total[Sum!Root]}
  BY DEF JoinsRight
<1> DEFINE r == Sum!Now(w)
<1>1. StepOf(w, r) /\ JoinStep(w, r)
  BY StepIsOne, JoinStepIs
<1>2. /\ ts_at[w] \in 1 .. Len(Sum!Code[w]) /\ r = Sum!Code[w][ts_at[w]]
  BY <1>1 DEF StepOf
<1>3. OpIs(w, Sum!Code[w], ts_at[w])
  BY <1>2, OpsAre
<1> HIDE DEF r
<1>4. /\ ts_at \in [Sum!Tids -> Nat] /\ ts_at' \in [Sum!Tids -> Nat] /\ Forward(ts_at, ts_at')
      /\ sem \in [Sum!Semaphores -> Nat] /\ sem' \in [Sum!Semaphores -> Nat]
      /\ want \in [Sum!Tids -> {0, -1, -num_nodes}]
  BY <1>1, PlacesStep, SembufsStep DEF TsTypes
<1>5. /\ Sum!Nodes \subseteq Sum!Tids /\ Sum!Leader \notin Sum!Nodes /\ Sum!Leader \in Sum!Tids
      /\ num_nodes \in Nat \ {0} /\ Sum!Nodes = 0 .. num_nodes - 1 /\ -2 \in Sum!Semaphores
  BY NodesAre DEF Sum!Tids, Sum!Leader
<1>6. /\ ~mixed /\ sem[-2] <= Cardinality(Signalled(ts_at))
      /\ want[Sum!Leader] # 0 /\ ts_at[Sum!Leader] = Joining => want[Sum!Leader] = -num_nodes
      /\ ts_at[Sum!Leader] > Joining => \A u \in Sum!Nodes : ts_at[u] > Signalling(u)
      /\ printed \in {-1, Sum!Total[Sum!Root]}
  BY <1>1 DEF JoinStep, JoinsRight
<1>7. \A u \in Sum!Nodes : Signalling(u) \in Nat
  BY DEF Signalling
<1>8. /\ IsFiniteSet(Signalled(ts_at)) /\ IsFiniteSet(Signalled(ts_at'))
      /\ Cardinality(Signalled(ts_at)) \in Nat /\ Cardinality(Signalled(ts_at')) \in Nat
      /\ Cardinality(Sum!Nodes) = num_nodes /\ IsFiniteSet(Sum!Nodes)
  <2>1. IsFiniteSet(Sum!Nodes) /\ Cardinality(Sum!Nodes) = num_nodes
    <3>1. IsFiniteSet(0 .. num_nodes - 1) /\ Cardinality(0 .. num_nodes - 1) = num_nodes
      BY <1>5, FS_Interval
    <3> QED
      BY <1>5, <3>1
  <2>2. Signalled(ts_at) \subseteq Sum!Nodes /\ Signalled(ts_at') \subseteq Sum!Nodes
    BY DEF Signalled
  <2> QED
    BY <2>1, <2>2, FS_Subset, FS_CardinalityType
<1>9. /\ Signalled(ts_at) \subseteq Signalled(ts_at')
      /\ Cardinality(Signalled(ts_at)) <= Cardinality(Signalled(ts_at'))
  <2>1. Signalled(ts_at) \subseteq Signalled(ts_at')
    BY <1>4, <1>7 DEF Signalled, Forward
  <2> QED
    BY <1>8, <2>1, FS_Subset
<1>10. sem[-2] \in Nat /\ sem'[-2] \in Nat
  BY <1>4, <1>5
<1>11. sem'[-2] <= Cardinality(Signalled(ts_at'))
  <2>1. CASE sem'[-2] <= sem[-2]
    BY <1>6, <1>8, <1>9, <1>10, <2>1
  <2>2. CASE r.op = "signal" /\ sem'[-2] = sem[-2] + 1
    <3>1. w \in Sum!Nodes /\ ts_at[w] = Signalling(w)
      BY <1>2, <1>3, <2>2 DEF OpIs
    <3>2. ts_at'[w] = ts_at[w] + 1
      BY <1>1, <1>4, <2>2 DEF StepOf, Sleeps, Moves
    <3>3. w \in Signalled(ts_at') /\ w \notin Signalled(ts_at)
      BY <1>7, <3>1, <3>2 DEF Signalled
    <3>4. Cardinality(Signalled(ts_at) \cup {w}) = Cardinality(Signalled(ts_at)) + 1
      BY <1>8, <3>3, FS_AddElement
    <3>5. Cardinality(Signalled(ts_at) \cup {w}) <= Cardinality(Signalled(ts_at'))
      BY <1>8, <1>9, <3>3, FS_Subset
    <3> QED
      BY <1>6, <1>8, <1>10, <2>2, <3>4, <3>5
  <2> QED
    BY <1>1, <2>1, <2>2 DEF JoinStep
<1>12. w = Sum!Leader =>
         /\ ts_at[w] = Joining => r.op = "P" /\ r.what = -2
         /\ ts_at'[w] \in {ts_at[w], ts_at[w] + 1}
  <2> SUFFICES ASSUME w = Sum!Leader
               PROVE  /\ ts_at[w] = Joining => r.op = "P" /\ r.what = -2
                      /\ ts_at'[w] \in {ts_at[w], ts_at[w] + 1}
    OBVIOUS
  <2>1. LeaderStep(ts_at[w], r)
    BY <1>2, LeaderCodeIs DEF LeaderCode
  <2>2. ts_at[w] = Joining => r.op = "P" /\ r.what = -2
    BY <2>1 DEF LeaderStep, Sum!Step
  <2>3. r.op # "count"
    BY <1>2, <1>3, <1>5 DEF OpIs, Arrives
  <2> QED
    BY <1>1, <2>2, <2>3, PlacesStep
<1>13. Joining \in Nat
  BY <1>5 DEF Joining
<1>14. ASSUME want'[Sum!Leader] # 0, ts_at'[Sum!Leader] = Joining
       PROVE  want'[Sum!Leader] = -num_nodes
  <2>1. CASE w = Sum!Leader
    <3>1. ts_at' = ts_at
      BY <1>1, <1>4, <1>14, <2>1 DEF StepOf, Sleeps, Moves
    <3>2. ts_at[w] = Joining /\ r.what = -2
      BY <1>12, <1>14, <2>1, <3>1
    <3> QED
      BY <1>1, <1>6, <1>14, <2>1, <3>2 DEF JoinStep
  <2>2. CASE w # Sum!Leader
    <3>1. want'[Sum!Leader] = want[Sum!Leader]
      BY <1>1, <1>14, <2>2 DEF JoinStep
    <3>2. ts_at'[Sum!Leader] = ts_at[Sum!Leader]
      BY <1>1, <1>5, <2>2, PlacesStep
    <3> QED
      BY <1>6, <1>14, <3>1, <3>2
  <2> QED
    BY <2>1, <2>2
<1>15. ASSUME ts_at'[Sum!Leader] > Joining, NEW u \in Sum!Nodes
       PROVE  ts_at'[u] > Signalling(u)
  <2>1. ts_at[u] <= ts_at'[u] /\ ts_at[u] \in Nat /\ ts_at'[u] \in Nat /\ Signalling(u) \in Nat
    BY <1>4, <1>7 DEF Forward
  <2>2. CASE ts_at[Sum!Leader] > Joining
    BY <1>6, <2>1, <2>2
  <2>3. CASE ~(ts_at[Sum!Leader] > Joining)
    <3>1. w = Sum!Leader
      BY <1>1, <1>5, <1>15, <2>3, PlacesStep
    <3>2. ts_at[w] = Joining /\ ts_at' # ts_at /\ ts_at[w] \in Nat
      BY <1>4, <1>5, <1>12, <1>13, <1>15, <2>3, <3>1
    <3>3. r.op = "P" /\ r.what = -2
      BY <1>12, <3>1, <3>2
    <3>4. sem[-2] >= num_nodes \/ (want[w] # 0 /\ sem[-2] + want[w] >= 0)
      BY <1>1, <3>1, <3>2, <3>3 DEF JoinStep
    <3>5. want[w] # 0 => want[w] = -num_nodes
      BY <1>6, <3>1, <3>2
    <3>6. sem[-2] >= num_nodes
      BY <1>5, <1>10, <3>4, <3>5
    <3>7. Cardinality(Signalled(ts_at)) >= num_nodes
      BY <1>5, <1>6, <1>8, <1>10, <3>6
    <3>8. Signalled(ts_at) \subseteq Sum!Nodes
      BY DEF Signalled
    <3>9. Cardinality(Signalled(ts_at)) <= Cardinality(Sum!Nodes)
      BY <1>8, <3>8, FS_Subset
    <3>10. Cardinality(Signalled(ts_at)) = Cardinality(Sum!Nodes)
      BY <1>5, <1>8, <3>7, <3>9
    <3>11. Signalled(ts_at) = Sum!Nodes
      BY <1>8, <3>8, <3>10, FS_Subset
    <3>12. ts_at[u] > Signalling(u)
      BY <3>11 DEF Signalled
    <3> QED
      BY <2>1, <3>12
  <2> QED
    BY <2>2, <2>3
<1>16. printed' \in {-1, Sum!Total[Sum!Root]}
  <2>1. CASE printed' = printed
    BY <1>6, <2>1
  <2>2. CASE r.op = "print" /\ printed' = sum[Sum!Root]
    <3>1. w = Sum!Leader /\ ts_at[w] = Printing
      BY <1>2, <1>3, <2>2 DEF OpIs
    <3>2. Printing > Joining
      BY <1>5 DEF Printing, Joining
    <3>3. Sum!Root \in Sum!Nodes
      BY RootIs
    <3>4. ts_at[Sum!Root] > Signalling(Sum!Root)
      BY <1>6, <3>1, <3>2, <3>3
    <3>5. Signalling(Sum!Root) > Adding(Sum!Root) /\ Adding(Sum!Root) \in Nat
      BY DEF Signalling, Adding
    <3>6. ts_at[Sum!Root] > Adding(Sum!Root)
      <4>1. ts_at[Sum!Root] \in Nat /\ Signalling(Sum!Root) \in Nat
        BY <1>4, <1>5, <1>7, <3>3
      <4> QED
        BY <3>4, <3>5, <4>1
    <3> QED
      BY <2>2, <3>3, <3>6 DEF Sums
  <2> QED
    BY <1>1, <2>1, <2>2 DEF JoinStep
<1> QED
  BY <1>11, <1>14, <1>15, <1>16

-----------------------------------------------------------------------------

TsInv == TsTypes /\ Asleep /\ Created /\ Counting /\ Opened /\ Sums /\ JoinsRight

\* At the start nobody but the leader is in its program, and nothing is stored.
LEMMA TsStart ==
  ASSUME Sum!TreeAssumption, Sum!Init
  PROVE  TsInv
<1>1. /\ num_nodes \in Nat \ {0} /\ Sum!Nodes \subseteq Sum!Tids /\ Sum!Leader \notin Sum!Nodes
      /\ Sum!Leader \in Sum!Tids /\ Sum!Nodes = 0 .. num_nodes - 1
      /\ Sum!Nodes \subseteq Sum!Semaphores
  BY NodesAre DEF Sum!Tids, Sum!Leader
<1>2. /\ pop = 0 /\ ts_vop = 0
      /\ sem = [s_1 \in Sum!Semaphores |-> IF s_1 \in {-1, -3, -4} THEN 1 ELSE 0]
      /\ ts_reached = [k \in Sum!Nodes |-> 0] /\ sum = [k \in Sum!Nodes |-> 0]
      /\ ts_at = [u \in Sum!Tids |-> IF u = Sum!Leader THEN 1 ELSE 0]
      /\ want = [u \in Sum!Tids |-> 0] /\ ts_reg = [u \in Sum!Tids |-> 0] /\ printed = -1
  BY DEF Sum!Init, Sum!Table, Sum!Mutex, Sum!Arrival
<1>3. \A k \in Sum!Nodes : ts_at[k] = 0 /\ k \in Sum!Tids /\ k \in Nat /\ sem[k] = 0
  BY <1>1, <1>2
<1>4. ts_at[Sum!Leader] = 1
  BY <1>1, <1>2
<1>5. TsTypes
  <2>1. ts_at \in [Sum!Tids -> Nat] /\ ts_reg \in [Sum!Tids -> Nat]
    BY <1>2
  <2>2. ts_reached \in [Sum!Nodes -> Nat] /\ sem \in [Sum!Semaphores -> Nat]
    BY <1>2
  <2>3. want \in [Sum!Tids -> {0, -1, -num_nodes}]
    BY <1>2
  <2> QED
    BY <1>2, <1>3, <1>4, <2>1, <2>2, <2>3 DEF TsTypes
<1>6. Asleep
  <2>1. \A u \in Sum!Tids : want[u] = 0 /\ ts_at[u] <= 1 /\ ts_at[u] \in Nat /\ Len(Sum!Code[u]) \in Nat
    BY <1>2, LengthIs
  <2> QED
    BY <2>1 DEF Asleep
<1>7. Created
  BY <1>3 DEF Created
<1>8. Counting
  <2>1. \A b \in Sum!Nodes : ts_reached[b] <= Cardinality(Stored(ts_at, b))
    BY <1>2, StoredFinite
  <2>2. \A u, b \in Sum!Nodes : Off(u, b) \in Nat
    BY DEF Off
  <2>3. \A u, b \in Sum!Nodes : ArrivalAt(u, b, ts_at[u], ts_reg[u], ts_at)
    BY <1>3, <2>2 DEF ArrivalAt
  <2> QED
    BY <2>1, <2>3 DEF Counting
<1>9. Opened
  BY <1>3 DEF Opened
<1>10. Sums
  <2>1. \A k \in Sum!Nodes : ~(ts_at[k] > Adding(k))
    BY <1>3 DEF Adding
  <2> QED
    BY <1>2, <2>1 DEF Sums
<1>11. JoinsRight
  <2>1. sem[-2] = 0
    BY <1>1, <1>2, NodesAre
  <2>2. IsFiniteSet(Signalled(ts_at)) /\ Cardinality(Signalled(ts_at)) \in Nat
    <3>1. Signalled(ts_at) = {}
      <4>1. \A k \in Sum!Nodes : Signalling(k) \in Nat
        BY DEF Signalling
      <4> QED
        BY <1>3, <4>1 DEF Signalled
    <3> QED
      BY <3>1, FS_EmptySet
  <2>3. Joining \in Nat /\ Joining > 1
    BY <1>1 DEF Joining
  <2>4. want[Sum!Leader] = 0
    BY <1>1, <1>2
  <2>5. sem[-2] <= Cardinality(Signalled(ts_at))
    BY <2>1, <2>2
  <2>6. ~(ts_at[Sum!Leader] > Joining)
    BY <1>4, <2>3
  <2> QED
    BY <1>2, <2>4, <2>5, <2>6 DEF JoinsRight
<1> QED
  BY <1>5, <1>6, <1>7, <1>8, <1>9, <1>10, <1>11 DEF TsInv

\* What the invariant reads.
ReadBySums == <<ts_at, ts_reg, ts_reached, sem, want, pop, ts_vop, sum, mixed, printed>>

\* Every step keeps the invariant.
LEMMA TsStep ==
  ASSUME Sum!TreeAssumption, TsInv, [Sum!Next]_(Sum!vars)
  PROVE  TsInv'
<1>1. TsTypes /\ Asleep /\ Created /\ Counting /\ Opened /\ Sums /\ JoinsRight
  BY DEF TsInv
<1>2. ASSUME NEW w \in Sum!Tids, Sum!Thread(w) PROVE TsInv'
  <2>1. StepOf(w, Sum!Now(w))
    BY <1>1, <1>2, StepIsOne
  <2>2. TsTypes'
    BY <1>1, <1>2, TypesStep
  <2>3. Asleep' /\ Created' /\ Counting' /\ Opened' /\ Sums'
    BY <1>1, <2>1, AsleepStep, CreatedStep, CountingStep, OpenedStep, SumsStep
  <2>4. JoinsRight'
    BY <1>1, <1>2, JoinsStep
  <2> QED
    BY <2>2, <2>3, <2>4 DEF TsInv
<1>3. CASE UNCHANGED ReadBySums
  <2>1. /\ ts_at' = ts_at /\ ts_reg' = ts_reg /\ ts_reached' = ts_reached /\ sem' = sem
        /\ want' = want /\ pop' = pop /\ ts_vop' = ts_vop /\ sum' = sum
        /\ mixed' = mixed /\ printed' = printed
    BY <1>3 DEF ReadBySums
  <2>2. TsTypes' /\ Asleep' /\ Created'
    BY <1>1, <2>1 DEF TsTypes, Asleep, Created
  <2>3. Counting'
    BY <1>1, <2>1 DEF Counting
  <2>4. Opened' /\ Sums'
    BY <1>1, <2>1 DEF Opened, Sums
  <2>5. JoinsRight'
    BY <1>1, <2>1 DEF JoinsRight
  <2> QED
    BY <2>2, <2>3, <2>4, <2>5 DEF TsInv
<1>4. Sum!Return \/ UNCHANGED Sum!vars => UNCHANGED ReadBySums
  BY DEF Sum!Return, Sum!vars, Sum!library, ReadBySums
<1> QED
  BY <1>2, <1>3, <1>4 DEF Sum!Next

\* What the invariant says of the sums.
LEMMA TsShows ==
  ASSUME Sum!TreeAssumption, TsInv
  PROVE  SumsRight
<1>1. TsTypes /\ Asleep /\ Sums
  BY DEF TsInv
<1>2. \A k \in Sum!Nodes : sum[k] = IF ts_at[k] > Adding(k) THEN Sum!Total[k] ELSE 0
  BY <1>1 DEF Sums
<1>3. ASSUME NEW k \in Sum!Nodes, ts_at[k] > 0, NEW j \in 1 .. ts_at[k] - 1,
             Sum!Code[k][j].op \in {"leaf", "add"}
      PROVE  sum[k] = Sum!Total[k]
  <2>1. k \in Sum!Tids /\ ts_at[k] \in Nat /\ ts_at[k] <= Len(Sum!Code[k]) + 1 /\ Len(Sum!Code[k]) \in Nat
    BY <1>1, NodesAre, LengthIs DEF TsTypes, Asleep
  <2>2. j \in 1 .. Len(Sum!Code[k])
    BY <2>1
  <2>3. OpIs(k, Sum!Code[k], j)
    BY <2>1, <2>2, OpsAre
  <2>4. j = Adding(k)
    BY <1>3, <2>3 DEF OpIs
  <2>5. ts_at[k] > Adding(k)
    BY <2>1, <2>4
  <2> QED
    BY <1>2, <2>5
<1>4. /\ pop \in {0, -1, -num_nodes}
      /\ ts_vop \in {0, 1} \cup {Sum!BarrierCount(k) : k \in Sum!Nodes}
  BY <1>1 DEF TsTypes
<1>5. \A k \in Sum!Nodes : sum[k] # 0 => sum[k] = Sum!Total[k]
  BY <1>2
<1>6. ~mixed => Sum!PrintedRight
  BY DEF TsInv, JoinsRight, Sum!PrintedRight
<1> QED
  BY <1>3, <1>4, <1>5, <1>6 DEF SumsRight, Sum!SumsRight

\* A node that is past its own sum has the sum of its subtree, for every tree and all values, and
\* whatever the threads have stored in the sembufs they share (computesum.c with foothread.c):
\* a barrier waits too long at most, and never lets a node go before its children.  What main
\* prints is the sum of the tree unless a semop has used a number that was meant for another.
THEOREM TreeSummed == ASSUME Sum!TreeAssumption PROVE Sum!Spec => []SumsRight
<1>1. Sum!Init => TsInv
  BY TsStart
<1>2. TsInv /\ [Sum!Next]_(Sum!vars) => TsInv'
  BY TsStep
<1>3. TsInv => SumsRight
  BY TsShows
<1> QED
  BY <1>1, <1>2, <1>3, PTL DEF Sum!Spec

=============================================================================
