---------------------------- MODULE PagingProofs ----------------------------
(***************************************************************************)
(* The paging simulation for any numbers of processes and frames and any   *)
(* reference strings.  The number of pages is at most 22: above that an    *)
(* illegal page number can be 247, which reaches the MMU as PROCESS_DONE,  *)
(* and the process that asked for it is never answered.                    *)
(***************************************************************************)
EXTENDS Paging, FiniteSetTheorems, SequenceTheorems, TLAPS

Frame == Frames \cup {-1}
Requests == [id : Procs, page : Nat \cup {PROCESS_DONE}]
Answers == Frames \cup {PAGE_FAULT, INVALID_PAGE_NUMBER}

\* The reference process i has come to.
Wanted(i) == refs[i][count[i] + 1]

\* Request j is for a page of process i, no other one is.
Asks(j, i) == req[j].id = i /\ req[j].page # PROCESS_DONE
Asked(i) == \E j \in 1 .. Len(req) : Asks(j, i)
AskedOnce(i) == \A j, l \in 1 .. Len(req) : Asks(j, i) /\ Asks(l, i) => j = l

\* The master forks the processes in their order, the scheduler and the MMU go on
\* until they have counted k ends, and the MMU loads only what it takes for pages.
Counted ==
    /\ master = "create" => forked < k
    /\ \A i \in Procs : i >= forked => ppc[i] = "unborn"
    /\ \A i \in Procs : ppc[i] = "aborted" => ~Queues
    /\ spc \in {"ready", "note"} => term_count < k
    /\ mpc \in {"recv", "invalid", "fault"} => terminated < k
    /\ mpc = "fault" => cur.page \in 0 .. pages[cur.id]

\* A process waits for an answer exactly while it has a request or an answer
\* under way, and it has one of them.  A request is for the page it has come to,
\* or says that the process is done.
Dialogue ==
    /\ \A i \in Procs : MayGenerate(i)
    /\ \A i \in Procs : AskedOnce(i)
    /\ \A i \in Procs : ppc[i] = "recv" =>
          /\ count[i] < Len(refs[i])
          /\ \/ reply[i] = << >> /\ Asked(i)
             \/ Len(reply[i]) = 1 /\ ~Asked(i)
    /\ \A i \in Procs : ppc[i] \notin {"recv", "aborted"} => reply[i] = << >> /\ ~Asked(i)
    /\ \A j \in 1 .. Len(req) :
          IF req[j].page = PROCESS_DONE THEN ppc[req[j].id] = "exited"
          ELSE /\ req[j].page = Wanted(req[j].id)
               /\ count[req[j].id] < Len(refs[req[j].id])

TalkInv == TypeOK /\ Counted /\ Dialogue
-----------------------------------------------------------------------------
(* The numbers and the queues                                              *)

\* What a reference of the processes looks like in a signed char: legal only if
\* it is the same number, and never PROCESS_DONE.
LEMMA CharFacts ==
  ASSUME m \in Nat, m <= 22, NEW p \in 0 .. 11 * m - 1
  PROVE  /\ Char(p) \in -128 .. 127 /\ Char(p) # PROCESS_DONE
         /\ Char(p) >= 0 => Char(p) = p
<1>1. p \in 0 .. 241
  OBVIOUS
<1>2. \A x \in 0 .. 241 :
         LET y == ((x + 128) % 256) - 128
         IN  y \in -128 .. 127 /\ y # -9 /\ (y >= 0 => y = x)
  OBVIOUS
<1> QED
  BY <1>1, <1>2 DEF Char, PROCESS_DONE

LEMMA CharDone == Char(PROCESS_DONE) = PROCESS_DONE
BY DEF Char, PROCESS_DONE

\* Slots of different pages are different, and lie in the row of their process.
LEMMA SlotFacts ==
  ASSUME m \in Nat, NEW i \in Nat, NEW j \in Nat, NEW p \in 0 .. m - 1, NEW q \in 0 .. m - 1,
         Slot(i, p) = Slot(j, q)
  PROVE  i = j /\ p = q
<1>1. i * m + p = j * m + q /\ p < m /\ q < m
  BY DEF Slot
<1>2. ASSUME NEW a \in Nat, NEW b \in Nat, a < b PROVE a * m + m <= b * m
  <2>1. PICK d \in Nat : b = a + 1 + d
    <3>1. b - a - 1 \in Nat /\ b = a + 1 + (b - a - 1)
      BY <1>2
    <3> QED
      BY <3>1
  <2>2. b * m = a * m + m + d * m /\ d * m \in Nat
    BY <2>1
  <2> QED
    BY <2>2
<1>3. i * m \in Nat /\ j * m \in Nat
  OBVIOUS
<1>4. ~(i < j)
  BY <1>1, <1>2, <1>3
<1>5. ~(j < i)
  BY <1>1, <1>2, <1>3
<1> QED
  BY <1>1, <1>4, <1>5

\* Every page of a process, and the one behind its last one, has a slot.
LEMMA SlotExists ==
  ASSUME PagingAssumption, NEW i \in Procs, NEW p \in 0 .. m
  PROVE  Slot(i, p) \in Slots /\ Slot(i, p) \in Nat /\ (p < m => Slot(i, p) \in 0 .. k * m - 1)
<1>1. k \in Nat /\ m \in Nat /\ i \in Nat /\ i <= k - 1
  BY DEF PagingAssumption, Procs
<1>2. PICK d \in Nat : k = i + 1 + d
  <2>1. k - i - 1 \in Nat /\ k = i + 1 + (k - i - 1)
    BY <1>1
  <2> QED
    BY <2>1
<1>3. k * m = i * m + m + d * m /\ d * m \in Nat /\ i * m \in Nat
  BY <1>1, <1>2
<1> QED
  BY <1>1, <1>3 DEF Slot, Slots

\* A request is sent.
LEMMA Sent ==
  ASSUME req \in Seq(Requests), NEW r \in Requests, req' = Append(req, r)
  PROVE  /\ req' \in Seq(Requests)
         /\ Len(req) \in Nat /\ Len(req') = Len(req) + 1 /\ req'[Len(req) + 1] = r
         /\ \A j \in 1 .. Len(req) : req'[j] = req[j]
         /\ \A i : Asked(i)' <=> Asked(i) \/ (r.id = i /\ r.page # PROCESS_DONE)
         /\ \A i : AskedOnce(i) /\ (r.id = i /\ r.page # PROCESS_DONE => ~Asked(i)) => AskedOnce(i)'
<1>1. /\ req' \in Seq(Requests) /\ Len(req) \in Nat /\ Len(req') = Len(req) + 1 /\ req'[Len(req) + 1] = r
      /\ \A j \in 1 .. Len(req) : req'[j] = req[j]
  BY AppendProperties, LenProperties
<1>2. \A j : j \in 1 .. Len(req') <=> j \in 1 .. Len(req) \/ j = Len(req) + 1
  BY <1>1
<1>3. \A i : \A j \in 1 .. Len(req) : Asks(j, i)' <=> Asks(j, i)
  BY <1>1 DEF Asks
<1>4. \A i, j : j = Len(req) + 1 => (Asks(j, i)' <=> r.id = i /\ r.page # PROCESS_DONE)
  BY <1>1 DEF Asks, PROCESS_DONE
<1>5. ASSUME NEW i PROVE Asked(i)' <=> Asked(i) \/ (r.id = i /\ r.page # PROCESS_DONE)
  BY <1>1, <1>2, <1>3, <1>4 DEF Asked, Asks
<1>6. ASSUME NEW i, AskedOnce(i), r.id = i /\ r.page # PROCESS_DONE => ~Asked(i) PROVE AskedOnce(i)'
  <2> SUFFICES ASSUME NEW j \in 1 .. Len(req'), NEW l \in 1 .. Len(req'), Asks(j, i)', Asks(l, i)' PROVE j = l
    BY DEF AskedOnce
  <2>1. CASE j \in 1 .. Len(req) /\ l \in 1 .. Len(req)
    BY <1>3, <1>6, <2>1 DEF AskedOnce
  <2>2. CASE j = Len(req) + 1 /\ l \in 1 .. Len(req)
    BY <1>3, <1>4, <1>6, <2>2 DEF Asked
  <2>3. CASE l = Len(req) + 1 /\ j \in 1 .. Len(req)
    BY <1>3, <1>4, <1>6, <2>3 DEF Asked
  <2> QED
    BY <1>2, <2>1, <2>2, <2>3
<1> QED
  BY <1>1, <1>5, <1>6

\* A request is taken.
LEMMA Taken ==
  ASSUME req \in Seq(Requests), req # << >>, req' = Tail(req)
  PROVE  /\ req' \in Seq(Requests) /\ Head(req) = req[1] /\ Head(req) \in Requests
         /\ Len(req) \in Nat /\ Len(req') = Len(req) - 1 /\ Len(req) > 0
         /\ \A j \in 1 .. Len(req') : req'[j] = req[j + 1]
         /\ \A i : AskedOnce(i) => AskedOnce(i)'
         /\ \A i : Asked(i)' => Asked(i)
         /\ \A i : AskedOnce(i) /\ Asks(1, i) => Asked(i) /\ ~Asked(i)'
         /\ \A i : Asked(i) /\ ~Asks(1, i) => Asked(i)'
<1>1. /\ req' \in Seq(Requests) /\ Head(req) = req[1] /\ Head(req) \in Requests
      /\ Len(req) \in Nat /\ Len(req') = Len(req) - 1 /\ Len(req) > 0
      /\ \A j \in 1 .. Len(req') : req'[j] = req[j + 1]
  BY HeadTailProperties, LenProperties, EmptySeq
<1>2. \A i : \A j \in 1 .. Len(req') : j + 1 \in 1 .. Len(req) /\ j + 1 # 1 /\ (Asks(j, i)' <=> Asks(j + 1, i))
  BY <1>1 DEF Asks
<1>3. \A j \in 1 .. Len(req) : j # 1 => \E l \in 1 .. Len(req') : j = l + 1
  <2> SUFFICES ASSUME NEW j \in 1 .. Len(req), j # 1 PROVE \E l \in 1 .. Len(req') : j = l + 1
    OBVIOUS
  <2>1. j - 1 \in 1 .. Len(req') /\ j = (j - 1) + 1
    BY <1>1
  <2> QED
    BY <2>1
<1>4. ASSUME NEW i, AskedOnce(i) PROVE AskedOnce(i)'
  <2> SUFFICES ASSUME NEW j \in 1 .. Len(req'), NEW l \in 1 .. Len(req'), Asks(j, i)', Asks(l, i)' PROVE j = l
    BY DEF AskedOnce
  <2>1. j + 1 = l + 1
    BY <1>2, <1>4 DEF AskedOnce
  <2> QED
    BY <2>1
<1>5. \A i : Asked(i)' => Asked(i)
  BY <1>2 DEF Asked
<1>6. ASSUME NEW i, AskedOnce(i), Asks(1, i) PROVE Asked(i) /\ ~Asked(i)'
  <2>1. 1 \in 1 .. Len(req)
    BY <1>1
  <2> QED
    BY <1>2, <1>6, <2>1 DEF Asked, AskedOnce
<1>7. ASSUME NEW i, Asked(i), ~Asks(1, i) PROVE Asked(i)'
  BY <1>2, <1>3, <1>7 DEF Asked
<1> QED
  BY <1>1, <1>4, <1>5, <1>6, <1>7

\* The slots of a row, and the valid ones among them.
LEMMA RowFacts ==
  ASSUME PagingAssumption, NEW i \in Procs
  PROVE  /\ RowSlots(i) \subseteq Slots /\ Cardinality(RowSlots(i)) \in Nat
         /\ \A s \in RowSlots(i) : page_table[s].valid /\ \E p \in 0 .. m - 1 : s = Slot(i, p)
         /\ \A p \in 0 .. m - 1 : page_table[Slot(i, p)].valid => Slot(i, p) \in RowSlots(i)
<1>1. m \in Nat /\ i \in Nat /\ i * m \in Nat
  BY DEF PagingAssumption, Procs
<1>2. \A s : s \in i * m .. i * m + m - 1 <=> \E p \in 0 .. m - 1 : s = Slot(i, p)
  <2>1. ASSUME NEW s \in i * m .. i * m + m - 1 PROVE \E p \in 0 .. m - 1 : s = Slot(i, p)
    <3>1. s - i * m \in 0 .. m - 1 /\ s = i * m + (s - i * m)
      BY <1>1
    <3> QED
      BY <3>1 DEF Slot
  <2>2. ASSUME NEW p \in 0 .. m - 1 PROVE Slot(i, p) \in i * m .. i * m + m - 1
    BY <1>1 DEF Slot
  <2> QED
    BY <2>1, <2>2
<1>3. \A p \in 0 .. m - 1 : Slot(i, p) \in Slots
  BY <1>1, SlotExists
<1>4. IsFiniteSet(i * m .. i * m + m - 1)
  BY <1>1, FS_Interval
<1>5. RowSlots(i) \subseteq i * m .. i * m + m - 1
  BY DEF RowSlots
<1>6. Cardinality(RowSlots(i)) \in Nat
  BY <1>4, <1>5, FS_Subset, FS_CardinalityType
<1> QED
  BY <1>2, <1>3, <1>5, <1>6 DEF RowSlots

\* What FreePages does: the numbers of the valid pages, each once, follow those
\* that are free.
LEMMA Freed ==
  ASSUME PagingAssumption, TypeOK, NEW i \in Procs, FreePages(i)
  PROVE  /\ page_table' = [s \in Slots |-> IF s \in RowSlots(i) THEN [page_table[s] EXCEPT !.valid = FALSE]
                                                               ELSE page_table[s]]
         /\ page_table' \in [Slots -> [valid : BOOLEAN, frame_number : Frame]]
         /\ freelist' \in Seq(Frame)
         /\ \E seq \in [1 .. Cardinality(RowSlots(i)) -> RowSlots(i)] :
               /\ Len(freelist') = Len(freelist) + Cardinality(RowSlots(i))
               /\ \A j \in 1 .. Len(freelist) : freelist'[j] = freelist[j]
               /\ \A j \in 1 .. Cardinality(RowSlots(i)) :
                     freelist'[Len(freelist) + j] = page_table[seq[j]].frame_number
               /\ \A j, l \in 1 .. Cardinality(RowSlots(i)) : seq[j] = seq[l] => j = l
<1>1. /\ page_table \in [Slots -> [valid : BOOLEAN, frame_number : Frame]] /\ freelist \in Seq(Frame)
  BY DEF TypeOK, Frame
<1>2. page_table' = [s \in Slots |-> IF s \in RowSlots(i) THEN [page_table[s] EXCEPT !.valid = FALSE]
                                                         ELSE page_table[s]]
  BY DEF FreePages, Dropped
<1>3. page_table' \in [Slots -> [valid : BOOLEAN, frame_number : Frame]]
  <2>1. \A s \in Slots : [page_table[s] EXCEPT !.valid = FALSE] \in [valid : BOOLEAN, frame_number : Frame]
    BY <1>1
  <2> QED
    BY <1>1, <1>2, <2>1
<1>4. /\ RowSlots(i) \subseteq Slots /\ Cardinality(RowSlots(i)) \in Nat
  BY RowFacts
<1> DEFINE c == Cardinality(RowSlots(i))
<1>5. PICK seq \in Ascending(RowSlots(i)) :
        freelist' = freelist \o [j \in DOMAIN seq |-> page_table[seq[j]].frame_number]
  BY DEF FreePages, Returned
<1>6. /\ seq \in [1 .. c -> RowSlots(i)] /\ DOMAIN seq = 1 .. c
      /\ \A j, l \in 1 .. c : j < l => seq[j] < seq[l]
  BY <1>5 DEF Ascending
<1>7. \A j, l \in 1 .. c : seq[j] = seq[l] => j = l
  <2> SUFFICES ASSUME NEW j \in 1 .. c, NEW l \in 1 .. c, seq[j] = seq[l], j # l PROVE FALSE
    OBVIOUS
  <2>1. seq[j] \in Int /\ seq[l] \in Int
    <3>1. RowSlots(i) \subseteq Int
      BY DEF RowSlots
    <3> QED
      BY <1>6, <3>1
  <2>2. j < l \/ l < j
    BY <1>4
  <2> QED
    BY <1>6, <2>1, <2>2
<1> DEFINE back == [j \in DOMAIN seq |-> page_table[seq[j]].frame_number]
<1> HIDE DEF c
<1>8. back \in [1 .. c -> Frame]
  BY <1>1, <1>4, <1>6
<1>9. back \in Seq(Frame) /\ Len(back) = c /\ \A j \in 1 .. c : back[j] = page_table[seq[j]].frame_number
  BY <1>4, <1>6, <1>8 DEF c
<1> HIDE DEF back
<1>10. /\ freelist' \in Seq(Frame) /\ Len(freelist') = Len(freelist) + c
       /\ \A j \in 1 .. Len(freelist) + c : freelist'[j] = IF j <= Len(freelist) THEN freelist[j] ELSE back[j - Len(freelist)]
  <2>1. freelist' = freelist \o back
    BY <1>5 DEF back
  <2>2. \A x, y \in Seq(Frame) :
             /\ x \o y \in Seq(Frame) /\ Len(x \o y) = Len(x) + Len(y)
             /\ \A j \in 1 .. Len(x) + Len(y) : (x \o y)[j] = IF j <= Len(x) THEN x[j] ELSE y[j - Len(x)]
    BY ConcatProperties
  <2>3. /\ freelist' \in Seq(Frame) /\ Len(freelist') = Len(freelist) + Len(back)
        /\ \A j \in 1 .. Len(freelist) + Len(back) :
              freelist'[j] = IF j <= Len(freelist) THEN freelist[j] ELSE back[j - Len(freelist)]
    BY <1>1, <1>9, <2>1, <2>2, Zenon
  <2> QED
    BY <1>9, <2>3
<1>11. Len(freelist) \in Nat /\ c \in Nat
  BY <1>1, <1>4, LenProperties DEF c
<1>12. \A j \in 1 .. Len(freelist) : freelist'[j] = freelist[j]
  <2> SUFFICES ASSUME NEW j \in 1 .. Len(freelist) PROVE freelist'[j] = freelist[j]
    OBVIOUS
  <2>1. j \in 1 .. Len(freelist) + c /\ j <= Len(freelist)
    BY <1>11
  <2> QED
    BY <1>10, <2>1
<1>13. \A j \in 1 .. c : freelist'[Len(freelist) + j] = page_table[seq[j]].frame_number
  <2> SUFFICES ASSUME NEW j \in 1 .. c PROVE freelist'[Len(freelist) + j] = page_table[seq[j]].frame_number
    OBVIOUS
  <2>1. /\ Len(freelist) + j \in 1 .. Len(freelist) + c /\ ~(Len(freelist) + j <= Len(freelist))
        /\ (Len(freelist) + j) - Len(freelist) = j
    BY <1>11
  <2> QED
    BY <1>9, <1>10, <2>1
<1> QED
  BY <1>2, <1>3, <1>6, <1>7, <1>10, <1>12, <1>13 DEF c

\* What a request looks like to the MMU.
LEMMA RequestFacts ==
  ASSUME PagingAssumption, m <= 22, TalkInv, Queues, req # << >>
  PROVE  /\ Head(req) = req[1] /\ Request \in [id : Procs, page : -128 .. 127]
         /\ Request.id = req[1].id /\ 1 \in 1 .. Len(req)
         /\ req[1].page = PROCESS_DONE => Request.page = PROCESS_DONE /\ ppc[Request.id] = "exited"
         /\ req[1].page # PROCESS_DONE =>
               /\ Request.page # PROCESS_DONE /\ Asks(1, Request.id) /\ req[1].page = Wanted(Request.id)
               /\ count[Request.id] < Len(refs[Request.id])
               /\ Request.page >= 0 => Request.page = Wanted(Request.id)
<1>1. req \in Seq(Requests) /\ count \in [Procs -> Nat] /\ refs \in [Procs -> RefStrings] /\ pages \in [Procs -> 1 .. m]
  BY DEF TalkInv, TypeOK, Requests
<1>2. Head(req) = req[1] /\ req[1] \in Requests /\ 1 \in 1 .. Len(req)
  BY <1>1, HeadTailProperties, LenProperties, EmptySeq
<1>3. /\ IF req[1].page = PROCESS_DONE THEN ppc[req[1].id] = "exited"
         ELSE req[1].page = Wanted(req[1].id) /\ count[req[1].id] < Len(refs[req[1].id])
      /\ \A i \in Procs : MayGenerate(i)
  BY <1>2 DEF TalkInv, Dialogue
<1>4. req[1].id \in Procs /\ Request.id = req[1].id /\ Request.page = Char(req[1].page)
      /\ Request = [id |-> req[1].id, page |-> Char(req[1].page)]
  BY <1>2 DEF Requests, Request
<1>5. CASE req[1].page = PROCESS_DONE
  <2>1. Request.page = PROCESS_DONE /\ PROCESS_DONE \in -128 .. 127
    BY <1>4, <1>5, CharDone DEF PROCESS_DONE
  <2>2. Request \in [id : Procs, page : -128 .. 127]
    BY <1>4, <2>1
  <2> QED
    BY <1>2, <1>3, <1>4, <1>5, <2>1, <2>2
<1>6. CASE req[1].page # PROCESS_DONE
  <2> DEFINE i == req[1].id
             p == req[1].page
  <2>1. p = Wanted(i) /\ count[i] < Len(refs[i]) /\ i \in Procs
    BY <1>3, <1>4, <1>6
  <2> HIDE DEF i, p
  <2>2. p \in 0 .. 11 * m - 1
    <3>1. refs[i] \in Seq(Nat) /\ count[i] \in Nat /\ pages[i] \in 1 .. m /\ m \in Nat
      BY <1>1, <2>1 DEF PagingAssumption
    <3>2. count[i] + 1 \in DOMAIN refs[i]
      <4>1. Len(refs[i]) \in Nat /\ DOMAIN refs[i] = 1 .. Len(refs[i])
        BY <3>1, LenProperties
      <4> QED
        BY <2>1, <3>1, <4>1
    <3>3. p \in 0 .. pages[i] + 10 * m - 1
      BY <1>3, <2>1, <3>2 DEF MayGenerate, Wanted
    <3> QED
      BY <3>1, <3>3
  <2>3. Char(p) \in -128 .. 127 /\ Char(p) # PROCESS_DONE /\ (Char(p) >= 0 => Char(p) = p)
    BY <2>2, CharFacts DEF PagingAssumption
  <2> USE DEF i, p
  <2>4. Request \in [id : Procs, page : -128 .. 127]
    BY <1>4, <2>3
  <2>5. Asks(1, Request.id)
    BY <1>4, <1>6 DEF Asks
  <2> QED
    BY <1>2, <1>4, <1>6, <2>1, <2>3, <2>4, <2>5
<1> QED
  BY <1>5, <1>6

\* Each process in turn, and the types as they are used below.
LEMMA PagingTypes ==
  ASSUME PagingAssumption, TypeOK
  PROVE  /\ pages \in [Procs -> 1 .. m] /\ refs \in [Procs -> RefStrings] /\ refs \in [Procs -> Seq(Nat)]
         /\ page_table \in [Slots -> [valid : BOOLEAN, frame_number : Frame]]
         /\ freelist \in Seq(Frame)
         /\ ready \in Seq(Procs) /\ notes \in Seq({"handled", "term"})
         /\ wake \in [Procs -> Nat] /\ req \in Seq(Requests) /\ reply \in [Procs -> Seq(Answers)]
         /\ ppc \in [Procs -> {"unborn", "start", "wait", "send", "recv", "done", "exited", "aborted"}]
         /\ count \in [Procs -> Nat] /\ \A i \in Procs : count[i] <= Len(refs[i]) /\ Len(refs[i]) \in Nat
         /\ spc \in {"ready", "note", "stop", "paused", "killed"}
         /\ sid \in Procs /\ term_count \in Nat /\ term_count <= k
         /\ mpc \in {"recv", "invalid", "fault", "finished", "crashed", "killed"}
         /\ cur \in [id : Procs, page : -128 .. 127] /\ terminated \in Nat /\ terminated <= k
         /\ master \in {"create", "test", "call", "pause", "cleanup", "over"}
         /\ forked \in Nat /\ forked <= k /\ signalled \in BOOLEAN /\ flag \in BOOLEAN
         /\ k \in Nat /\ m \in Nat /\ f \in Nat /\ \A i \in Procs : i \in Nat /\ i < k
<1>1. k \in Nat /\ m \in Nat /\ f \in Nat /\ \A i \in Procs : i \in Nat /\ i < k
  BY DEF PagingAssumption, Procs
<1>2. refs \in [Procs -> Seq(Nat)] /\ count \in [Procs -> Nat] /\ \A i \in Procs : count[i] <= Len(refs[i])
  BY DEF TypeOK, PagingAssumption
<1>3. \A i \in Procs : Len(refs[i]) \in Nat
  BY <1>2, LenProperties
<1>4. term_count \in 0 .. k /\ terminated \in 0 .. k /\ forked \in 0 .. k
  BY DEF TypeOK
<1>5. /\ pages \in [Procs -> 1 .. m] /\ refs \in [Procs -> RefStrings]
      /\ page_table \in [Slots -> [valid : BOOLEAN, frame_number : Frame]]
      /\ freelist \in Seq(Frame)
  BY DEF TypeOK, Frame
<1>6. /\ ready \in Seq(Procs) /\ notes \in Seq({"handled", "term"})
      /\ wake \in [Procs -> Nat] /\ req \in Seq(Requests) /\ reply \in [Procs -> Seq(Answers)]
      /\ ppc \in [Procs -> {"unborn", "start", "wait", "send", "recv", "done", "exited", "aborted"}]
  BY DEF TypeOK, Requests, Answers
<1>7. /\ spc \in {"ready", "note", "stop", "paused", "killed"} /\ sid \in Procs
      /\ mpc \in {"recv", "invalid", "fault", "finished", "crashed", "killed"}
      /\ cur \in [id : Procs, page : -128 .. 127]
      /\ master \in {"create", "test", "call", "pause", "cleanup", "over"}
      /\ signalled \in BOOLEAN /\ flag \in BOOLEAN
  BY DEF TypeOK
<1>8. /\ term_count \in Nat /\ term_count <= k /\ terminated \in Nat /\ terminated <= k
      /\ forked \in Nat /\ forked <= k
  BY <1>1, <1>4
<1> QED
  BY <1>1, <1>2, <1>3, <1>5, <1>6, <1>7, <1>8

\* The types in four groups.
Types1 ==
    /\ pages \in [Procs -> 1 .. m] /\ refs \in [Procs -> RefStrings]
    /\ page_table \in [Slots -> [valid : BOOLEAN, frame_number : Frame]] /\ freelist \in Seq(Frame)
Types2 ==
    /\ ready \in Seq(Procs) /\ notes \in Seq({"handled", "term"})
    /\ wake \in [Procs -> Nat] /\ req \in Seq(Requests) /\ reply \in [Procs -> Seq(Answers)]
Types3 ==
    /\ ppc \in [Procs -> {"unborn", "start", "wait", "send", "recv", "done", "exited", "aborted"}]
    /\ count \in [Procs -> Nat] /\ \A i \in Procs : count[i] <= Len(refs[i])
Types4 ==
    /\ spc \in {"ready", "note", "stop", "paused", "killed"} /\ sid \in Procs
    /\ term_count \in 0 .. k /\ terminated \in 0 .. k /\ forked \in 0 .. k
    /\ mpc \in {"recv", "invalid", "fault", "finished", "crashed", "killed"}
    /\ cur \in [id : Procs, page : -128 .. 127]
    /\ master \in {"create", "test", "call", "pause", "cleanup", "over"}
    /\ signalled \in BOOLEAN /\ flag \in BOOLEAN

\* The tables and the free list keep their types.
LEMMA MemoryTypes ==
  ASSUME PagingAssumption, m <= 22, TalkInv, Next
  PROVE  Types1'
<1>0. /\ TypeOK /\ pages \in [Procs -> 1 .. m] /\ refs \in [Procs -> RefStrings]
      /\ page_table \in [Slots -> [valid : BOOLEAN, frame_number : Frame]]
      /\ freelist \in Seq(Frame) /\ cur \in [id : Procs, page : -128 .. 127]
  BY PagingTypes DEF TalkInv
<1>1. CASE UNCHANGED <<static, memory>>
  BY <1>0, <1>1 DEF Types1, static, memory
<1>2. ASSUME NEW i \in Procs, FreePages(i), UNCHANGED static PROVE Types1'
  BY <1>0, <1>2, Freed DEF Types1, static
<1>3. ASSUME NEW table, NEW frame_number \in Frame,
             table \in [Slots -> [valid : BOOLEAN, frame_number : Frame]],
             page_table' = Loaded(table, frame_number)
      PROVE  page_table' \in [Slots -> [valid : BOOLEAN, frame_number : Frame]]
  BY <1>3 DEF Loaded
<1>4. CASE MmuLoad
  <2>1. freelist # << >> /\ freelist' = Front(freelist) /\ page_table' = Loaded(page_table, Last(freelist))
        /\ UNCHANGED static
    BY <1>4 DEF MmuLoad, FrameLeft, Handled
  <2>2. Len(freelist) \in Nat /\ Len(freelist) > 0 /\ \A j \in 1 .. Len(freelist) : freelist[j] \in Frame
    BY <1>0, <2>1, LenProperties, EmptySeq, ElementOfSeq
  <2>3. Last(freelist) \in Frame
    BY <2>2 DEF Last
  <2>4. freelist' \in Seq(Frame)
    BY <1>0, <2>1, <2>2 DEF Front
  <2> QED
    BY <1>0, <1>3, <2>1, <2>3, <2>4 DEF Types1, static
<1>5. CASE MmuEvict
  <2> DEFINE own == Slot(cur.id, cur.page)
             mini == IF Victims = {} THEN -1 ELSE CHOOSE i \in Victims : \A j \in Victims : i <= j
             frame == IF Victims = {} THEN -1 ELSE page_table[own].frame_number
             drop == Slot(cur.id, mini)
             table == IF drop \in Slots THEN [page_table EXCEPT ![drop].valid = FALSE] ELSE page_table
  <2>1. page_table' = Loaded(table, frame) /\ UNCHANGED <<static, freelist>> /\ mpc = "fault"
    BY <1>5 DEF MmuEvict, Handled
  <2>2. own \in Slots
    <3>1. cur.id \in Procs /\ cur.page \in 0 .. m
      BY <1>0, <2>1, PagingTypes DEF TalkInv, Counted
    <3> QED
      BY <3>1, SlotExists
  <2>3. page_table[own].frame_number \in Frame
    BY <1>0, <2>2
  <2> HIDE DEF own, drop
  <2>4. table \in [Slots -> [valid : BOOLEAN, frame_number : Frame]]
    BY <1>0
  <2>5. frame \in Frame
    BY <2>3 DEF Frame
  <2> HIDE DEF table, frame
  <2> QED
    BY <1>0, <1>3, <2>1, <2>4, <2>5 DEF Types1, static
<1>6. CASE MmuDone
  <2>1. Queues /\ req # << >> /\ FreePages(Request.id) /\ UNCHANGED static
    BY <1>6 DEF MmuDone, Serve
  <2>2. Request.id \in Procs
    BY <2>1, RequestFacts
  <2> QED
    BY <1>2, <2>1, <2>2
<1>7. CASE MmuReject
  BY <1>0, <1>2, <1>7 DEF MmuReject
<1> QED
  BY <1>1, <1>4, <1>5, <1>6, <1>7 DEF Next, Proc, ProcReady, ProcScheduled, ProcSend, ProcRecv, ProcDone,
     ProcAbort, Sched, SchedPick, SchedHandled, SchedTerm, SchedStop, Mmu, MmuInvalid, MmuHit, MmuFault,
     MmuCrash, Master, Fork, TestFlag, Pause, Handler, Clear, OthersIdle

\* A legal page has an entry.
LEMMA LookedFacts ==
  ASSUME PagingAssumption, m <= 22, TalkInv, Queues, req # << >>, ~Illegal(Request)
  PROVE  /\ Request.page \in 0 .. pages[Request.id] /\ Request.id \in Procs
         /\ Slot(Request.id, Request.page) \in Slots
         /\ Looked(Request).valid \in BOOLEAN /\ Looked(Request).frame_number \in Frame
<1>1. Request \in [id : Procs, page : -128 .. 127] /\ Request.id \in Procs /\ Request.page \in -128 .. 127
  BY RequestFacts
<1>2. pages[Request.id] \in 1 .. m /\ page_table \in [Slots -> [valid : BOOLEAN, frame_number : Frame]] /\ m \in Nat
  BY <1>1, PagingTypes DEF TalkInv
<1>3. Request.page \in 0 .. pages[Request.id] /\ Request.page \in 0 .. m
  <2>1. ~(Request.page < 0) /\ ~(pages[Request.id] < Request.page)
    BY DEF Illegal
  <2>2. \A x \in -128 .. 127, y \in 1 .. m : ~(x < 0) /\ ~(y < x) => x \in 0 .. y /\ x \in 0 .. m
    BY <1>2
  <2> QED
    BY <1>1, <1>2, <2>1, <2>2, Zenon
<1>4. Slot(Request.id, Request.page) \in Slots
  BY <1>1, <1>3, SlotExists
<1> QED
  BY <1>1, <1>2, <1>3, <1>4 DEF Looked

\* What the MMU does with the request it takes.
LEMMA ServeKinds ==
  ASSUME PagingAssumption, m <= 22, TalkInv, MmuDone \/ MmuInvalid \/ MmuHit \/ MmuFault
  PROVE  /\ Queues /\ mpc = "recv" /\ req # << >> /\ req' = Tail(req) /\ Request.id \in Procs
         /\ UNCHANGED <<static, ready, wake, procs, sched, mast>>
         /\ \/ /\ MmuDone /\ req[1].page = PROCESS_DONE /\ FreePages(Request.id)
               /\ notes' = Append(notes, "term") /\ terminated' = terminated + 1
               /\ mpc' = IF terminated + 1 = k THEN "finished" ELSE "recv"
               /\ UNCHANGED <<reply, cur>>
            \/ /\ req[1].page # PROCESS_DONE /\ UNCHANGED <<memory, notes, terminated>> /\ cur' = Request
               /\ \E a \in Answers :
                     /\ reply' = [reply EXCEPT ![Request.id] = Append(@, a)]
                     /\ \/ MmuInvalid /\ a = INVALID_PAGE_NUMBER /\ mpc' = "invalid" /\ Illegal(Request)
                        \/ /\ MmuHit /\ a = Looked(Request).frame_number /\ mpc' = "recv" /\ Looked(Request).valid
                           /\ ~Illegal(Request)
                        \/ /\ MmuFault /\ a = PAGE_FAULT /\ mpc' = "fault" /\ ~Looked(Request).valid
                           /\ ~Illegal(Request)
<1>1. Queues /\ mpc = "recv" /\ req # << >> /\ req' = Tail(req) /\ UNCHANGED <<static, ready, wake, procs, sched, mast>>
  BY DEF MmuDone, MmuInvalid, MmuHit, MmuFault, Serve
<1>2. /\ Request.id \in Procs
      /\ req[1].page = PROCESS_DONE => Request.page = PROCESS_DONE
      /\ req[1].page # PROCESS_DONE => Request.page # PROCESS_DONE
  BY <1>1, RequestFacts
<1>3. CASE MmuDone
  BY <1>1, <1>2, <1>3 DEF MmuDone, Serve
<1>4. CASE MmuInvalid
  <2>1. /\ req[1].page # PROCESS_DONE /\ UNCHANGED <<memory, notes, terminated>> /\ cur' = Request
        /\ reply' = [reply EXCEPT ![Request.id] = Append(@, INVALID_PAGE_NUMBER)]
        /\ mpc' = "invalid" /\ Illegal(Request) /\ INVALID_PAGE_NUMBER \in Answers
    BY <1>2, <1>4 DEF MmuInvalid, Serve, Answer, Answers
  <2> QED
    BY <1>1, <1>2, <1>4, <2>1
<1>5. ~Illegal(Request) => Request.page # PROCESS_DONE /\ Looked(Request).frame_number \in Answers
  <2> SUFFICES ASSUME ~Illegal(Request) PROVE Request.page # PROCESS_DONE /\ Looked(Request).frame_number \in Answers
    OBVIOUS
  <2>1. Request.page \in 0 .. pages[Request.id] /\ Looked(Request).frame_number \in Frame
    BY <1>1, LookedFacts
  <2>2. pages[Request.id] \in Nat
    <3>1. pages \in [Procs -> 1 .. m] /\ m \in Nat
      BY PagingTypes DEF TalkInv
    <3>2. pages[Request.id] \in 1 .. m
      BY <1>2, <3>1, Zenon
    <3> QED
      BY <3>1, <3>2
  <2> QED
    BY <2>1, <2>2 DEF Frame, Answers, PROCESS_DONE, PAGE_FAULT
<1>6. CASE MmuHit
  <2>1. ~Illegal(Request)
    BY <1>6 DEF MmuHit, Serve
  <2>2. /\ req[1].page # PROCESS_DONE /\ UNCHANGED <<memory, notes, terminated>> /\ cur' = Request
        /\ reply' = [reply EXCEPT ![Request.id] = Append(@, Looked(Request).frame_number)]
        /\ mpc' = "recv" /\ Looked(Request).valid /\ Looked(Request).frame_number \in Answers
    BY <1>2, <1>5, <1>6, <2>1 DEF MmuHit, Serve, Answer
  <2> QED
    BY <1>1, <1>2, <1>6, <2>1, <2>2
<1>7. CASE MmuFault
  <2>1. ~Illegal(Request)
    BY <1>7 DEF MmuFault, Serve
  <2>2. /\ req[1].page # PROCESS_DONE /\ UNCHANGED <<memory, notes, terminated>> /\ cur' = Request
        /\ reply' = [reply EXCEPT ![Request.id] = Append(@, PAGE_FAULT)]
        /\ mpc' = "fault" /\ ~Looked(Request).valid /\ PAGE_FAULT \in Answers
    BY <1>2, <1>5, <1>7, <2>1 DEF MmuFault, Serve, Answer, Answers
  <2> QED
    BY <1>1, <1>2, <1>7, <2>1, <2>2
<1> QED
  BY <1>3, <1>4, <1>6, <1>7

\* The queues keep their types.
LEMMA QueueTypes ==
  ASSUME PagingAssumption, m <= 22, TalkInv, Next
  PROVE  Types2'
<1>0. /\ ready \in Seq(Procs) /\ notes \in Seq({"handled", "term"}) /\ sid \in Procs
      /\ wake \in [Procs -> Nat] /\ req \in Seq(Requests) /\ reply \in [Procs -> Seq(Answers)]
      /\ refs \in [Procs -> Seq(Nat)] /\ count \in [Procs -> Nat] /\ \A i \in Procs : Len(refs[i]) \in Nat
  BY PagingTypes DEF TalkInv
<1>1. CASE UNCHANGED <<ready, wake, notes, queue3>>
  BY <1>0, <1>1 DEF Types2, queue3
<1>2. ASSUME NEW i \in Procs, ProcReady(i) PROVE Types2'
  BY <1>0, <1>2, AppendProperties DEF ProcReady, queue3, Types2
<1>3. ASSUME NEW i \in Procs, ProcScheduled(i) PROVE Types2'
  BY <1>0, <1>3 DEF ProcScheduled, queue3, Types2
<1>4. ASSUME NEW i \in Procs, ProcSend(i) PROVE Types2'
  <2>1. refs[i][count[i] + 1] \in Nat
    <3>1. count[i] < Len(refs[i]) /\ refs[i] \in Seq(Nat) /\ count[i] \in Nat /\ Len(refs[i]) \in Nat
      BY <1>0, <1>4 DEF ProcSend
    <3>2. count[i] + 1 \in 1 .. Len(refs[i])
      BY <3>1
    <3> QED
      BY <3>1, <3>2, ElementOfSeq
  <2>2. [id |-> i, page |-> refs[i][count[i] + 1]] \in Requests
    BY <2>1 DEF Requests
  <2>3. req' \in Seq(Requests)
    BY <1>0, <1>4, <2>2, AppendProperties DEF ProcSend
  <2> QED
    BY <1>0, <1>4, <2>3 DEF ProcSend, Types2
<1>5. ASSUME NEW i \in Procs, ProcRecv(i) PROVE Types2'
  <2>1. reply[i] # << >> /\ reply' = [reply EXCEPT ![i] = Tail(@)] /\ UNCHANGED <<ready, wake, notes, req>>
    BY <1>5 DEF ProcRecv
  <2>2. Tail(reply[i]) \in Seq(Answers)
    BY <1>0, <2>1, HeadTailProperties
  <2> QED
    BY <1>0, <2>1, <2>2 DEF Types2
<1>6. ASSUME NEW i \in Procs, ProcDone(i) PROVE Types2'
  <2>1. [id |-> i, page |-> PROCESS_DONE] \in Requests
    BY DEF Requests
  <2>2. req' \in Seq(Requests)
    BY <1>0, <1>6, <2>1, AppendProperties DEF ProcDone
  <2> QED
    BY <1>0, <1>6, <2>2 DEF ProcDone, Types2
<1>7. CASE SchedPick
  <2>1. Head(ready) \in Procs /\ Tail(ready) \in Seq(Procs)
    BY <1>0, <1>7, HeadTailProperties DEF SchedPick
  <2>2. wake' = [wake EXCEPT ![Head(ready)] = @ + 1] /\ ready' = Tail(ready) /\ UNCHANGED <<notes, req, reply>>
    BY <1>7 DEF SchedPick, queue3
  <2>3. wake' \in [Procs -> Nat]
    <3>1. wake \in [Procs -> Nat]
      BY <1>0
    <3>2. \A i \in Procs : [wake EXCEPT ![i] = @ + 1] \in [Procs -> Nat]
      BY <3>1
    <3> DEFINE i == Head(ready)
    <3>3. i \in Procs /\ wake' = [wake EXCEPT ![i] = @ + 1]
      BY <2>1, <2>2
    <3> HIDE DEF i
    <3> QED
      BY <3>2, <3>3
  <2> QED
    BY <1>0, <2>1, <2>2, <2>3 DEF Types2
<1>8. CASE SchedHandled \/ SchedTerm
  <2>1. Tail(notes) \in Seq({"handled", "term"}) /\ Append(ready, sid) \in Seq(Procs)
    BY <1>0, <1>8, HeadTailProperties, AppendProperties DEF SchedHandled, SchedTerm
  <2> QED
    BY <1>0, <1>8, <2>1 DEF SchedHandled, SchedTerm, queue3, Types2
<1>9. CASE MmuReject \/ MmuLoad \/ MmuEvict
  <2>1. notes' \in {Append(notes, "term"), Append(notes, "handled")} /\ UNCHANGED <<ready, wake, queue3>>
    BY <1>9 DEF MmuReject, MmuLoad, MmuEvict, Handled
  <2>2. Append(notes, "term") \in Seq({"handled", "term"}) /\ Append(notes, "handled") \in Seq({"handled", "term"})
    BY <1>0, AppendProperties
  <2> QED
    BY <1>0, <2>1, <2>2 DEF queue3, Types2
<1>10. CASE MmuDone \/ MmuInvalid \/ MmuHit \/ MmuFault
  <2>1. /\ req # << >> /\ req' = Tail(req) /\ UNCHANGED <<ready, wake>> /\ Request.id \in Procs
        /\ notes' = notes \/ notes' = Append(notes, "term")
        /\ reply' = reply \/ \E a \in Answers : reply' = [reply EXCEPT ![Request.id] = Append(@, a)]
    BY <1>10, ServeKinds
  <2>2. req' \in Seq(Requests) /\ notes' \in Seq({"handled", "term"})
    <3>1. Append(notes, "term") \in Seq({"handled", "term"})
      BY <1>0, AppendProperties
    <3> QED
      BY <1>0, <2>1, <3>1, HeadTailProperties
  <2>3. reply' \in [Procs -> Seq(Answers)]
    <3>1. \A a \in Answers, i \in Procs : Append(reply[i], a) \in Seq(Answers)
      BY <1>0, AppendProperties
    <3>2. \A a \in Answers, i \in Procs : [reply EXCEPT ![i] = Append(@, a)] \in [Procs -> Seq(Answers)]
      BY <1>0, <3>1
    <3>3. CASE reply' = reply
      BY <1>0, <3>3
    <3>4. ASSUME NEW a \in Answers, reply' = [reply EXCEPT ![Request.id] = Append(@, a)]
          PROVE  reply' \in [Procs -> Seq(Answers)]
      <4> DEFINE i == Request.id
      <4>1. i \in Procs /\ reply' = [reply EXCEPT ![i] = Append(@, a)]
        BY <2>1, <3>4
      <4> HIDE DEF i
      <4> QED
        BY <3>2, <4>1
    <3> QED
      BY <2>1, <3>3, <3>4
  <2> QED
    BY <1>0, <2>1, <2>2, <2>3 DEF Types2
<1>11. CASE Master \/ SchedStop \/ MmuCrash \/ \E i \in Procs : ProcAbort(i)
  BY <1>1, <1>11 DEF Master, Fork, TestFlag, Pause, Handler, Clear, OthersIdle, SchedStop, MmuCrash, ProcAbort
<1> QED
  BY <1>2, <1>3, <1>4, <1>5, <1>6, <1>7, <1>8, <1>9, <1>10, <1>11 DEF Next, Proc, Sched, Mmu

\* The processes keep their places and never go beyond their strings.
LEMMA ProcTypes ==
  ASSUME PagingAssumption, TalkInv, Next
  PROVE  Types3'
<1>0. /\ ppc \in [Procs -> {"unborn", "start", "wait", "send", "recv", "done", "exited", "aborted"}]
      /\ count \in [Procs -> Nat] /\ \A i \in Procs : count[i] <= Len(refs[i]) /\ Len(refs[i]) \in Nat
  BY PagingTypes DEF TalkInv
<1>1. ASSUME NEW i \in Procs, ProcRecv(i) PROVE Types3'
  <2>1. /\ ppc[i] = "recv" /\ ppc' \in {[ppc EXCEPT ![i] = "done"], [ppc EXCEPT ![i] = "send"]}
        /\ count' \in {count, [count EXCEPT ![i] = @ + 1]} /\ UNCHANGED refs
    BY <1>0, <1>1 DEF ProcRecv, ProcGoto, static
  <2>2. count[i] < Len(refs[i])
    BY <2>1 DEF TalkInv, Dialogue
  <2>3. ppc' \in [Procs -> {"unborn", "start", "wait", "send", "recv", "done", "exited", "aborted"}]
    BY <1>0, <2>1
  <2>4. count' \in [Procs -> Nat] /\ \A j \in Procs : count'[j] <= Len(refs[j])
    <3>1. CASE count' = count
      BY <1>0, <3>1
    <3>2. CASE count' = [count EXCEPT ![i] = @ + 1]
      BY <1>0, <2>2, <3>2
    <3> QED
      BY <2>1, <3>1, <3>2
  <2> QED
    BY <2>1, <2>3, <2>4 DEF Types3
<1>2. CASE UNCHANGED <<ppc, count, refs>>
  BY <1>0, <1>2 DEF Types3
<1>3. ASSUME NEW i \in Procs, NEW to \in {"start", "wait", "send", "recv", "exited", "aborted"},
             ppc' = [ppc EXCEPT ![i] = to], UNCHANGED <<count, refs>>
      PROVE  Types3'
  BY <1>0, <1>3 DEF Types3
<1>4. ASSUME NEW i \in Procs, ProcReady(i) \/ ProcScheduled(i) \/ ProcSend(i) \/ ProcDone(i) \/ ProcAbort(i)
      PROVE  Types3'
  <2>1. /\ UNCHANGED <<count, refs>>
        /\ \E to \in {"start", "wait", "send", "recv", "exited", "aborted"} : ppc' = [ppc EXCEPT ![i] = to]
    BY <1>4 DEF ProcReady, ProcScheduled, ProcSend, ProcDone, ProcAbort, ProcGoto, static
  <2> QED
    BY <1>3, <2>1
<1>5. CASE Fork
  <2>1. forked \in Procs
    BY <1>5, PagingTypes DEF Fork, TalkInv, Counted, Procs
  <2> QED
    BY <1>3, <1>5, <2>1 DEF Fork, OthersIdle, static
<1>6. CASE Sched \/ Mmu \/ TestFlag \/ Pause \/ Handler \/ Clear
  BY <1>2, <1>6 DEF Sched, SchedPick, SchedHandled, SchedTerm, SchedStop, Mmu, MmuDone, MmuInvalid, MmuReject,
     MmuHit, MmuFault, MmuLoad, MmuEvict, MmuCrash, Handled, TestFlag, Pause, Handler, Clear, OthersIdle, static, procs
<1> QED
  BY <1>1, <1>4, <1>5, <1>6 DEF Next, Proc, Master

\* The scheduler, the MMU and the master keep their places and their counters in bounds.
LEMMA PlaceTypes ==
  ASSUME PagingAssumption, m <= 22, TalkInv, Next
  PROVE  Types4'
<1>0. /\ spc \in {"ready", "note", "stop", "paused", "killed"} /\ sid \in Procs
      /\ term_count \in 0 .. k /\ terminated \in 0 .. k /\ forked \in 0 .. k
      /\ mpc \in {"recv", "invalid", "fault", "finished", "crashed", "killed"}
      /\ cur \in [id : Procs, page : -128 .. 127]
      /\ master \in {"create", "test", "call", "pause", "cleanup", "over"}
      /\ signalled \in BOOLEAN /\ flag \in BOOLEAN
  BY DEF TalkInv, TypeOK
<1>1. k \in Nat /\ ready \in Seq(Procs)
  BY PagingTypes DEF TalkInv
<1>2. CASE UNCHANGED <<sched, mmu, mast>>
  BY <1>0, <1>2 DEF Types4, sched, mmu, mast
<1>3. CASE \E i \in Procs : Proc(i)
  BY <1>2, <1>3 DEF Proc, ProcReady, ProcScheduled, ProcSend, ProcRecv, ProcDone, ProcAbort
<1>4. CASE Sched
  <2>1. UNCHANGED <<mmu, master, forked, flag>> /\ signalled' \in BOOLEAN
    BY <1>0, <1>4 DEF Sched, SchedPick, SchedHandled, SchedTerm, SchedStop, mast
  <2>2. spc' \in {"ready", "note", "stop", "paused", "killed"}
    BY <1>4 DEF Sched, SchedPick, SchedHandled, SchedTerm, SchedStop
  <2>3. sid' \in Procs
    BY <1>0, <1>1, <1>4, HeadTailProperties DEF Sched, SchedPick, SchedHandled, SchedTerm, SchedStop
  <2>4. term_count' \in 0 .. k
    <3>1. CASE SchedTerm
      <4>1. term_count' = term_count + 1 /\ term_count < k
        BY <3>1 DEF SchedTerm, TalkInv, Counted
      <4> QED
        BY <1>0, <1>1, <4>1
    <3> QED
      BY <1>0, <1>4, <3>1 DEF Sched, SchedPick, SchedHandled, SchedStop
  <2> QED
    BY <1>0, <2>1, <2>2, <2>3, <2>4 DEF Types4, mmu
<1>5. CASE MmuDone \/ MmuInvalid \/ MmuHit \/ MmuFault
  <2>1. /\ UNCHANGED <<sched, mast>> /\ Queues /\ mpc = "recv" /\ req # << >>
        /\ mpc' \in {"recv", "finished", "invalid", "fault"}
        /\ cur' \in {cur, Request}
        /\ terminated' = terminated \/ terminated' = terminated + 1
    BY <1>5, ServeKinds
  <2>2. Request \in [id : Procs, page : -128 .. 127]
    BY <2>1, RequestFacts
  <2>3. terminated' \in 0 .. k
    <3>1. terminated < k
      BY <2>1 DEF TalkInv, Counted
    <3> QED
      BY <1>0, <1>1, <2>1, <3>1
  <2> QED
    BY <1>0, <2>1, <2>2, <2>3 DEF Types4, sched, mast
<1>6. CASE MmuReject \/ MmuLoad \/ MmuEvict \/ MmuCrash
  <2>1. UNCHANGED <<sched, mast, cur, terminated>> /\ mpc' \in {"recv", "crashed"}
    BY <1>6 DEF MmuReject, MmuLoad, MmuEvict, MmuCrash, Handled
  <2> QED
    BY <1>0, <2>1 DEF Types4, sched, mast
<1>7. CASE Master
  <2>1. forked' \in 0 .. k
    <3>1. CASE Fork
      <4>1. forked' = forked + 1 /\ forked < k
        BY <3>1 DEF Fork, TalkInv, Counted
      <4> QED
        BY <1>0, <1>1, <4>1
    <3> QED
      BY <1>0, <1>7, <3>1 DEF Master, TestFlag, Pause, Handler, Clear
  <2>2. /\ UNCHANGED <<sid, term_count, cur, terminated>>
        /\ spc' \in {spc, "killed"} /\ mpc' \in {mpc, "killed"}
        /\ signalled' \in {signalled, FALSE} /\ flag' \in {flag, TRUE}
        /\ master' \in {master, "create", "test", "call", "pause", "cleanup", "over"}
    BY <1>7 DEF Master, Fork, TestFlag, Pause, Handler, Clear, OthersIdle, sched, mmu
  <2>3. /\ spc' \in {"ready", "note", "stop", "paused", "killed"}
        /\ mpc' \in {"recv", "invalid", "fault", "finished", "crashed", "killed"}
        /\ master' \in {"create", "test", "call", "pause", "cleanup", "over"}
        /\ signalled' \in BOOLEAN /\ flag' \in BOOLEAN
    <3>1. spc' \in {"ready", "note", "stop", "paused", "killed"}
      BY <1>0, <2>2
    <3>2. mpc' \in {"recv", "invalid", "fault", "finished", "crashed", "killed"}
      BY <1>0, <2>2
    <3>3. master' \in {"create", "test", "call", "pause", "cleanup", "over"}
      BY <1>0, <2>2
    <3>4. signalled' \in BOOLEAN
      BY <1>0, <2>2
    <3>5. flag' \in BOOLEAN
      BY <1>0, <2>2
    <3> QED
      BY <3>1, <3>2, <3>3, <3>4, <3>5
  <2> QED
    BY <1>0, <2>1, <2>2, <2>3 DEF Types4
<1> QED
  BY <1>3, <1>4, <1>5, <1>6, <1>7 DEF Next, Mmu

\* Every variable keeps its type.
LEMMA TypesKept ==
  ASSUME PagingAssumption, m <= 22, TalkInv, Next
  PROVE  TypeOK'
<1>1. Types1' /\ Types2' /\ Types3' /\ Types4'
  BY MemoryTypes, QueueTypes, ProcTypes, PlaceTypes
<1> QED
  BY <1>1 DEF TypeOK, Types1, Types2, Types3, Types4, Frame, Requests, Answers

\* Forks and ends are counted right.
LEMMA CountedKept ==
  ASSUME PagingAssumption, m <= 22, TalkInv, Next
  PROVE  Counted'
<1>0. /\ master = "create" => forked < k
      /\ \A i \in Procs : i >= forked => ppc[i] = "unborn"
      /\ \A i \in Procs : ppc[i] = "aborted" => ~Queues
      /\ spc \in {"ready", "note"} => term_count < k
      /\ mpc \in {"recv", "invalid", "fault"} => terminated < k
      /\ mpc = "fault" => cur.page \in 0 .. pages[cur.id]
  BY DEF TalkInv, Counted
<1>1. /\ ppc \in [Procs -> {"unborn", "start", "wait", "send", "recv", "done", "exited", "aborted"}]
      /\ forked \in Nat /\ term_count \in Nat /\ terminated \in Nat /\ k \in Nat /\ forked <= k
      /\ \A i \in Procs : i \in Nat
  BY PagingTypes DEF TalkInv
<1>2. ASSUME NEW i \in Procs, Proc(i) PROVE Counted'
  <2>1. /\ UNCHANGED <<master, forked, spc, term_count, mpc, terminated, cur, pages>>
        /\ ppc[i] # "unborn" /\ \A j \in Procs : j # i => ppc'[j] = ppc[j]
        /\ ppc'[i] = "aborted" => ~Queues
    BY <1>1, <1>2 DEF Proc, ProcReady, ProcScheduled, ProcSend, ProcRecv, ProcDone, ProcAbort, ProcGoto,
       static, sched, mmu, mast
  <2> QED
    BY <1>0, <2>1 DEF Counted, Queues
<1>3. CASE Sched
  <2>1. /\ UNCHANGED <<master, forked, ppc, mpc, terminated, cur, pages>>
        /\ spc' \in {"ready", "note"} => spc \in {"ready", "note"} /\ (term_count' = term_count \/ term_count' < k)
    <3>1. CASE SchedTerm
      <4>1. term_count' = term_count + 1 /\ term_count < k /\ spc = "note"
            /\ spc' = IF term_count + 1 = k THEN "stop" ELSE "ready"
        BY <1>0, <3>1 DEF SchedTerm
      <4> QED
        BY <1>1, <3>1, <4>1 DEF SchedTerm, static, procs, mmu, mast
    <3> QED
      BY <1>3, <3>1 DEF Sched, SchedPick, SchedHandled, SchedStop, static, procs, mmu, mast
  <2> QED
    BY <1>0, <2>1 DEF Counted, Queues
<1>4. CASE MmuDone \/ MmuInvalid \/ MmuHit \/ MmuFault
  <2>1. /\ UNCHANGED <<master, forked, ppc, spc, term_count, pages>> /\ Queues /\ mpc = "recv" /\ req # << >>
        /\ \/ terminated' = terminated
           \/ terminated' = terminated + 1 /\ mpc' = IF terminated + 1 = k THEN "finished" ELSE "recv"
        /\ mpc' = "fault" => cur' = Request /\ ~Illegal(Request)
    BY <1>4, ServeKinds DEF static, procs, sched, mast
  <2>2. mpc' = "fault" => cur'.page \in 0 .. pages'[cur'.id]
    BY <2>1, LookedFacts
  <2>3. mpc' \in {"recv", "invalid", "fault"} => terminated' < k
    BY <1>0, <1>1, <2>1
  <2> QED
    BY <1>0, <2>1, <2>2, <2>3 DEF Counted, Queues
<1>5. CASE MmuReject \/ MmuLoad \/ MmuEvict \/ MmuCrash
  <2>1. /\ UNCHANGED <<master, forked, ppc, spc, term_count, pages, terminated>>
        /\ mpc \in {"invalid", "fault"} /\ mpc' \in {"recv", "crashed"}
    BY <1>5 DEF MmuReject, MmuLoad, MmuEvict, MmuCrash, Handled, static, procs, sched, mast
  <2> QED
    BY <1>0, <2>1 DEF Counted, Queues
<1>6. CASE Fork
  <2>1. /\ forked < k /\ forked' = forked + 1 /\ ppc' = [ppc EXCEPT ![forked] = "start"]
        /\ master' = IF forked + 1 = k THEN "test" ELSE "create"
        /\ UNCHANGED <<pages, spc, term_count, mpc, terminated, cur>> /\ Queues
    BY <1>0, <1>6 DEF Fork, OthersIdle, static, sched, mmu, Queues
  <2>2. master' = "create" => forked' < k
    BY <1>1, <2>1
  <2>3. \A i \in Procs : i >= forked' => i # forked /\ i >= forked
    BY <1>1, <2>1
  <2>4. \A i \in Procs : ppc'[i] = IF i = forked THEN "start" ELSE ppc[i]
    BY <1>1, <2>1
  <2>5. master' # "over"
    BY <2>1
  <2> QED
    BY <1>0, <2>1, <2>2, <2>3, <2>4, <2>5 DEF Counted, Queues
<1>7. CASE TestFlag \/ Pause \/ Handler \/ Clear
  <2>1. /\ UNCHANGED <<forked, ppc, term_count, terminated, cur, pages>>
        /\ spc' \in {spc, "killed"} /\ mpc' \in {mpc, "killed"}
        /\ master' = "create" => master = "create"
        /\ master = "over" => master' = "over"
    BY <1>7 DEF TestFlag, Pause, Handler, Clear, OthersIdle, static, sched, mmu
  <2> QED
    BY <1>0, <2>1 DEF Counted, Queues
<1> QED
  BY <1>2, <1>3, <1>4, <1>5, <1>6, <1>7 DEF Next, Mmu, Master

\* What Dialogue says of one process, and of one request.
Apart(i) ==
    /\ MayGenerate(i) /\ AskedOnce(i)
    /\ ppc[i] = "recv" =>
          /\ count[i] < Len(refs[i])
          /\ \/ reply[i] = << >> /\ Asked(i)
             \/ Len(reply[i]) = 1 /\ ~Asked(i)
    /\ ppc[i] \notin {"recv", "aborted"} => reply[i] = << >> /\ ~Asked(i)
Right(r) ==
    IF r.page = PROCESS_DONE THEN ppc[r.id] = "exited"
    ELSE r.page = Wanted(r.id) /\ count[r.id] < Len(refs[r.id])

LEMMA DialogueParts ==
  Dialogue <=> (\A i \in Procs : Apart(i)) /\ \A j \in 1 .. Len(req) : Right(req[j])
BY DEF Dialogue, Apart, Right

\* Nothing changes for a process whose requests, answers and place are the same.
LEMMA ApartSame ==
  ASSUME NEW i, Apart(i), UNCHANGED <<static>>, ppc'[i] = ppc[i], count'[i] = count[i],
         reply'[i] = reply[i], Asked(i)' <=> Asked(i), AskedOnce(i)'
  PROVE  Apart(i)'
BY DEF Apart, MayGenerate, static

\* A step that sends no request and takes none leaves the requests of each process.
LEMMA SameRequests ==
  ASSUME req' = req
  PROVE  \A i : (Asked(i)' <=> Asked(i)) /\ (AskedOnce(i)' <=> AskedOnce(i))
BY DEF Asked, AskedOnce, Asks

\* A process that goes on without asking or being answered.
LEMMA MovedKept ==
  ASSUME PagingAssumption, TalkInv, NEW i \in Procs,
         NEW to \in {"start", "wait", "send", "aborted"},
         ppc[i] \notin {"exited"}, ppc[i] \in {"unborn", "start", "wait"} \/ to = "aborted",
         ppc' = [ppc EXCEPT ![i] = to], UNCHANGED <<static, req, reply, count>>
  PROVE  Dialogue'
<1>1. ppc \in [Procs -> {"unborn", "start", "wait", "send", "recv", "done", "exited", "aborted"}]
      /\ req \in Seq(Requests)
  BY PagingTypes DEF TalkInv
<1>2. (\A j \in Procs : Apart(j)) /\ \A j \in 1 .. Len(req) : Right(req[j])
  BY DialogueParts DEF TalkInv
<1>3. ASSUME NEW j \in Procs PROVE Apart(j)'
  <2>1. CASE j # i
    <3>1. /\ ppc'[j] = ppc[j] /\ count'[j] = count[j] /\ reply'[j] = reply[j]
          /\ UNCHANGED static /\ Apart(j) /\ AskedOnce(j)
      BY <1>1, <1>2, <2>1 DEF Apart
    <3>2. (Asked(j)' <=> Asked(j)) /\ AskedOnce(j)'
      BY <3>1, SameRequests
    <3> QED
      BY <3>1, <3>2, ApartSame
  <2>2. CASE j = i
    <3>1. /\ MayGenerate(i)' /\ AskedOnce(i)' /\ ppc'[i] = to /\ to # "recv" /\ reply'[i] = reply[i]
          /\ Asked(i)' <=> Asked(i)
      BY <1>1, <1>2, SameRequests DEF Apart, MayGenerate, static
    <3>2. to = "aborted" \/ (reply[i] = << >> /\ ~Asked(i))
      BY <1>2 DEF Apart
    <3> QED
      BY <2>2, <3>1, <3>2 DEF Apart
  <2> QED
    BY <2>1, <2>2
<1>4. ASSUME NEW j \in 1 .. Len(req') PROVE Right(req[j])'
  <2>1. Right(req[j]) /\ req'[j] = req[j] /\ req[j].id \in Procs
    <3>1. j \in 1 .. Len(req) /\ req'[j] = req[j]
      BY <1>4
    <3>2. req[j] \in Requests
      BY <1>1, <3>1, ElementOfSeq
    <3> QED
      BY <1>2, <3>1, <3>2 DEF Requests
  <2>2. ppc[req[j].id] = "exited" => ppc'[req[j].id] = "exited"
    BY <1>1, <2>1
  <2> QED
    BY <2>1, <2>2 DEF Right, Wanted, static
<1> QED
  BY <1>3, <1>4 DEF Dialogue, Apart, Right

\* A process that asks for its next page.
LEMMA SendKept ==
  ASSUME PagingAssumption, TalkInv, NEW i \in Procs, ProcSend(i)
  PROVE  Dialogue'
<1>1. /\ ppc \in [Procs -> {"unborn", "start", "wait", "send", "recv", "done", "exited", "aborted"}]
      /\ req \in Seq(Requests) /\ refs \in [Procs -> Seq(Nat)] /\ count \in [Procs -> Nat]
      /\ \A j \in Procs : Len(refs[j]) \in Nat
  BY PagingTypes DEF TalkInv
<1>2. (\A j \in Procs : Apart(j)) /\ \A j \in 1 .. Len(req) : Right(req[j])
  BY DialogueParts DEF TalkInv
<1>3. /\ count[i] < Len(refs[i]) /\ ppc[i] = "send" /\ ppc' = [ppc EXCEPT ![i] = "recv"]
      /\ req' = Append(req, [id |-> i, page |-> Wanted(i)]) /\ UNCHANGED <<static, reply, count>>
  BY DEF ProcSend, ProcGoto, Wanted
<1> DEFINE r == [id |-> i, page |-> Wanted(i)]
<1>4. r \in Requests /\ r.id = i /\ r.page = Wanted(i) /\ r.page # PROCESS_DONE
  <2>1. count[i] + 1 \in 1 .. Len(refs[i]) /\ refs[i] \in Seq(Nat)
    BY <1>1, <1>3
  <2>2. Wanted(i) \in Nat
    BY <2>1, ElementOfSeq DEF Wanted
  <2> QED
    BY <2>2 DEF Requests, PROCESS_DONE
<1> HIDE DEF r
<1>5. req' = Append(req, r)
  BY <1>3 DEF r
<1>6. /\ Len(req) \in Nat /\ Len(req') = Len(req) + 1 /\ req'[Len(req) + 1] = r
      /\ \A j \in 1 .. Len(req) : req'[j] = req[j]
      /\ \A j : Asked(j)' <=> Asked(j) \/ j = i
      /\ \A j : AskedOnce(j) /\ (j = i => ~Asked(j)) => AskedOnce(j)'
  BY <1>1, <1>4, <1>5, Sent
<1>7. reply[i] = << >> /\ ~Asked(i)
  BY <1>2, <1>3 DEF Apart
<1>8. ASSUME NEW j \in Procs PROVE Apart(j)'
  <2>1. AskedOnce(j)'
    BY <1>2, <1>6, <1>7 DEF Apart
  <2>2. CASE j # i
    <3>1. /\ ppc'[j] = ppc[j] /\ count'[j] = count[j] /\ reply'[j] = reply[j]
          /\ UNCHANGED static /\ Apart(j) /\ (Asked(j)' <=> Asked(j))
      BY <1>1, <1>2, <1>3, <1>6, <2>2
    <3> QED
      BY <2>1, <3>1, ApartSame
  <2>3. CASE j = i
    <3>1. /\ MayGenerate(i)' /\ ppc'[i] = "recv" /\ count'[i] < Len(refs'[i]) /\ reply'[i] = << >> /\ Asked(i)'
      BY <1>1, <1>2, <1>3, <1>6, <1>7 DEF Apart, MayGenerate, static
    <3> QED
      BY <2>1, <2>3, <3>1 DEF Apart
  <2> QED
    BY <2>2, <2>3
<1>9. ASSUME NEW j \in 1 .. Len(req') PROVE Right(req[j])'
  <2>1. CASE j \in 1 .. Len(req)
    <3>1. req'[j] = req[j] /\ req[j] \in Requests /\ Right(req[j])
      BY <1>1, <1>2, <1>6, <2>1, ElementOfSeq
    <3>2. ppc[req[j].id] = "exited" => ppc'[req[j].id] = "exited"
      BY <1>1, <1>3, <3>1 DEF Requests
    <3> QED
      BY <1>3, <3>1, <3>2 DEF Right, Wanted, static
  <2>2. CASE j = Len(req) + 1
    BY <1>3, <1>4, <1>6, <2>2 DEF Right, Wanted, static
  <2> QED
    BY <1>6, <2>1, <2>2
<1> QED
  BY <1>8, <1>9 DEF Dialogue, Apart, Right

\* A process that says it is done.
LEMMA DoneKept ==
  ASSUME PagingAssumption, TalkInv, NEW i \in Procs, ProcDone(i)
  PROVE  Dialogue'
<1>1. /\ ppc \in [Procs -> {"unborn", "start", "wait", "send", "recv", "done", "exited", "aborted"}]
      /\ req \in Seq(Requests)
  BY PagingTypes DEF TalkInv
<1>2. (\A j \in Procs : Apart(j)) /\ \A j \in 1 .. Len(req) : Right(req[j])
  BY DialogueParts DEF TalkInv
<1>3. /\ ppc[i] \in {"send", "done"} /\ ppc' = [ppc EXCEPT ![i] = "exited"]
      /\ req' = Append(req, [id |-> i, page |-> PROCESS_DONE]) /\ UNCHANGED <<static, reply, count>>
  BY DEF ProcDone, ProcGoto
<1> DEFINE r == [id |-> i, page |-> PROCESS_DONE]
<1>4. r \in Requests /\ r.id = i /\ r.page = PROCESS_DONE
  BY DEF Requests
<1> HIDE DEF r
<1>5. req' = Append(req, r)
  BY <1>3 DEF r
<1>6. /\ Len(req) \in Nat /\ Len(req') = Len(req) + 1 /\ req'[Len(req) + 1] = r
      /\ \A j \in 1 .. Len(req) : req'[j] = req[j]
      /\ \A j : Asked(j)' <=> Asked(j)
      /\ \A j : AskedOnce(j) => AskedOnce(j)'
  BY <1>1, <1>4, <1>5, Sent
<1>7. reply[i] = << >> /\ ~Asked(i)
  BY <1>2, <1>3 DEF Apart
<1>8. ASSUME NEW j \in Procs PROVE Apart(j)'
  <2>1. AskedOnce(j)'
    BY <1>2, <1>6 DEF Apart
  <2>2. CASE j # i
    <3>1. /\ ppc'[j] = ppc[j] /\ count'[j] = count[j] /\ reply'[j] = reply[j]
          /\ UNCHANGED static /\ Apart(j) /\ (Asked(j)' <=> Asked(j))
      BY <1>1, <1>2, <1>3, <1>6, <2>2
    <3> QED
      BY <2>1, <3>1, ApartSame
  <2>3. CASE j = i
    <3>1. /\ MayGenerate(i)' /\ ppc'[i] = "exited" /\ reply'[i] = << >> /\ ~Asked(i)'
      BY <1>1, <1>2, <1>3, <1>6, <1>7 DEF Apart, MayGenerate, static
    <3> QED
      BY <2>1, <2>3, <3>1 DEF Apart
  <2> QED
    BY <2>2, <2>3
<1>9. ASSUME NEW j \in 1 .. Len(req') PROVE Right(req[j])'
  <2>1. CASE j \in 1 .. Len(req)
    <3>1. req'[j] = req[j] /\ req[j] \in Requests /\ Right(req[j])
      BY <1>1, <1>2, <1>6, <2>1, ElementOfSeq
    <3>2. ppc[req[j].id] = "exited" => ppc'[req[j].id] = "exited"
      BY <1>1, <1>3, <3>1 DEF Requests
    <3> QED
      BY <1>3, <3>1, <3>2 DEF Right, Wanted, static
  <2>2. CASE j = Len(req) + 1
    BY <1>1, <1>3, <1>4, <1>6, <2>2 DEF Right, Wanted, static
  <2> QED
    BY <1>6, <2>1, <2>2
<1> QED
  BY <1>8, <1>9 DEF Dialogue, Apart, Right

\* A process that takes its answer.
LEMMA RecvKept ==
  ASSUME PagingAssumption, TalkInv, NEW i \in Procs, ProcRecv(i)
  PROVE  Dialogue'
<1>1. /\ ppc \in [Procs -> {"unborn", "start", "wait", "send", "recv", "done", "exited", "aborted"}]
      /\ req \in Seq(Requests) /\ reply \in [Procs -> Seq(Answers)] /\ count \in [Procs -> Nat]
  BY PagingTypes DEF TalkInv
<1>2. (\A j \in Procs : Apart(j)) /\ \A j \in 1 .. Len(req) : Right(req[j])
  BY DialogueParts DEF TalkInv
<1>3. /\ reply[i] # << >> /\ ppc[i] = "recv" /\ reply' = [reply EXCEPT ![i] = Tail(@)]
      /\ ppc'[i] \in {"done", "send"} /\ \A j \in Procs : j # i => ppc'[j] = ppc[j] /\ count'[j] = count[j]
      /\ UNCHANGED <<static, req>>
  BY <1>1 DEF ProcRecv, ProcGoto
<1>4. Len(reply[i]) = 1 /\ ~Asked(i)
  BY <1>2, <1>3 DEF Apart
<1>5. reply'[i] = << >> /\ \A j \in Procs : j # i => reply'[j] = reply[j]
  <2>1. Tail(reply[i]) = << >>
    BY <1>1, <1>3, <1>4, HeadTailProperties, EmptySeq
  <2> QED
    BY <1>1, <1>3, <2>1
<1>6. ASSUME NEW j \in Procs PROVE Apart(j)'
  <2>1. AskedOnce(j)' /\ (Asked(j)' <=> Asked(j))
    BY <1>2, <1>3, SameRequests DEF Apart
  <2>2. CASE j # i
    BY <1>2, <1>3, <1>5, <2>1, <2>2, ApartSame
  <2>3. CASE j = i
    <3>1. /\ MayGenerate(i)' /\ ppc'[i] \in {"done", "send"} /\ reply'[i] = << >> /\ ~Asked(i)'
      BY <1>2, <1>3, <1>4, <1>5, <2>1, <2>3 DEF Apart, MayGenerate, static
    <3> QED
      BY <2>1, <2>3, <3>1 DEF Apart
  <2> QED
    BY <2>2, <2>3
<1>7. ASSUME NEW j \in 1 .. Len(req') PROVE Right(req[j])'
  <2>1. j \in 1 .. Len(req) /\ req'[j] = req[j] /\ req[j] \in Requests /\ Right(req[j])
    <3>1. j \in 1 .. Len(req) /\ req'[j] = req[j]
      BY <1>3, <1>7
    <3> QED
      BY <1>1, <1>2, <3>1, ElementOfSeq
  <2>2. req[j].id # i /\ req[j].id \in Procs
    <3>1. req[j].page # PROCESS_DONE => req[j].id # i
      BY <1>4, <2>1 DEF Asked, Asks
    <3>2. req[j].page = PROCESS_DONE => req[j].id # i
      BY <1>3, <2>1 DEF Right
    <3> QED
      BY <2>1, <3>1, <3>2 DEF Requests
  <2> QED
    BY <1>3, <2>1, <2>2 DEF Right, Wanted, static
<1> QED
  BY <1>6, <1>7 DEF Dialogue, Apart, Right

\* A request that the MMU takes and, unless it says that the process is done, answers.
LEMMA ServeKept ==
  ASSUME PagingAssumption, m <= 22, TalkInv, MmuDone \/ MmuInvalid \/ MmuHit \/ MmuFault
  PROVE  Dialogue'
<1>1. /\ req \in Seq(Requests) /\ reply \in [Procs -> Seq(Answers)]
  BY PagingTypes DEF TalkInv
<1>2. (\A j \in Procs : Apart(j)) /\ \A j \in 1 .. Len(req) : Right(req[j])
  BY DialogueParts DEF TalkInv
<1> DEFINE i == Request.id
<1>3. /\ Queues /\ req # << >> /\ req' = Tail(req) /\ i \in Procs /\ UNCHANGED <<static, procs>>
      /\ \/ req[1].page = PROCESS_DONE /\ UNCHANGED reply
         \/ /\ req[1].page # PROCESS_DONE
            /\ \E a \in Answers : reply' = [reply EXCEPT ![i] = Append(@, a)]
  BY ServeKinds
<1>4. i = req[1].id /\ 1 \in 1 .. Len(req) /\ req[1] \in Requests
  BY <1>1, <1>3, RequestFacts, ElementOfSeq
<1> HIDE DEF i
<1>5. /\ Len(req) \in Nat /\ Len(req') = Len(req) - 1
      /\ \A j \in 1 .. Len(req') : req'[j] = req[j + 1]
      /\ \A j : AskedOnce(j) => AskedOnce(j)'
      /\ \A j : Asked(j)' => Asked(j)
      /\ \A j : AskedOnce(j) /\ Asks(1, j) => Asked(j) /\ ~Asked(j)'
      /\ \A j : Asked(j) /\ ~Asks(1, j) => Asked(j)'
  BY <1>1, <1>3, Taken
<1>6. \A j : Asks(1, j) <=> j = i /\ req[1].page # PROCESS_DONE
  BY <1>4 DEF Asks
<1>7. \A j \in Procs : ~Asks(1, j) => reply'[j] = reply[j]
  <2>1. CASE req[1].page = PROCESS_DONE
    BY <1>3, <2>1
  <2>2. CASE req[1].page # PROCESS_DONE
    BY <1>1, <1>3, <1>6, <2>2
  <2> QED
    BY <2>1, <2>2
<1>8. ASSUME NEW j \in Procs PROVE Apart(j)'
  <2>1. AskedOnce(j)' /\ ppc'[j] = ppc[j] /\ count'[j] = count[j] /\ UNCHANGED static /\ Apart(j)
    BY <1>2, <1>3, <1>5 DEF Apart, procs
  <2>2. CASE ~Asks(1, j)
    <3>1. reply'[j] = reply[j] /\ (Asked(j)' <=> Asked(j))
      BY <1>5, <1>7, <2>2
    <3> QED
      BY <2>1, <3>1, ApartSame
  <2>3. CASE Asks(1, j)
    <3>1. j = i /\ req[1].page # PROCESS_DONE /\ AskedOnce(j)
      BY <1>6, <2>1, <2>3 DEF Apart
    <3>2. Asked(j) /\ ~Asked(j)'
      BY <1>5, <2>3, <3>1
    <3>3. PICK a \in Answers : reply' = [reply EXCEPT ![j] = Append(@, a)]
      BY <1>3, <3>1
    <3>4. ppc[j] # "aborted"
      BY <1>3, <2>1 DEF TalkInv, Counted
    <3>5. ppc[j] = "recv" /\ reply[j] = << >>
      BY <2>1, <3>1, <3>2, <3>4 DEF Apart
    <3>6. Len(reply'[j]) = 1
      <4>1. reply'[j] = Append(reply[j], a) /\ reply[j] \in Seq(Answers)
        BY <1>1, <1>3, <3>3
      <4>2. Len(reply'[j]) = Len(reply[j]) + 1
        BY <4>1, AppendProperties
      <4> QED
        BY <3>5, <4>2
    <3>7. MayGenerate(j)' /\ count'[j] < Len(refs'[j]) /\ ppc'[j] = "recv"
      BY <2>1, <3>5 DEF Apart, MayGenerate, static
    <3> QED
      BY <2>1, <3>2, <3>6, <3>7 DEF Apart
  <2> QED
    BY <2>2, <2>3
<1>9. ASSUME NEW j \in 1 .. Len(req') PROVE Right(req[j])'
  <2>1. j + 1 \in 1 .. Len(req) /\ req'[j] = req[j + 1]
    BY <1>5
  <2>2. Right(req[j + 1])
    BY <1>2, <2>1
  <2> QED
    BY <1>3, <2>1, <2>2 DEF Right, Wanted, static, procs
<1> QED
  BY <1>8, <1>9 DEF Dialogue, Apart, Right

\* Requests and answers stay as Dialogue says.
LEMMA DialogueKept ==
  ASSUME PagingAssumption, m <= 22, TalkInv, Next
  PROVE  Dialogue'
<1>0. ppc \in [Procs -> {"unborn", "start", "wait", "send", "recv", "done", "exited", "aborted"}]
  BY PagingTypes DEF TalkInv
<1>1. CASE UNCHANGED <<static, req, reply, ppc, count>>
  <2>1. \A j : Apart(j)' <=> Apart(j)
    BY <1>1, SameRequests DEF Apart, MayGenerate, static
  <2>2. \A r : Right(r)' <=> Right(r)
    BY <1>1 DEF Right, Wanted, static
  <2>3. (\A j \in Procs : Apart(j)) /\ \A j \in 1 .. Len(req) : Right(req[j])
    BY DialogueParts DEF TalkInv
  <2> QED
    BY <1>1, <2>3 DEF Dialogue, Apart, Right, MayGenerate, AskedOnce, Asked, Asks, Wanted, static
<1>2. ASSUME NEW i \in Procs, ProcReady(i) \/ ProcScheduled(i) \/ ProcAbort(i) PROVE Dialogue'
  <2>1. PICK to \in {"start", "wait", "send", "aborted"} :
          /\ ppc[i] \notin {"exited"} /\ (ppc[i] \in {"unborn", "start", "wait"} \/ to = "aborted")
          /\ ppc' = [ppc EXCEPT ![i] = to] /\ UNCHANGED <<static, req, reply, count>>
    BY <1>2 DEF ProcReady, ProcScheduled, ProcAbort, ProcGoto, queue3
  <2> QED
    BY <2>1, MovedKept
<1>3. CASE Fork
  <2>1. forked \in Procs /\ ppc[forked] = "unborn"
    <3>1. forked < k /\ forked \in Nat /\ k \in Nat /\ \A i \in Procs : i >= forked => ppc[i] = "unborn"
      BY <1>3, PagingTypes DEF Fork, TalkInv, Counted
    <3>2. forked \in Procs /\ forked >= forked
      BY <3>1 DEF Procs
    <3> QED
      BY <3>1, <3>2
  <2>2. ppc' = [ppc EXCEPT ![forked] = "start"] /\ UNCHANGED <<static, req, reply, count>>
    BY <1>3 DEF Fork, OthersIdle, queue3
  <2> QED
    BY <2>1, <2>2, MovedKept
<1>4. CASE Sched \/ MmuReject \/ MmuLoad \/ MmuEvict \/ MmuCrash \/ TestFlag \/ Pause \/ Handler \/ Clear
  BY <1>1, <1>4 DEF Sched, SchedPick, SchedHandled, SchedTerm, SchedStop, MmuReject, MmuLoad, MmuEvict, MmuCrash,
     Handled, TestFlag, Pause, Handler, Clear, OthersIdle, queue3, procs
<1> QED
  BY <1>2, <1>3, <1>4, SendKept, DoneKept, RecvKept, ServeKept DEF Next, Proc, Mmu, Master

\* The session begins with nothing said and no process born.
LEMMA TalkStart ==
  ASSUME PagingAssumption, Init
  PROVE  TalkInv
<1>1. /\ k \in Nat /\ k > 0 /\ m \in Nat /\ m > 0 /\ f \in Nat /\ k <= f /\ 0 \in Procs
      /\ refs \in [Procs -> Seq(Nat)] /\ -1 \in Frame
  BY DEF PagingAssumption, Procs, Init, Frame
<1>2. 0 \in Frame
  BY <1>1 DEF Frame, Frames
<1>3. page_table \in [Slots -> [valid : BOOLEAN, frame_number : Frame]]
  BY <1>1, <1>2 DEF Init
<1>4. freelist \in Seq(Frame)
  <2>1. \A j \in 1 .. f : j - 1 \in Frame
    BY <1>1 DEF Frame, Frames
  <2> QED
    BY <1>1, <2>1 DEF Init
<1>5. \A i \in Procs : Len(refs[i]) \in Nat
  BY <1>1, LenProperties
<1>6. Types1 /\ Types2 /\ Types3 /\ Types4
  <2>1. Types1
    BY <1>3, <1>4 DEF Types1, Init
  <2>2. Types2
    BY DEF Types2, Init
  <2>3. Types3
    BY <1>5 DEF Types3, Init
  <2>4. Types4
    <3>1. 0 \in 0 .. k /\ 0 \in -128 .. 127
      BY <1>1
    <3> QED
      BY <1>1, <3>1 DEF Types4, Init
  <2> QED
    BY <2>1, <2>2, <2>3, <2>4
<1>7. TypeOK
  BY <1>6 DEF TypeOK, Types1, Types2, Types3, Types4, Frame, Requests, Answers
<1>8. Counted
  BY <1>1 DEF Counted, Init, Queues
<1>9. Dialogue
  <2>1. \A i : ~Asked(i) /\ AskedOnce(i)
    BY DEF Init, Asked, AskedOnce
  <2> QED
    BY <2>1 DEF Dialogue, Init
<1> QED
  BY <1>7, <1>8, <1>9 DEF TalkInv

\* It goes on as TalkInv says: every variable keeps its type, and the processes and
\* the MMU take turns.
LEMMA TalkStep ==
  ASSUME PagingAssumption, m <= 22, TalkInv, [Next]_vars
  PROVE  TalkInv'
<1>1. CASE Next
  BY <1>1, TypesKept, CountedKept, DialogueKept DEF TalkInv
<1>2. CASE UNCHANGED vars
  <2>1. UNCHANGED <<pages, refs, page_table, freelist, ready, wake, notes, req, reply, ppc, count, spc, sid,
                    term_count, mpc, cur, terminated, master, forked, signalled, flag>>
    BY <1>2 DEF vars, static, memory, queue3, procs, sched, mmu, mast
  <2>2. TypeOK'
    <3>1. Types1 /\ Types2 /\ Types3 /\ Types4
      BY DEF TalkInv, TypeOK, Types1, Types2, Types3, Types4, Frame, Requests, Answers
    <3>2. Types1' /\ Types2'
      BY <2>1, <3>1 DEF Types1, Types2
    <3>3. Types3' /\ Types4'
      BY <2>1, <3>1 DEF Types3, Types4
    <3> QED
      BY <3>2, <3>3 DEF TypeOK, Types1, Types2, Types3, Types4, Frame, Requests, Answers
  <2>3. Counted'
    BY <2>1 DEF TalkInv, Counted, Queues
  <2>4. Dialogue'
    BY <2>1 DEF TalkInv, Dialogue, MayGenerate, AskedOnce, Asked, Asks, Wanted
  <2> QED
    BY <2>2, <2>3, <2>4 DEF TalkInv
<1> QED
  BY <1>1, <1>2

\* It says what OneAnswerEach says.
LEMMA TalkAnswers == ASSUME PagingAssumption, TalkInv PROVE OneAnswerEach
<1> SUFFICES ASSUME NEW i \in Procs, ppc[i] # "aborted"
             PROVE  Cardinality({j \in DOMAIN req : Asks(j, i)}) + Len(reply[i]) = IF ppc[i] = "recv" THEN 1 ELSE 0
  BY DEF OneAnswerEach, Asks
<1>1. req \in Seq(Requests) /\ DOMAIN req = 1 .. Len(req)
  BY PagingTypes, LenProperties DEF TalkInv
<1>2. Apart(i)
  BY DialogueParts DEF TalkInv
<1>3. Asked(i) => Cardinality({j \in DOMAIN req : Asks(j, i)}) = 1
  <2> SUFFICES ASSUME NEW j \in 1 .. Len(req), Asks(j, i) PROVE Cardinality({l \in DOMAIN req : Asks(l, i)}) = 1
    BY DEF Asked
  <2>1. {l \in DOMAIN req : Asks(l, i)} = {j}
    BY <1>1, <1>2 DEF Apart, AskedOnce
  <2> QED
    BY <2>1, FS_Singleton
<1>4. ~Asked(i) => Cardinality({j \in DOMAIN req : Asks(j, i)}) = 0
  <2> SUFFICES ASSUME ~Asked(i) PROVE Cardinality({j \in DOMAIN req : Asks(j, i)}) = 0
    OBVIOUS
  <2>1. {j \in DOMAIN req : Asks(j, i)} = {}
    BY <1>1 DEF Asked
  <2> QED
    BY <2>1, FS_EmptySet
<1>5. /\ ppc[i] = "recv" => (Len(reply[i]) = 0 /\ Asked(i)) \/ (Len(reply[i]) = 1 /\ ~Asked(i))
      /\ ppc[i] # "recv" => Len(reply[i]) = 0 /\ ~Asked(i)
  BY <1>2 DEF Apart
<1> DEFINE c == Cardinality({j \in DOMAIN req : Asks(j, i)})
<1>6. (Asked(i) => c = 1) /\ (~Asked(i) => c = 0)
  BY <1>3, <1>4
<1> HIDE DEF c
<1>7. 0 + 0 = 0 /\ 0 + 1 = 1 /\ 1 + 0 = 1
  OBVIOUS
<1>8. c + Len(reply[i]) = IF ppc[i] = "recv" THEN 1 ELSE 0
  <2>1. CASE ppc[i] = "recv"
    <3>1. (c = 1 /\ Len(reply[i]) = 0) \/ (c = 0 /\ Len(reply[i]) = 1)
      BY <1>5, <1>6, <2>1, Zenon
    <3>2. c + Len(reply[i]) = 1
      BY <1>7, <3>1, Zenon
    <3> QED
      BY <2>1, <3>2
  <2>2. CASE ppc[i] # "recv"
    <3>1. c = 0 /\ Len(reply[i]) = 0
      BY <1>5, <1>6, <2>2, Zenon
    <3>2. c + Len(reply[i]) = 0
      BY <1>7, <3>1, Zenon
    <3> QED
      BY <2>2, <3>2
  <2> QED
    BY <2>1, <2>2
<1> QED
  BY <1>8 DEF c

\* Whatever is referred to, for any numbers of processes and frames and up to 22 pages, a
\* process that waits for the MMU is the author of exactly one request or answer, and no
\* other process has any (proc.c, mmu.c).
THEOREM AnsweredOnce ==
  ASSUME PagingAssumption, m <= 22
  PROVE  Spec => []OneAnswerEach
<1>1. Init => TalkInv
  BY TalkStart
<1>2. TalkInv /\ [Next]_vars => TalkInv'
  BY TalkStep
<1>3. TalkInv => OneAnswerEach
  BY TalkAnswers
<1> QED
  BY <1>1, <1>2, <1>3, PTL DEF Spec

-----------------------------------------------------------------------------
(* Frames and the entries of the page tables                               *)

\* The process will not ask for a page again.
Over(i) ==
    \/ ppc[i] \in {"done", "exited", "aborted"}
    \/ ppc[i] = "recv" /\ reply[i] = <<INVALID_PAGE_NUMBER>>

\* The process asks for page p again and again: it has had no answer but a fault.
Stuck(i, p) ==
    /\ ppc[i] \in {"send", "recv"} /\ count[i] < Len(refs[i])
    /\ Wanted(i) = p /\ p <= pages[i]
    /\ reply[i] = << >> \/ reply[i] = <<PAGE_FAULT>>

\* While the MMU handles a fault the process it is about goes on asking.
FaultInv ==
    /\ mpc = "fault" => /\ ~page_table[Slot(cur.id, cur.page)].valid
                        /\ Queues => Stuck(cur.id, cur.page)
    /\ mpc = "invalid" => Over(cur.id)

Valid(i, p) == page_table[Slot(i, p)].valid
Number(i, p) == page_table[Slot(i, p)].frame_number

\* An entry that can still give its frame away, or be looked up.
Owned(i, p) == Number(i, p) # -1 /\ (Valid(i, p) \/ ~Over(i))

\* A valid entry without a frame holds its process up, so that its -1 is never given
\* back; a frame has one owner, or is free once.
OneOwner ==
    /\ \A i \in Procs, p \in 0 .. m - 1 :
          Valid(i, p) /\ Number(i, p) = -1 /\ Queues => Stuck(i, p)
    /\ \A i, j \in Procs, p, q \in 0 .. m - 1 :
          Owned(i, p) /\ Owned(j, q) /\ Number(i, p) = Number(j, q) => i = j /\ p = q
    /\ \A i \in Procs, p \in 0 .. m - 1, j \in 1 .. Len(freelist) :
          Owned(i, p) => Number(i, p) # freelist[j]
    /\ \A j \in 1 .. Len(freelist) : freelist[j] # -1
    /\ \A j, l \in 1 .. Len(freelist) : freelist[j] = freelist[l] => j = l

FrameInv == NoAlias => OneOwner

PagingInv == TalkInv /\ FaultInv /\ FrameInv

\* A sequence of one element.
LEMMA OneLong == \A x : <<x>> # << >> /\ Head(<<x>>) = x /\ Tail(<<x>>) = << >>
<1> SUFFICES ASSUME NEW x PROVE <<x>> # << >> /\ Head(<<x>>) = x /\ Tail(<<x>>) = << >>
  OBVIOUS
<1>1. <<x>> \in Seq({x}) /\ Len(<<x>>) = 1 /\ <<x>>[1] = x
  OBVIOUS
<1>2. <<x>> # << >>
  BY <1>1, EmptySeq
<1>3. Tail(<<x>>) \in Seq({x}) /\ Len(Tail(<<x>>)) = 0
  BY <1>1, <1>2, HeadTailProperties
<1> QED
  BY <1>1, <1>2, <1>3, HeadTailProperties, EmptySeq

\* What a step does to a process.
LEMMA ProcSteps ==
  ASSUME PagingAssumption, m <= 22, TalkInv, Next, NEW i \in Procs
  PROVE  \/ ppc'[i] = ppc[i] /\ count'[i] = count[i] /\ reply'[i] = reply[i]
         \/ Proc(i)
         \/ ppc[i] = "unborn" /\ ppc'[i] = "start" /\ count'[i] = count[i] /\ reply'[i] = reply[i]
         \/ /\ ppc[i] = "recv" /\ ppc'[i] = "recv" /\ count'[i] = count[i] /\ reply[i] = << >>
            /\ Queues /\ mpc = "recv" /\ req # << >> /\ Request.id = i /\ req[1].page # PROCESS_DONE
            /\ \/ MmuInvalid /\ reply'[i] = <<INVALID_PAGE_NUMBER>> /\ Illegal(Request)
               \/ MmuHit /\ reply'[i] = <<Looked(Request).frame_number>> /\ Looked(Request).valid /\ ~Illegal(Request)
               \/ MmuFault /\ reply'[i] = <<PAGE_FAULT>> /\ ~Illegal(Request)
<1>0. /\ ppc \in [Procs -> {"unborn", "start", "wait", "send", "recv", "done", "exited", "aborted"}]
      /\ reply \in [Procs -> Seq(Answers)] /\ count \in [Procs -> Nat] /\ req \in Seq(Requests)
  BY PagingTypes DEF TalkInv
<1>1. CASE UNCHANGED <<ppc, count, reply>>
  BY <1>1
<1>2. ASSUME NEW j \in Procs, Proc(j), j # i PROVE ppc'[i] = ppc[i] /\ count'[i] = count[i] /\ reply'[i] = reply[i]
  BY <1>0, <1>2 DEF Proc, ProcReady, ProcScheduled, ProcSend, ProcRecv, ProcDone, ProcAbort, ProcGoto, queue3
<1>3. CASE Fork
  <2>1. ppc' = [ppc EXCEPT ![forked] = "start"] /\ UNCHANGED <<count, reply>>
    BY <1>3 DEF Fork, OthersIdle, queue3
  <2>2. i = forked => ppc[i] = "unborn"
    <3>1. \A j \in Procs : j >= forked => ppc[j] = "unborn"
      BY DEF TalkInv, Counted
    <3>2. i \in Nat
      BY PagingTypes DEF TalkInv
    <3> QED
      BY <3>1, <3>2
  <2> QED
    BY <1>0, <2>1, <2>2
<1>4. CASE Sched \/ MmuReject \/ MmuLoad \/ MmuEvict \/ MmuCrash \/ TestFlag \/ Pause \/ Handler \/ Clear
  BY <1>1, <1>4 DEF Sched, SchedPick, SchedHandled, SchedTerm, SchedStop, MmuReject, MmuLoad, MmuEvict, MmuCrash,
     Handled, TestFlag, Pause, Handler, Clear, OthersIdle, queue3, procs
<1>5. CASE MmuDone
  BY <1>1, <1>5 DEF MmuDone, procs
<1>6. CASE MmuInvalid \/ MmuHit \/ MmuFault
  <2>1. /\ Queues /\ mpc = "recv" /\ req # << >> /\ UNCHANGED procs /\ Request.id \in Procs
        /\ \/ MmuDone /\ req[1].page = PROCESS_DONE /\ UNCHANGED reply
           \/ /\ req[1].page # PROCESS_DONE
              /\ \E a \in Answers :
                    /\ reply' = [reply EXCEPT ![Request.id] = Append(@, a)]
                    /\ \/ MmuInvalid /\ a = INVALID_PAGE_NUMBER /\ Illegal(Request)
                       \/ /\ MmuHit /\ a = Looked(Request).frame_number /\ Looked(Request).valid
                          /\ ~Illegal(Request)
                       \/ MmuFault /\ a = PAGE_FAULT /\ ~Illegal(Request)
    BY <1>6, ServeKinds
  <2>2. UNCHANGED <<ppc, count>>
    BY <2>1 DEF procs
  <2>3. CASE UNCHANGED reply
    BY <1>1, <2>2, <2>3
  <2>4. CASE req[1].page # PROCESS_DONE
    <3>1. PICK a \in Answers :
             /\ reply' = [reply EXCEPT ![Request.id] = Append(@, a)]
             /\ \/ MmuInvalid /\ a = INVALID_PAGE_NUMBER /\ Illegal(Request)
                \/ MmuHit /\ a = Looked(Request).frame_number /\ Looked(Request).valid /\ ~Illegal(Request)
                \/ MmuFault /\ a = PAGE_FAULT /\ ~Illegal(Request)
      BY <2>1, <2>4
    <3>2. CASE i # Request.id
      BY <1>0, <2>2, <3>1, <3>2
    <3>3. CASE i = Request.id
      <4>1. Asks(1, Request.id) /\ 1 \in 1 .. Len(req)
        BY <2>1, <2>4, RequestFacts
      <4>2. Asked(i) /\ Apart(i)
        BY <3>3, <4>1, DialogueParts DEF Asked, TalkInv
      <4>3. ppc[i] = "recv" /\ reply[i] = << >>
        BY <2>1, <4>2 DEF Apart, TalkInv, Counted
      <4>4. reply'[i] = <<a>>
        <5>1. reply'[i] = Append(reply[i], a)
          BY <1>0, <3>1, <3>3
        <5> QED
          BY <4>3, <5>1
      <4> QED
        BY <2>1, <2>2, <2>4, <3>1, <3>3, <4>3, <4>4
    <3> QED
      BY <3>2, <3>3
  <2> QED
    BY <2>1, <2>3, <2>4
<1> QED
  BY <1>2, <1>3, <1>4, <1>5, <1>6 DEF Next, Mmu, Master

\* A process that is over stays so.
LEMMA OverStep ==
  ASSUME PagingAssumption, m <= 22, TalkInv, Next, NEW i \in Procs, Over(i)
  PROVE  Over(i)'
<1>0. /\ ppc \in [Procs -> {"unborn", "start", "wait", "send", "recv", "done", "exited", "aborted"}]
      /\ reply \in [Procs -> Seq(Answers)]
  BY PagingTypes DEF TalkInv
<1>1. CASE Proc(i)
  <2>1. CASE ppc[i] \in {"done", "exited", "aborted"}
    BY <1>0, <1>1, <2>1 DEF Proc, ProcReady, ProcScheduled, ProcSend, ProcRecv, ProcDone, ProcAbort, ProcGoto, Over
  <2>2. CASE ppc[i] = "recv" /\ reply[i] = <<INVALID_PAGE_NUMBER>>
    <3>1. ProcRecv(i) \/ ProcAbort(i)
      BY <1>1, <2>2 DEF Proc, ProcReady, ProcScheduled, ProcSend, ProcDone, ProcGoto
    <3>2. Head(reply[i]) = INVALID_PAGE_NUMBER
      BY <2>2
    <3>3. ppc' = [ppc EXCEPT ![i] = "done"] \/ ppc' = [ppc EXCEPT ![i] = "aborted"]
      BY <3>1, <3>2 DEF ProcRecv, ProcAbort, ProcGoto
    <3> QED
      BY <1>0, <3>3 DEF Over
  <2> QED
    BY <2>1, <2>2 DEF Over
<1>2. CASE ppc'[i] = ppc[i] /\ count'[i] = count[i] /\ reply'[i] = reply[i]
  BY <1>2 DEF Over
<1>3. ppc[i] # "unborn" /\ ~(ppc[i] = "recv" /\ reply[i] = << >>)
  BY OneLong DEF Over
<1> QED
  BY <1>1, <1>2, <1>3, ProcSteps

\* The page numbers and strings never change, and the queues never come back.
LEMMA StaticStep == Next => UNCHANGED static /\ (NoAlias' <=> NoAlias) /\ (Queues' => Queues)
<1> SUFFICES ASSUME Next PROVE UNCHANGED static /\ (NoAlias' <=> NoAlias) /\ (Queues' => Queues)
  OBVIOUS
<1>1. UNCHANGED static /\ (master = "over" => master' = "over")
  BY DEF Next, Proc, ProcReady, ProcScheduled, ProcSend, ProcRecv, ProcDone, ProcAbort, Sched, SchedPick,
     SchedHandled, SchedTerm, SchedStop, Mmu, MmuDone, MmuInvalid, MmuReject, MmuHit, MmuFault, MmuLoad, MmuEvict,
     MmuCrash, Handled, Master, Fork, TestFlag, Pause, Handler, Clear, OthersIdle, mast
<1> QED
  BY <1>1 DEF Queues, NoAlias, static

\* A process that asks for a page goes on asking until it gets a frame.
LEMMA StuckStep ==
  ASSUME PagingAssumption, m <= 22, TalkInv, Next, Queues', NEW i \in Procs, NEW p, Stuck(i, p)
  PROVE  Stuck(i, p)' \/ (Valid(i, p) /\ Number(i, p) # -1)
<1>0. /\ ppc \in [Procs -> {"unborn", "start", "wait", "send", "recv", "done", "exited", "aborted"}]
      /\ reply \in [Procs -> Seq(Answers)] /\ count \in [Procs -> Nat] /\ pages \in [Procs -> 1 .. m]
  BY PagingTypes DEF TalkInv
<1>1. Queues /\ UNCHANGED <<pages, refs>>
  BY StaticStep DEF static
<1>2. CASE ppc'[i] = ppc[i] /\ count'[i] = count[i] /\ reply'[i] = reply[i]
  BY <1>1, <1>2 DEF Stuck, Wanted
<1>3. CASE Proc(i)
  <2>1. CASE ProcSend(i)
    <3>1. ppc'[i] = "recv" /\ UNCHANGED <<count, reply>>
      BY <1>0, <2>1 DEF ProcSend, ProcGoto
    <3> QED
      BY <1>1, <3>1 DEF Stuck, Wanted
  <2>2. CASE ProcRecv(i)
    <3>1. reply[i] = <<PAGE_FAULT>> /\ Head(reply[i]) = PAGE_FAULT /\ Tail(reply[i]) = << >>
      BY <2>2, OneLong DEF ProcRecv, Stuck
    <3>2. ppc'[i] = "send" /\ count'[i] = count[i] /\ reply'[i] = << >>
      BY <1>0, <2>2, <3>1 DEF ProcRecv, ProcGoto, PAGE_FAULT, INVALID_PAGE_NUMBER
    <3> QED
      BY <1>1, <3>2 DEF Stuck, Wanted
  <2>3. ~ProcReady(i) /\ ~ProcScheduled(i) /\ ~ProcAbort(i)
    BY <1>1 DEF Stuck, ProcReady, ProcScheduled, ProcAbort, ProcGoto
  <2>4. ~ProcDone(i)
    <3>1. count[i] < Len(refs[i]) /\ ppc[i] # "done" /\ count[i] \in Nat /\ Len(refs[i]) \in Nat
      BY PagingTypes DEF Stuck, TalkInv
    <3>2. count[i] # Len(refs[i])
      BY <3>1
    <3> QED
      BY <3>1, <3>2 DEF ProcDone, ProcGoto
  <2> QED
    BY <1>3, <2>1, <2>2, <2>3, <2>4 DEF Proc
<1>4. CASE /\ ppc[i] = "recv" /\ ppc'[i] = "recv" /\ count'[i] = count[i] /\ reply[i] = << >>
           /\ Queues /\ mpc = "recv" /\ req # << >> /\ Request.id = i /\ req[1].page # PROCESS_DONE
           /\ \/ MmuInvalid /\ reply'[i] = <<INVALID_PAGE_NUMBER>> /\ Illegal(Request)
              \/ MmuHit /\ reply'[i] = <<Looked(Request).frame_number>> /\ Looked(Request).valid /\ ~Illegal(Request)
              \/ MmuFault /\ reply'[i] = <<PAGE_FAULT>> /\ ~Illegal(Request)
  <2>1. Request.page = p /\ ~Illegal(Request)
    <3>1. req[1].page = Wanted(i) /\ Wanted(i) = p /\ p <= pages[i] /\ Request.page = Char(req[1].page)
          /\ req[1].id = i
      BY <1>4, RequestFacts DEF Stuck, Request
    <3>2. p \in Nat
      <4>1. req \in Seq(Requests) /\ 1 \in 1 .. Len(req)
        BY <1>4, RequestFacts, PagingTypes DEF TalkInv
      <4>2. req[1] \in Requests
        BY <4>1, ElementOfSeq
      <4> QED
        BY <1>4, <3>1, <4>2 DEF Requests
    <3>3. pages[i] \in 1 .. m /\ m \in Nat
      BY <1>0 DEF PagingAssumption
    <3>4. p \in 0 .. 22
      BY <3>1, <3>2, <3>3
    <3>5. Char(p) = p
      BY <3>4 DEF Char
    <3>6. Request.page = p
      BY <3>1, <3>5
    <3>7. ~(p < 0) /\ ~(pages[i] < p)
      BY <3>1, <3>2, <3>3
    <3> QED
      BY <1>4, <3>6, <3>7 DEF Illegal
  <2>2. CASE MmuHit /\ reply'[i] = <<Looked(Request).frame_number>> /\ Looked(Request).valid
    <3>1. Valid(i, p) /\ Looked(Request).frame_number = Number(i, p)
      BY <1>4, <2>1, <2>2 DEF Valid, Number, Looked
    <3>2. CASE Number(i, p) = -1
      BY <1>1, <1>4, <2>2, <3>1, <3>2 DEF Stuck, Wanted, PAGE_FAULT
    <3> QED
      BY <3>1, <3>2
  <2>3. CASE reply'[i] = <<PAGE_FAULT>>
    BY <1>1, <1>4, <2>3 DEF Stuck, Wanted
  <2> QED
    BY <1>4, <2>1, <2>2, <2>3
<1>5. ppc[i] # "unborn"
  BY DEF Stuck
<1> QED
  BY <1>2, <1>3, <1>4, <1>5, ProcSteps

\* The fault the MMU handles is one of a process that goes on asking.
LEMMA FaultKept ==
  ASSUME PagingAssumption, m <= 22, TalkInv, FaultInv, Next
  PROVE  FaultInv'
<1>0. /\ cur \in [id : Procs, page : -128 .. 127] /\ cur.id \in Procs
      /\ reply \in [Procs -> Seq(Answers)]
  BY PagingTypes DEF TalkInv
<1>1. CASE UNCHANGED <<page_table, cur>> /\ mpc' \in {mpc, "killed"}
  <2>1. ASSUME mpc' = "fault"
        PROVE  ~page_table'[Slot(cur'.id, cur'.page)].valid /\ (Queues' => Stuck(cur.id, cur.page)')
    <3>1. mpc = "fault" /\ ~page_table[Slot(cur.id, cur.page)].valid
      BY <1>1, <2>1 DEF FaultInv
    <3>2. PICK i \in Procs, p \in -128 .. 127 : i = cur.id /\ p = cur.page /\ i = cur'.id /\ p = cur'.page
      BY <1>0, <1>1
    <3>3. ~Valid(i, p)
      BY <3>1, <3>2 DEF Valid
    <3>4. Queues' => Stuck(i, p)'
      BY <3>1, <3>2, <3>3, StuckStep, StaticStep DEF FaultInv
    <3>5. Stuck(i, p)' => Stuck(cur.id, cur.page)'
      BY <3>2 DEF Stuck, Wanted
    <3> QED
      BY <1>1, <3>1, <3>4, <3>5
  <2>2. ASSUME mpc' = "invalid" PROVE Over(cur.id)'
    <3>1. mpc = "invalid"
      BY <1>1, <2>2
    <3>2. PICK i \in Procs : i = cur.id /\ i = cur'.id
      BY <1>0, <1>1
    <3>3. Over(i)'
      BY <3>1, <3>2, OverStep DEF FaultInv
    <3> QED
      BY <3>2, <3>3 DEF Over
  <2> QED
    BY <2>1, <2>2 DEF FaultInv
<1>2. CASE mpc' \notin {"fault", "invalid"}
  BY <1>2 DEF FaultInv
<1>3. CASE MmuInvalid
  <2>1. /\ mpc' = "invalid" /\ cur' = Request /\ Request.id \in Procs /\ Queues /\ mpc = "recv" /\ req # << >>
        /\ req[1].page # PROCESS_DONE /\ UNCHANGED procs
        /\ reply' = [reply EXCEPT ![Request.id] = Append(@, INVALID_PAGE_NUMBER)]
    BY <1>3, ServeKinds DEF MmuInvalid, Answer, Serve
  <2>2. PICK i \in Procs : i = Request.id
    BY <2>1
  <2>3. Asked(i) /\ Apart(i)
    BY <2>1, <2>2, RequestFacts, DialogueParts DEF Asked, TalkInv
  <2>4. ppc[i] = "recv" /\ reply[i] = << >>
    BY <2>1, <2>3 DEF Apart, TalkInv, Counted
  <2>5. reply'[i] = <<INVALID_PAGE_NUMBER>> /\ ppc'[i] = "recv" /\ cur'.id = i
    <3>1. reply'[i] = Append(reply[i], INVALID_PAGE_NUMBER)
      BY <1>0, <2>1, <2>2
    <3> QED
      BY <2>1, <2>2, <2>4, <3>1 DEF procs
  <2> QED
    BY <2>1, <2>5 DEF FaultInv, Over
<1>4. CASE MmuFault
  <2>1. /\ mpc' = "fault" /\ cur' = Request /\ Request.id \in Procs /\ Queues /\ mpc = "recv" /\ req # << >>
        /\ req[1].page # PROCESS_DONE /\ UNCHANGED <<static, procs, page_table>>
        /\ ~Looked(Request).valid /\ ~Illegal(Request)
        /\ reply' = [reply EXCEPT ![Request.id] = Append(@, PAGE_FAULT)]
    BY <1>4, ServeKinds DEF MmuFault, Answer, Serve, memory
  <2>2. PICK i \in Procs, p \in 0 .. pages[Request.id] : i = Request.id /\ p = Request.page
    BY <2>1, LookedFacts
  <2>3. Asked(i) /\ Apart(i)
    BY <2>1, <2>2, RequestFacts, DialogueParts DEF Asked, TalkInv
  <2>4. ppc[i] = "recv" /\ reply[i] = << >> /\ count[i] < Len(refs[i])
    BY <2>1, <2>3 DEF Apart, TalkInv, Counted
  <2>5. Wanted(i) = p /\ p <= pages[i]
    <3>1. p >= 0 /\ p <= pages[i]
      <4>1. pages[i] \in 1 .. m /\ m \in Nat
        BY PagingTypes DEF TalkInv
      <4> QED
        BY <2>2, <4>1
    <3> QED
      BY <2>1, <2>2, <3>1, RequestFacts
  <2>6. reply'[i] = <<PAGE_FAULT>> /\ ppc'[i] = "recv" /\ cur'.id = i /\ cur'.page = p
    <3>1. reply'[i] = Append(reply[i], PAGE_FAULT)
      BY <1>0, <2>1, <2>2
    <3> QED
      BY <2>1, <2>2, <2>4, <3>1 DEF procs
  <2>7. ~page_table'[Slot(i, p)].valid
    BY <2>1, <2>2 DEF Looked
  <2> QED
    BY <2>1, <2>4, <2>5, <2>6, <2>7 DEF FaultInv, Stuck, Wanted, static, procs
<1>5. CASE MmuDone \/ MmuHit \/ MmuReject \/ MmuLoad \/ MmuEvict \/ MmuCrash
  <2>1. mpc' \in {"recv", "finished", "crashed"}
    BY <1>5 DEF MmuDone, MmuHit, Answer, MmuReject, MmuLoad, MmuEvict, MmuCrash, Handled
  <2> QED
    BY <1>2, <2>1
<1>6. CASE (\E i \in Procs : Proc(i)) \/ Sched \/ Master
  BY <1>1, <1>6 DEF Proc, ProcReady, ProcScheduled, ProcSend, ProcRecv, ProcDone, ProcAbort, Sched, SchedPick,
     SchedHandled, SchedTerm, SchedStop, Master, Fork, TestFlag, Pause, Handler, Clear, OthersIdle, memory, mmu
<1> QED
  BY <1>3, <1>4, <1>5, <1>6 DEF Next, Mmu

\* The page of the fault is one of the process's row, unless it reaches into the next.
LEMMA OwnPage ==
  ASSUME PagingAssumption, TalkInv, FaultInv, NoAlias, Queues, mpc = "fault"
  PROVE  cur.id \in Procs /\ cur.page \in 0 .. m - 1 /\ ~Valid(cur.id, cur.page) /\ ~Over(cur.id)
<1>1. /\ cur.id \in Procs /\ pages[cur.id] \in 1 .. m /\ m \in Nat /\ refs \in [Procs -> Seq(Nat)]
      /\ count \in [Procs -> Nat] /\ \A i \in Procs : Len(refs[i]) \in Nat
  BY PagingTypes DEF TalkInv
<1>2. cur.page \in 0 .. pages[cur.id] /\ Stuck(cur.id, cur.page) /\ ~Valid(cur.id, cur.page)
  BY DEF TalkInv, Counted, FaultInv, Valid
<1>3. cur.page \in ToSet(refs[cur.id])
  <2>1. count[cur.id] + 1 \in 1 .. Len(refs[cur.id]) /\ DOMAIN refs[cur.id] = 1 .. Len(refs[cur.id])
    <3>1. count[cur.id] < Len(refs[cur.id]) /\ count[cur.id] \in Nat /\ Len(refs[cur.id]) \in Nat
      BY <1>1, <1>2 DEF Stuck
    <3>2. refs[cur.id] \in Seq(Nat)
      BY <1>1
    <3> QED
      BY <3>1, <3>2, LenProperties
  <2> QED
    BY <1>2, <2>1 DEF Stuck, Wanted, ToSet
<1>4. ~(cur.page = m)
  <2>1. cur.page = m => pages[cur.id] = m
    <3>1. \A x \in 1 .. m : \A y \in 0 .. x : y = m => x = m
      BY <1>1
    <3> QED
      BY <1>1, <1>2, <3>1
  <2> QED
    BY <1>1, <1>3, <2>1 DEF NoAlias
<1>5. cur.page \in 0 .. m - 1
  <2>1. \A x \in 1 .. m : \A y \in 0 .. x : y # m => y \in 0 .. m - 1
    BY <1>1
  <2> QED
    BY <1>1, <1>2, <1>4, <2>1
<1>6. ~Over(cur.id)
  <2>1. <<INVALID_PAGE_NUMBER>> # <<PAGE_FAULT>> /\ <<INVALID_PAGE_NUMBER>> # << >>
    <3>1. Head(<<INVALID_PAGE_NUMBER>>) = -2 /\ Head(<<PAGE_FAULT>>) = -1
      BY OneLong DEF INVALID_PAGE_NUMBER, PAGE_FAULT
    <3> QED
      BY <3>1, OneLong
  <2> QED
    BY <1>2, <2>1 DEF Over, Stuck
<1> QED
  BY <1>1, <1>2, <1>5, <1>6

\* An entry that keeps its number and becomes valid in no step.
LEMMA KeptEntry ==
  ASSUME PagingAssumption, m <= 22, TalkInv, OneOwner, Next, NEW i \in Procs, NEW p \in 0 .. m - 1,
         Number(i, p)' = Number(i, p), Valid(i, p)' => Valid(i, p)
  PROVE  /\ Owned(i, p)' => Owned(i, p)
         /\ Valid(i, p)' /\ Number(i, p)' = -1 /\ Queues' => Stuck(i, p)'
<1>1. Owned(i, p)' => Owned(i, p)
  <2>1. Over(i) => Over(i)'
    BY OverStep
  <2> QED
    BY <2>1 DEF Owned
<1>2. ASSUME Valid(i, p)', Number(i, p)' = -1, Queues' PROVE Stuck(i, p)'
  <2>1. Valid(i, p) /\ Number(i, p) = -1 /\ Queues
    BY <1>2, StaticStep
  <2>2. Stuck(i, p)
    BY <2>1 DEF OneOwner
  <2> QED
    BY <1>2, <2>1, <2>2, StuckStep
<1> QED
  BY <1>1, <1>2

\* A step that does not touch the tables and the free list.
LEMMA MemoryKept ==
  ASSUME PagingAssumption, m <= 22, TalkInv, OneOwner, Next, UNCHANGED memory
  PROVE  OneOwner'
<1>1. \A i \in Procs, p \in 0 .. m - 1 : Number(i, p)' = Number(i, p) /\ (Valid(i, p)' <=> Valid(i, p))
  BY DEF memory, Number, Valid
<1>2. ASSUME NEW i \in Procs, NEW p \in 0 .. m - 1
      PROVE  /\ Owned(i, p)' => Owned(i, p)
             /\ Valid(i, p)' /\ Number(i, p)' = -1 /\ Queues' => Stuck(i, p)'
  BY <1>1, KeptEntry
<1>3. freelist' = freelist
  BY DEF memory
<1> QED
  BY <1>1, <1>2, <1>3 DEF OneOwner

\* The entries after a fault: all but the one of the page keep their numbers and become
\* valid in no case; the free list is what it was, or without its last frame.
LEMMA HandledFacts ==
  ASSUME PagingAssumption, TalkInv, FaultInv, NoAlias, MmuLoad \/ MmuEvict
  PROVE  \E i0 \in Procs, p0 \in 0 .. m - 1 :
            /\ Queues /\ cur.id = i0 /\ cur.page = p0 /\ ~Valid(i0, p0) /\ ~Over(i0) /\ ~Over(i0)'
            /\ \A i \in Procs, p \in 0 .. m - 1 :
                  i # i0 \/ p # p0 => Number(i, p)' = Number(i, p) /\ (Valid(i, p)' => Valid(i, p))
            /\ \/ /\ freelist # << >> /\ freelist' = Front(freelist) /\ Number(i0, p0)' = Last(freelist)
               \/ freelist' = freelist /\ Number(i0, p0)' \in {Number(i0, p0), -1}
<1>0. page_table \in [Slots -> [valid : BOOLEAN, frame_number : Frame]] /\ m \in Nat /\ Procs \subseteq Nat
  BY PagingTypes DEF TalkInv
<1>1. Queues /\ mpc = "fault" /\ UNCHANGED <<procs, reply>>
  BY DEF MmuLoad, MmuEvict, Handled, queue3
<1>2. PICK i0 \in Procs, p0 \in 0 .. m - 1 :
         cur.id = i0 /\ cur.page = p0 /\ ~Valid(i0, p0) /\ ~Over(i0)
  BY <1>1, OwnPage
<1>3. ~Over(i0)'
  BY <1>1, <1>2 DEF Over, procs
<1> DEFINE own == Slot(i0, p0)
<1>4. own \in Slots /\ \A i \in Procs, p \in 0 .. m - 1 : Slot(i, p) \in Slots
  BY <1>0, SlotExists
<1>5. \A i \in Procs, p \in 0 .. m - 1 : i # i0 \/ p # p0 => Slot(i, p) # own
  BY <1>0, SlotFacts
<1> HIDE DEF own
<1>6. ASSUME NEW table \in [Slots -> [valid : BOOLEAN, frame_number : Frame]], NEW number,
             page_table' = [table EXCEPT ![own] = [valid |-> TRUE, frame_number |-> number]],
             \A s \in Slots : table[s].frame_number = page_table[s].frame_number
                              /\ (table[s].valid => page_table[s].valid)
      PROVE  /\ page_table'[own].frame_number = number
             /\ \A i \in Procs, p \in 0 .. m - 1 :
                   i # i0 \/ p # p0 => Number(i, p)' = Number(i, p) /\ (Valid(i, p)' => Valid(i, p))
  <2>1. page_table'[own] = [valid |-> TRUE, frame_number |-> number]
    BY <1>4, <1>6
  <2>2. \A s \in Slots : s # own => page_table'[s] = table[s]
    BY <1>6
  <2>3. ASSUME NEW i \in Procs, NEW p \in 0 .. m - 1, i # i0 \/ p # p0
        PROVE  Number(i, p)' = Number(i, p) /\ (Valid(i, p)' => Valid(i, p))
    <3>1. Slot(i, p) \in Slots /\ Slot(i, p) # own
      BY <1>4, <1>5, <2>3
    <3>2. page_table'[Slot(i, p)] = table[Slot(i, p)]
      BY <2>2, <3>1
    <3> QED
      BY <1>6, <3>1, <3>2 DEF Number, Valid
  <2> QED
    BY <2>1, <2>3
<1>7. CASE MmuLoad
  <2>1. /\ freelist # << >> /\ freelist' = Front(freelist)
        /\ page_table' = [page_table EXCEPT ![own] = [valid |-> TRUE, frame_number |-> Last(freelist)]]
    BY <1>2, <1>7 DEF MmuLoad, FrameLeft, Loaded, own
  <2>2. /\ page_table'[own].frame_number = Last(freelist)
        /\ \A i \in Procs, p \in 0 .. m - 1 :
              i # i0 \/ p # p0 => Number(i, p)' = Number(i, p) /\ (Valid(i, p)' => Valid(i, p))
    BY <1>0, <1>6, <2>1
  <2>3. Number(i0, p0)' = Last(freelist)
    BY <2>2 DEF Number, own
  <2> QED
    BY <1>1, <1>2, <1>3, <2>1, <2>2, <2>3
<1>8. CASE MmuEvict
  <2> DEFINE mini == IF Victims = {} THEN -1 ELSE CHOOSE i \in Victims : \A j \in Victims : i <= j
             frame == IF Victims = {} THEN -1 ELSE page_table[own].frame_number
             drop == Slot(cur.id, mini)
             table == IF drop \in Slots THEN [page_table EXCEPT ![drop].valid = FALSE] ELSE page_table
  <2>1. /\ page_table' = [table EXCEPT ![own] = [valid |-> TRUE, frame_number |-> frame]]
        /\ freelist' = freelist
    BY <1>2, <1>8 DEF MmuEvict, Loaded, own
  <2>2. frame \in {page_table[own].frame_number, -1}
    OBVIOUS
  <2> HIDE DEF drop, frame
  <2>3. /\ table \in [Slots -> [valid : BOOLEAN, frame_number : Frame]]
        /\ \A s \in Slots : table[s].frame_number = page_table[s].frame_number
                            /\ (table[s].valid => page_table[s].valid)
    BY <1>0
  <2> HIDE DEF table
  <2>4. /\ page_table'[own].frame_number = frame
        /\ \A i \in Procs, p \in 0 .. m - 1 :
              i # i0 \/ p # p0 => Number(i, p)' = Number(i, p) /\ (Valid(i, p)' => Valid(i, p))
    BY <1>6, <2>1, <2>3
  <2>5. Number(i0, p0)' \in {Number(i0, p0), -1}
    BY <2>2, <2>4 DEF Number, own
  <2> QED
    BY <1>1, <1>2, <1>3, <2>1, <2>4, <2>5
<1> QED
  BY <1>7, <1>8

\* The free list without its last frame.
LEMMA FrontFacts ==
  ASSUME freelist \in Seq(Frame), freelist # << >>
  PROVE  /\ Len(freelist) \in Nat /\ Len(freelist) > 0 /\ Last(freelist) = freelist[Len(freelist)]
         /\ Len(Front(freelist)) = Len(freelist) - 1
         /\ \A j \in 1 .. Len(Front(freelist)) :
               Front(freelist)[j] = freelist[j] /\ j \in 1 .. Len(freelist) /\ j # Len(freelist)
<1>1. Len(freelist) \in Nat /\ Len(freelist) > 0
  BY LenProperties, EmptySeq
<1>2. \A j \in 1 .. Len(freelist) - 1 : j \in 1 .. Len(freelist) /\ j # Len(freelist)
  BY <1>1
<1>3. Len(Front(freelist)) = Len(freelist) - 1 /\ \A j \in 1 .. Len(freelist) - 1 : Front(freelist)[j] = freelist[j]
  <2> DEFINE n == Len(freelist) - 1
  <2>1. n \in Nat /\ Len(freelist) = n + 1
    BY <1>1
  <2>2. \A j \in 1 .. n : freelist[j] \in Frame
    BY <1>2, ElementOfSeq
  <2> HIDE DEF n
  <2>3. /\ Len(SubSeq(freelist, 1, n)) = IF 1 <= n THEN n - 1 + 1 ELSE 0
        /\ \A j \in 1 .. n - 1 + 1 : SubSeq(freelist, 1, n)[j] = freelist[1 + j - 1]
    BY <2>1, <2>2, SubSeqProperties
  <2>4. (IF 1 <= n THEN n - 1 + 1 ELSE 0) = n /\ \A j \in 1 .. n : j \in 1 .. n - 1 + 1 /\ 1 + j - 1 = j
    BY <2>1
  <2>5. Len(SubSeq(freelist, 1, n)) = n /\ \A j \in 1 .. n : SubSeq(freelist, 1, n)[j] = freelist[j]
    <3>1. Len(SubSeq(freelist, 1, n)) = n
      <4> DEFINE front == SubSeq(freelist, 1, n)
      <4>1. Len(front) = IF 1 <= n THEN n - 1 + 1 ELSE 0
        BY <2>3
      <4> HIDE DEF front
      <4>2. Len(front) = n
        BY <2>1, <4>1
      <4> QED
        BY <4>2 DEF front
    <3>2. ASSUME NEW j \in 1 .. n PROVE SubSeq(freelist, 1, n)[j] = freelist[j]
      <4>1. j \in 1 .. n - 1 + 1 /\ 1 + j - 1 = j
        BY <2>4, Zenon
      <4>2. SubSeq(freelist, 1, n)[j] = freelist[1 + j - 1]
        BY <2>3, <4>1, Zenon
      <4> QED
        BY <4>1, <4>2, Zenon
    <3> QED
      BY <3>1, <3>2, Zenon
  <2> QED
    BY <2>5 DEF Front, n
<1> QED
  BY <1>1, <1>2, <1>3 DEF Last

\* A fault that is handled gives the frame taken to one entry, and no frame to two.
LEMMA HandledKept ==
  ASSUME PagingAssumption, m <= 22, TalkInv, FaultInv, NoAlias, OneOwner, Next, MmuLoad \/ MmuEvict
  PROVE  OneOwner'
<1>0. freelist \in Seq(Frame)
  BY PagingTypes DEF TalkInv
<1>1. PICK i0 \in Procs, p0 \in 0 .. m - 1 :
            /\ Queues /\ cur.id = i0 /\ cur.page = p0 /\ ~Valid(i0, p0) /\ ~Over(i0) /\ ~Over(i0)'
            /\ \A i \in Procs, p \in 0 .. m - 1 :
                  i # i0 \/ p # p0 => Number(i, p)' = Number(i, p) /\ (Valid(i, p)' => Valid(i, p))
            /\ \/ /\ freelist # << >> /\ freelist' = Front(freelist) /\ Number(i0, p0)' = Last(freelist)
               \/ freelist' = freelist /\ Number(i0, p0)' \in {Number(i0, p0), -1}
  BY HandledFacts
<1>2. ASSUME NEW i \in Procs, NEW p \in 0 .. m - 1, i # i0 \/ p # p0
      PROVE  /\ Number(i, p)' = Number(i, p) /\ (Owned(i, p)' => Owned(i, p))
             /\ Valid(i, p)' /\ Number(i, p)' = -1 /\ Queues' => Stuck(i, p)'
  BY <1>1, <1>2, KeptEntry
<1>3. Stuck(i0, p0)
  BY <1>1 DEF FaultInv, MmuLoad, MmuEvict, Handled
<1>4. Queues' => Stuck(i0, p0)'
  BY <1>1, <1>3, StuckStep
<1>5. \A i \in Procs, p \in 0 .. m - 1 : Valid(i, p)' /\ Number(i, p)' = -1 /\ Queues' => Stuck(i, p)'
  BY <1>2, <1>4
<1>6. CASE freelist # << >> /\ freelist' = Front(freelist) /\ Number(i0, p0)' = Last(freelist)
  <2>1. /\ Last(freelist) = freelist[Len(freelist)] /\ Len(freelist) \in 1 .. Len(freelist)
        /\ \A j \in 1 .. Len(freelist') :
              freelist'[j] = freelist[j] /\ j \in 1 .. Len(freelist) /\ j # Len(freelist)
    BY <1>0, <1>6, FrontFacts
  <2>2. ASSUME NEW i \in Procs, NEW p \in 0 .. m - 1, i # i0 \/ p # p0, Owned(i, p)'
        PROVE  Number(i, p)' # Number(i0, p0)'
    BY <1>2, <1>6, <2>1, <2>2 DEF OneOwner
  <2>3. \A i, j \in Procs, p, q \in 0 .. m - 1 :
          Owned(i, p)' /\ Owned(j, q)' /\ Number(i, p)' = Number(j, q)' => i = j /\ p = q
    BY <1>2, <2>2 DEF OneOwner
  <2>4. \A i \in Procs, p \in 0 .. m - 1, j \in 1 .. Len(freelist') : Owned(i, p)' => Number(i, p)' # freelist'[j]
    <3> SUFFICES ASSUME NEW i \in Procs, NEW p \in 0 .. m - 1, NEW j \in 1 .. Len(freelist'), Owned(i, p)'
                 PROVE  Number(i, p)' # freelist'[j]
      OBVIOUS
    <3>1. CASE i = i0 /\ p = p0
      BY <1>6, <2>1, <3>1 DEF OneOwner
    <3>2. CASE i # i0 \/ p # p0
      BY <1>2, <2>1, <3>2 DEF OneOwner
    <3> QED
      BY <3>1, <3>2
  <2>5. /\ \A j \in 1 .. Len(freelist') : freelist'[j] # -1
        /\ \A j, l \in 1 .. Len(freelist') : freelist'[j] = freelist'[l] => j = l
    BY <2>1 DEF OneOwner
  <2> QED
    BY <1>5, <2>3, <2>4, <2>5 DEF OneOwner
<1>7. CASE freelist' = freelist /\ Number(i0, p0)' \in {Number(i0, p0), -1}
  <2>1. \A i \in Procs, p \in 0 .. m - 1 : Owned(i, p)' => Owned(i, p) /\ Number(i, p)' = Number(i, p)
    <3>1. Owned(i0, p0)' => Owned(i0, p0) /\ Number(i0, p0)' = Number(i0, p0)
      BY <1>1, <1>7 DEF Owned
    <3> QED
      BY <1>2, <3>1
  <2> QED
    BY <1>5, <1>7, <2>1 DEF OneOwner
<1> QED
  BY <1>1, <1>6, <1>7

\* A process that is over gives back the frames of its row, and none is owned twice.
LEMMA FreedKept ==
  ASSUME PagingAssumption, m <= 22, TalkInv, NoAlias, OneOwner, Next, NEW i0 \in Procs,
         FreePages(i0), Over(i0), Queues
  PROVE  OneOwner'
<1>0. /\ page_table \in [Slots -> [valid : BOOLEAN, frame_number : Frame]] /\ freelist \in Seq(Frame)
      /\ TypeOK /\ m \in Nat /\ Procs \subseteq Nat
  BY PagingTypes DEF TalkInv
<1>1. Len(freelist) \in Nat
  BY <1>0, LenProperties
<1> DEFINE rows == RowSlots(i0)
           c == Cardinality(rows)
<1>2. /\ rows \subseteq Slots /\ c \in Nat
      /\ \A s \in rows : page_table[s].valid /\ \E p \in 0 .. m - 1 : s = Slot(i0, p)
      /\ \A p \in 0 .. m - 1 : Valid(i0, p) => Slot(i0, p) \in rows
  BY RowFacts DEF Valid
<1>3. page_table' = [s \in Slots |-> IF s \in rows THEN [page_table[s] EXCEPT !.valid = FALSE] ELSE page_table[s]]
  BY <1>0, Freed
<1>4. PICK seq \in [1 .. c -> rows] :
         /\ Len(freelist') = Len(freelist) + c
         /\ \A j \in 1 .. Len(freelist) : freelist'[j] = freelist[j]
         /\ \A j \in 1 .. c : freelist'[Len(freelist) + j] = page_table[seq[j]].frame_number
         /\ \A j, l \in 1 .. c : seq[j] = seq[l] => j = l
  BY <1>0, Freed
<1> HIDE DEF rows, c
<1>5. Over(i0)'
  BY OverStep
<1>6. ASSUME NEW i \in Procs, NEW p \in 0 .. m - 1
      PROVE  Number(i, p)' = Number(i, p) /\ (Valid(i, p)' => Valid(i, p)) /\ (i = i0 => ~Valid(i, p)')
  <2>1. Slot(i, p) \in Slots
    BY <1>0, SlotExists
  <2>2. Number(i, p)' = Number(i, p) /\ (Valid(i, p)' => Valid(i, p) /\ Slot(i, p) \notin rows)
    BY <1>0, <1>3, <2>1 DEF Number, Valid
  <2>3. i = i0 => ~Valid(i, p)'
    BY <1>2, <2>2
  <2> QED
    BY <2>2, <2>3
<1>7. ASSUME NEW i \in Procs, NEW p \in 0 .. m - 1
      PROVE  /\ Owned(i, p)' => Owned(i, p) /\ i # i0
             /\ Valid(i, p)' /\ Number(i, p)' = -1 /\ Queues' => Stuck(i, p)'
  <2>1. Owned(i, p)' => Owned(i, p)
    BY <1>6, KeptEntry
  <2>2. Owned(i, p)' => i # i0
    BY <1>5, <1>6 DEF Owned
  <2>3. Valid(i, p)' /\ Number(i, p)' = -1 /\ Queues' => Stuck(i, p)'
    BY <1>6, KeptEntry
  <2> QED
    BY <2>1, <2>2, <2>3
<1>8. ASSUME NEW j \in 1 .. c
      PROVE  \E p \in 0 .. m - 1 :
                seq[j] = Slot(i0, p) /\ Owned(i0, p) /\ freelist'[Len(freelist) + j] = Number(i0, p)
  <2>1. seq[j] \in rows /\ freelist'[Len(freelist) + j] = page_table[seq[j]].frame_number
    BY <1>4
  <2>2. PICK p \in 0 .. m - 1 : seq[j] = Slot(i0, p) /\ Valid(i0, p)
    BY <1>2, <2>1 DEF Valid
  <2>3. ~Stuck(i0, p)
    <3>1. <<INVALID_PAGE_NUMBER>> # <<PAGE_FAULT>> /\ <<INVALID_PAGE_NUMBER>> # << >>
      <4>1. Head(<<INVALID_PAGE_NUMBER>>) = -2 /\ Head(<<PAGE_FAULT>>) = -1
        BY OneLong DEF INVALID_PAGE_NUMBER, PAGE_FAULT
      <4> QED
        BY <4>1, OneLong
    <3> QED
      BY <3>1 DEF Over, Stuck
  <2>4. Owned(i0, p)
    BY <2>2, <2>3 DEF Owned, OneOwner
  <2> QED
    BY <2>1, <2>2, <2>4 DEF Number
<1>9. \A j \in 1 .. Len(freelist') : j \in 1 .. Len(freelist) \/ \E l \in 1 .. c : j = Len(freelist) + l
  <2> SUFFICES ASSUME NEW j \in 1 .. Len(freelist'), j \notin 1 .. Len(freelist)
               PROVE  \E l \in 1 .. c : j = Len(freelist) + l
    OBVIOUS
  <2>1. \A a \in Nat, b \in Nat : \A x \in 1 .. a + b : x \notin 1 .. a => x - a \in 1 .. b /\ x = a + (x - a)
    OBVIOUS
  <2>2. j \in 1 .. Len(freelist) + c
    BY <1>4
  <2>3. j - Len(freelist) \in 1 .. c /\ j = Len(freelist) + (j - Len(freelist))
    BY <1>1, <1>2, <2>1, <2>2, Zenon
  <2> QED
    BY <2>3
<1>10. \A i \in Procs, p \in 0 .. m - 1, j \in 1 .. Len(freelist') : Owned(i, p)' => Number(i, p)' # freelist'[j]
  <2> SUFFICES ASSUME NEW i \in Procs, NEW p \in 0 .. m - 1, NEW j \in 1 .. Len(freelist'), Owned(i, p)'
               PROVE  Number(i, p)' # freelist'[j]
    OBVIOUS
  <2>1. Owned(i, p) /\ i # i0 /\ Number(i, p)' = Number(i, p)
    BY <1>6, <1>7
  <2>2. CASE j \in 1 .. Len(freelist)
    BY <1>4, <2>1, <2>2 DEF OneOwner
  <2>3. ASSUME NEW l \in 1 .. c, j = Len(freelist) + l PROVE Number(i, p)' # freelist'[j]
    BY <1>8, <2>1, <2>3 DEF OneOwner
  <2> QED
    BY <1>9, <2>2, <2>3
<1>11. \A j \in 1 .. Len(freelist') : freelist'[j] # -1
  <2>1. \A j \in 1 .. Len(freelist) : freelist'[j] # -1
    BY <1>4 DEF OneOwner
  <2>2. \A l \in 1 .. c : freelist'[Len(freelist) + l] # -1
    BY <1>8 DEF Owned
  <2> QED
    BY <1>9, <2>1, <2>2
<1>12. \A j, l \in 1 .. Len(freelist') : freelist'[j] = freelist'[l] => j = l
  <2>1. \A j \in 1 .. Len(freelist), l \in 1 .. c : freelist'[j] # freelist'[Len(freelist) + l]
    BY <1>4, <1>8 DEF OneOwner
  <2>2. \A j, l \in 1 .. c : freelist'[Len(freelist) + j] = freelist'[Len(freelist) + l] => j = l
    <3> SUFFICES ASSUME NEW j \in 1 .. c, NEW l \in 1 .. c,
                        freelist'[Len(freelist) + j] = freelist'[Len(freelist) + l]
                 PROVE  seq[j] = seq[l]
      BY <1>4
    <3>1. PICK p \in 0 .. m - 1 :
            seq[j] = Slot(i0, p) /\ Owned(i0, p) /\ freelist'[Len(freelist) + j] = Number(i0, p)
      BY <1>8
    <3>2. PICK q \in 0 .. m - 1 :
            seq[l] = Slot(i0, q) /\ Owned(i0, q) /\ freelist'[Len(freelist) + l] = Number(i0, q)
      BY <1>8
    <3>3. p = q
      BY <3>1, <3>2 DEF OneOwner
    <3> QED
      BY <3>1, <3>2, <3>3
  <2>3. \A j, l \in 1 .. Len(freelist) : freelist'[j] = freelist'[l] => j = l
    BY <1>4 DEF OneOwner
  <2> SUFFICES ASSUME NEW j \in 1 .. Len(freelist'), NEW l \in 1 .. Len(freelist'), freelist'[j] = freelist'[l]
               PROVE  j = l
    OBVIOUS
  <2>4. CASE j \in 1 .. Len(freelist) /\ l \in 1 .. Len(freelist)
    BY <2>3, <2>4
  <2>5. ASSUME NEW x \in 1 .. c, j = Len(freelist) + x, l \in 1 .. Len(freelist) PROVE j = l
    BY <2>1, <2>5
  <2>6. ASSUME NEW x \in 1 .. c, l = Len(freelist) + x, j \in 1 .. Len(freelist) PROVE j = l
    BY <2>1, <2>6
  <2>7. ASSUME NEW x \in 1 .. c, NEW y \in 1 .. c, j = Len(freelist) + x, l = Len(freelist) + y PROVE j = l
    BY <2>2, <2>7
  <2> QED
    BY <1>9, <2>4, <2>5, <2>6, <2>7
<1>13. \A i, j \in Procs, p, q \in 0 .. m - 1 :
          Owned(i, p)' /\ Owned(j, q)' /\ Number(i, p)' = Number(j, q)' => i = j /\ p = q
  BY <1>6, <1>7 DEF OneOwner
<1> QED
  BY <1>7, <1>10, <1>11, <1>12, <1>13 DEF OneOwner

\* No frame gets a second owner.
LEMMA FrameKept ==
  ASSUME PagingAssumption, m <= 22, TalkInv, FaultInv, FrameInv, Next
  PROVE  FrameInv'
<1> SUFFICES ASSUME NoAlias' PROVE OneOwner'
  BY DEF FrameInv
<1>1. NoAlias /\ OneOwner
  BY StaticStep DEF FrameInv
<1>2. CASE UNCHANGED memory
  BY <1>1, <1>2, MemoryKept
<1>3. CASE MmuLoad \/ MmuEvict
  BY <1>1, <1>3, HandledKept
<1>4. CASE MmuDone
  <2>1. /\ Queues /\ req # << >> /\ Request.id \in Procs /\ req[1].page = PROCESS_DONE /\ FreePages(Request.id)
    BY <1>4, ServeKinds DEF MmuDone, MmuInvalid, MmuHit, MmuFault, Serve
  <2>2. ppc[Request.id] = "exited"
    BY <2>1, RequestFacts
  <2> QED
    BY <1>1, <2>1, <2>2, FreedKept DEF Over
<1>5. CASE MmuReject
  <2>1. Queues /\ cur.id \in Procs /\ FreePages(cur.id) /\ Over(cur.id)
    BY <1>5, PagingTypes DEF MmuReject, FaultInv, TalkInv
  <2> QED
    BY <1>1, <2>1, FreedKept
<1> QED
  BY <1>2, <1>3, <1>4, <1>5 DEF Next, Proc, ProcReady, ProcScheduled, ProcSend, ProcRecv, ProcDone, ProcAbort, Sched,
     SchedPick, SchedHandled, SchedTerm, SchedStop, Mmu, MmuInvalid, MmuHit, MmuFault, MmuCrash, Master, Fork,
     TestFlag, Pause, Handler, Clear, OthersIdle

\* At first every entry is empty and every frame is free once.
LEMMA FrameStart ==
  ASSUME PagingAssumption, Init
  PROVE  FaultInv /\ FrameInv
<1>1. k \in Nat /\ m \in Nat /\ f \in Nat
  BY DEF PagingAssumption
<1>2. FaultInv
  BY DEF FaultInv, Init
<1>3. ASSUME NEW i \in Procs, NEW p \in 0 .. m - 1 PROVE ~Valid(i, p) /\ Number(i, p) = -1
  <2>1. Slot(i, p) \in Slots /\ Slot(i, p) \in 0 .. k * m - 1
    BY <1>1, SlotExists
  <2>2. k * m \in Int
    BY <1>1
  <2>3. Slot(i, p) # k * m
    BY <2>1, <2>2
  <2> QED
    BY <2>1, <2>3 DEF Valid, Number, Init
<1>4. Len(freelist) = f /\ \A j \in 1 .. f : freelist[j] = j - 1
  BY <1>1 DEF Init
<1>5. OneOwner
  <2>1. \A i \in Procs, p \in 0 .. m - 1 : ~Owned(i, p) /\ ~Valid(i, p)
    BY <1>3 DEF Owned
  <2>2. /\ \A j \in 1 .. Len(freelist) : freelist[j] # -1
        /\ \A j, l \in 1 .. Len(freelist) : freelist[j] = freelist[l] => j = l
    BY <1>1, <1>4
  <2> QED
    BY <2>1, <2>2 DEF OneOwner
<1> QED
  BY <1>2, <1>5 DEF FrameInv

\* Every slot of the table is a page of some process.
LEMMA SlotOwner ==
  ASSUME PagingAssumption, NEW s \in 0 .. k * m - 1
  PROVE  \E i \in Procs, p \in 0 .. m - 1 : s = Slot(i, p)
<1>1. k \in Nat /\ m \in Nat /\ m > 0 /\ s \in Nat /\ k * m \in Nat /\ s < k * m
  BY DEF PagingAssumption
<1> DEFINE i == s \div m
           p == s % m
<1>2. i \in Int /\ p \in 0 .. m - 1 /\ s = m * i + p
  BY <1>1
<1> HIDE DEF i, p
<1>3. m * i = i * m /\ s = i * m + p
  BY <1>1, <1>2
<1>4. i >= 0
  <2> SUFFICES ASSUME i < 0 PROVE FALSE
    BY <1>2
  <2>1. PICK d \in Nat : i = -1 - d
    <3>1. -1 - i \in Nat /\ i = -1 - (-1 - i)
      BY <1>2
    <3> QED
      BY <3>1
  <2>2. i * m = -m - d * m /\ d * m \in Nat
    BY <1>1, <2>1
  <2> QED
    BY <1>1, <1>2, <1>3, <2>2
<1>5. i < k
  <2> SUFFICES ASSUME i >= k PROVE FALSE
    BY <1>1, <1>2
  <2>1. PICK d \in Nat : i = k + d
    <3>1. i - k \in Nat /\ i = k + (i - k)
      BY <1>1, <1>2
    <3> QED
      BY <3>1
  <2>2. i * m = k * m + d * m /\ d * m \in Nat
    BY <1>1, <2>1
  <2> QED
    BY <1>1, <1>2, <1>3, <2>2
<1>6. i \in Procs
  BY <1>1, <1>2, <1>4, <1>5 DEF Procs
<1> QED
  BY <1>2, <1>3, <1>6 DEF Slot

\* One owner of each frame is what FramesExclusive says, and the free list cannot
\* outgrow the frames.
LEMMA FramesOf == ASSUME PagingAssumption, PagingInv PROVE FramesExclusive
<1>0. freelist \in Seq(Frame) /\ f \in Nat /\ DOMAIN freelist = 1 .. Len(freelist) /\ Len(freelist) \in Nat /\ TypeOK
  BY PagingTypes, LenProperties DEF PagingInv, TalkInv
<1> SUFFICES ASSUME NoAlias
             PROVE  /\ \A s, t \in Resident : page_table[s].frame_number = page_table[t].frame_number => s = t
                    /\ \A j, l \in FreeFrames : freelist[j] = freelist[l] => j = l
                    /\ \A s \in Resident, j \in FreeFrames : page_table[s].frame_number # freelist[j]
                    /\ Len(freelist) <= f
  BY <1>0 DEF FramesExclusive
<1>1. OneOwner
  BY DEF PagingInv, FrameInv
<1>2. \A s \in Resident : \E i \in Procs, p \in 0 .. m - 1 :
         s = Slot(i, p) /\ Owned(i, p) /\ page_table[s].frame_number = Number(i, p)
  <2> SUFFICES ASSUME NEW s \in Resident
               PROVE  \E i \in Procs, p \in 0 .. m - 1 :
                         s = Slot(i, p) /\ Owned(i, p) /\ page_table[s].frame_number = Number(i, p)
    OBVIOUS
  <2>1. s \in 0 .. k * m - 1 /\ page_table[s].valid /\ page_table[s].frame_number # -1
    BY DEF Resident
  <2>2. PICK i \in Procs, p \in 0 .. m - 1 : s = Slot(i, p)
    BY <2>1, SlotOwner
  <2> QED
    BY <2>1, <2>2 DEF Owned, Valid, Number
<1>3. \A s, t \in Resident : page_table[s].frame_number = page_table[t].frame_number => s = t
  BY <1>1, <1>2 DEF OneOwner
<1>4. \A s \in Resident, j \in FreeFrames : page_table[s].frame_number # freelist[j]
  BY <1>0, <1>1, <1>2 DEF OneOwner, FreeFrames
<1>5. \A j, l \in FreeFrames : freelist[j] = freelist[l] => j = l
  BY <1>0, <1>1 DEF OneOwner, FreeFrames
<1>6. Len(freelist) <= f
  <2> DEFINE fun == [j \in 1 .. Len(freelist) |-> freelist[j]]
  <2>1. \A j \in 1 .. Len(freelist) : freelist[j] \in Frames
    <3>1. \A j \in 1 .. Len(freelist) : freelist[j] \in Frame /\ freelist[j] # -1
      BY <1>0, <1>1, ElementOfSeq DEF OneOwner
    <3> QED
      BY <3>1 DEF Frame
  <2>2. fun \in Injection(1 .. Len(freelist), Frames)
    <3>1. fun \in [1 .. Len(freelist) -> Frames]
      BY <2>1
    <3>2. \A a, b \in 1 .. Len(freelist) : fun[a] = fun[b] => a = b
      BY <1>1 DEF OneOwner
    <3> QED
      BY <3>1, <3>2 DEF Injection, IsInjective
  <2>3. IsFiniteSet(Frames) /\ Cardinality(Frames) = f
    <3>1. IsFiniteSet(0 .. f - 1) /\ Cardinality(0 .. f - 1) = IF 0 > f - 1 THEN 0 ELSE (f - 1) - 0 + 1
      <4>1. 0 \in Int /\ f - 1 \in Int
        BY <1>0
      <4> QED
        BY <4>1, FS_Interval, Zenon
    <3>2. (IF 0 > f - 1 THEN 0 ELSE (f - 1) - 0 + 1) = f
      BY <1>0
    <3> QED
      BY <3>1, <3>2 DEF Frames
  <2>4. Cardinality(1 .. Len(freelist)) = Len(freelist)
    <3>1. Cardinality(1 .. Len(freelist)) = IF 1 > Len(freelist) THEN 0 ELSE Len(freelist) - 1 + 1
      <4>1. 1 \in Int /\ Len(freelist) \in Int
        BY <1>0
      <4> QED
        BY <4>1, FS_Interval, Zenon
    <3>2. \A n \in Nat : (IF 1 > n THEN 0 ELSE n - 1 + 1) = n
      OBVIOUS
    <3> QED
      BY <1>0, <3>1, <3>2, Zenon
  <2> HIDE DEF fun
  <2>5. Cardinality(1 .. Len(freelist)) <= Cardinality(Frames)
    BY <2>2, <2>3, FS_Injection
  <2> QED
    BY <2>3, <2>4, <2>5
<1> QED
  BY <1>3, <1>4, <1>5, <1>6

\* For any numbers of processes and frames and up to 22 pages, a frame is behind one entry
\* or free once, and the free list keeps its room, whatever faults, evictions and
\* terminations happen, as long as no process reaches into the table of the next
\* (mmu.c, page_fault_handler and free_pages).
THEOREM FramesGivenOnce ==
  ASSUME PagingAssumption, m <= 22
  PROVE  Spec => []FramesExclusive
<1>1. Init => PagingInv
  BY TalkStart, FrameStart DEF PagingInv
<1>2. PagingInv /\ [Next]_vars => PagingInv'
  <2> SUFFICES ASSUME PagingInv, [Next]_vars PROVE PagingInv'
    OBVIOUS
  <2>1. CASE Next
    BY <2>1, TalkStep, FaultKept, FrameKept DEF PagingInv
  <2>2. CASE UNCHANGED vars
    <3>1. TalkInv'
      BY <2>2, TalkStep DEF PagingInv
    <3>2. UNCHANGED <<pages, refs, page_table, freelist, reply, ppc, count, mpc, cur, master>>
      BY <2>2 DEF vars, static, memory, queue3, procs, mmu, mast
    <3>3. FaultInv'
      BY <3>2 DEF PagingInv, FaultInv, Stuck, Over, Wanted, Queues
    <3>4. FrameInv'
      <4>1. \A i, p : /\ Valid(i, p)' <=> Valid(i, p)
                      /\ Number(i, p)' = Number(i, p)
                      /\ Owned(i, p)' <=> Owned(i, p)
                      /\ Stuck(i, p)' <=> Stuck(i, p)
        BY <3>2 DEF Valid, Number, Owned, Stuck, Over, Wanted
      <4>2. (NoAlias' <=> NoAlias) /\ (Queues' <=> Queues) /\ freelist' = freelist
        BY <3>2 DEF NoAlias, Queues
      <4> QED
        BY <4>1, <4>2 DEF PagingInv, FrameInv, OneOwner
    <3> QED
      BY <3>1, <3>3, <3>4 DEF PagingInv
  <2> QED
    BY <2>1, <2>2
<1>3. PagingInv => FramesExclusive
  BY FramesOf
<1> QED
  BY <1>1, <1>2, <1>3, PTL DEF Spec

-----------------------------------------------------------------------------
(* The scheduler and the notes                                             *)

\* How many elements of a sequence are in a set.
CountIn(s, S) == Cardinality({j \in 1 .. Len(s) : s[j] \in S})

Started == {i \in Procs : ppc[i] \notin {"unborn", "start"}}
Exited == {i \in Procs : ppc[i] = "exited"}
Dones == CountIn(req, {r \in Requests : r.page = PROCESS_DONE})
Terms == CountIn(notes, {"term"})
Reported == term_count + Terms + Dones

\* The scheduler is killed only after it has told the master that all have ended.
Signal ==
    /\ signalled => spc = "paused"
    /\ flag => spc = "killed"
    /\ master \in {"cleanup", "over"} => flag
    /\ spc \in {"stop", "paused", "killed"} => term_count = k

\* A process that has begun is in the ready queue, or woken with a note to come, or
\* counted as ended; a process that waits and is not woken is itself in the queue.
Turns ==
    /\ spc # "killed" => Len(ready) + (IF spc = "note" THEN 1 ELSE 0) + term_count = Cardinality(Started)
    /\ \A i \in Procs : ppc[i] = "wait" /\ wake[i] = 0 => \E j \in 1 .. Len(ready) : ready[j] = i

\* The end of a process is under way to the MMU, or to the scheduler, or counted; there
\* are no other ends if all references are legal.
Ends ==
    /\ Cardinality(Exited) <= Reported
    /\ Legal => /\ Cardinality(Exited) = Reported
                /\ mpc # "invalid"
                /\ \A i \in Procs : /\ ppc[i] # "done" /\ reply[i] # <<INVALID_PAGE_NUMBER>>
                                    /\ ppc[i] = "exited" => count[i] = Len(refs[i])

NotesInv == TalkInv /\ Signal /\ Turns /\ Ends

\* Sequences, and how many of their elements are in a set.
LEMMA CountType ==
  ASSUME NEW T, NEW s \in Seq(T), NEW S
  PROVE  CountIn(s, S) \in Nat /\ (s = << >> => CountIn(s, S) = 0)
<1>1. Len(s) \in Nat
  BY LenProperties
<1>2. IsFiniteSet(1 .. Len(s))
  BY <1>1, FS_Interval
<1>3. {j \in 1 .. Len(s) : s[j] \in S} \subseteq 1 .. Len(s)
  OBVIOUS
<1>4. CountIn(s, S) \in Nat
  BY <1>2, <1>3, FS_Subset, FS_CardinalityType DEF CountIn
<1>5. ASSUME s = << >> PROVE CountIn(s, S) = 0
  <2>1. Len(s) = 0
    BY <1>5
  <2>2. {j \in 1 .. Len(s) : s[j] \in S} = {}
    BY <2>1
  <2> QED
    BY <2>2, FS_EmptySet DEF CountIn
<1> QED
  BY <1>4, <1>5

LEMMA CountAppend ==
  ASSUME NEW T, NEW s \in Seq(T), NEW x \in T, NEW S
  PROVE  /\ x \in S => CountIn(Append(s, x), S) = CountIn(s, S) + 1
         /\ x \notin S => CountIn(Append(s, x), S) = CountIn(s, S)
<1> DEFINE t == Append(s, x)
           A == {j \in 1 .. Len(s) : s[j] \in S}
           B == {j \in 1 .. Len(t) : t[j] \in S}
<1>1. /\ Len(s) \in Nat /\ Len(t) = Len(s) + 1 /\ t[Len(s) + 1] = x
      /\ \A j \in 1 .. Len(s) : t[j] = s[j]
  BY AppendProperties, LenProperties
<1> HIDE DEF t
<1>2. \A j : j \in 1 .. Len(t) <=> j \in 1 .. Len(s) \/ j = Len(s) + 1
  BY <1>1
<1>3. Len(s) + 1 \notin 1 .. Len(s)
  BY <1>1
<1>4. IsFiniteSet(A)
  <2>1. IsFiniteSet(1 .. Len(s)) /\ A \subseteq 1 .. Len(s)
    BY <1>1, FS_Interval
  <2> QED
    BY <2>1, FS_Subset
<1>5. CASE x \in S
  <2>1. B = A \cup {Len(s) + 1} /\ Len(s) + 1 \notin A
    BY <1>1, <1>2, <1>3, <1>5
  <2> HIDE DEF A, B
  <2>2. Cardinality(B) = Cardinality(A) + 1
    BY <1>4, <2>1, FS_AddElement
  <2> QED
    BY <1>5, <2>2 DEF A, B, CountIn, t
<1>6. CASE x \notin S
  <2>1. B = A
    BY <1>1, <1>2, <1>3, <1>6
  <2> QED
    BY <1>6, <2>1 DEF CountIn, t
<1> QED
  BY <1>5, <1>6

LEMMA CountTail ==
  ASSUME NEW T, NEW s \in Seq(T), s # << >>, NEW S
  PROVE  /\ Head(s) \in S => CountIn(s, S) = CountIn(Tail(s), S) + 1
         /\ Head(s) \notin S => CountIn(s, S) = CountIn(Tail(s), S)
<1> DEFINE t == Tail(s)
           A == {j \in 1 .. Len(t) : t[j] \in S}
           B == {j \in 1 .. Len(s) : s[j] \in S}
           C == {j \in 2 .. Len(s) : s[j] \in S}
           shift == [j \in A |-> j + 1]
<1>1. /\ Len(s) \in Nat /\ Len(t) = Len(s) - 1 /\ Len(s) > 0 /\ Head(s) = s[1]
      /\ \A j \in 1 .. Len(t) : t[j] = s[j + 1]
  BY HeadTailProperties, LenProperties, EmptySeq
<1> HIDE DEF t
<1>2. IsFiniteSet(A) /\ IsFiniteSet(B) /\ IsFiniteSet(C)
  <2>1. IsFiniteSet(1 .. Len(s)) /\ IsFiniteSet(1 .. Len(t)) /\ IsFiniteSet(2 .. Len(s))
    BY <1>1, FS_Interval
  <2> QED
    BY <2>1, FS_Subset
<1>3. \A j \in A : j + 1 \in C
  BY <1>1
<1>4. \A j \in C : j - 1 \in A /\ (j - 1) + 1 = j
  BY <1>1
<1>5. shift \in Bijection(A, C)
  <2>1. shift \in [A -> C]
    BY <1>3
  <2>2. \A a, b \in A : shift[a] = shift[b] => a = b
    OBVIOUS
  <2>3. \A c \in C : \E a \in A : shift[a] = c
    BY <1>4
  <2> QED
    BY <2>1, <2>2, <2>3 DEF Bijection, Injection, Surjection, IsInjective
<1>6. Cardinality(A) = Cardinality(C)
  <2> HIDE DEF shift, A, C
  <2>1. ExistsBijection(A, C)
    BY <1>5 DEF ExistsBijection
  <2> QED
    BY <1>2, <2>1, FS_Bijection
<1>7. \A j : j \in 1 .. Len(s) <=> j \in 2 .. Len(s) \/ j = 1
  BY <1>1
<1>8. CASE Head(s) \in S
  <2>1. B = C \cup {1} /\ 1 \notin C
    BY <1>1, <1>7, <1>8
  <2> HIDE DEF A, B, C
  <2>2. Cardinality(B) = Cardinality(C) + 1
    BY <1>2, <2>1, FS_AddElement
  <2>3. Cardinality(B) = Cardinality(A) + 1
    BY <1>6, <2>2
  <2> QED
    BY <1>8, <2>3 DEF A, B, CountIn, t
<1>9. CASE Head(s) \notin S
  <2>1. B = C
    BY <1>1, <1>7, <1>9
  <2>2. Cardinality(B) = Cardinality(A)
    BY <1>6, <2>1
  <2> QED
    BY <1>9, <2>2 DEF CountIn, t
<1> QED
  BY <1>8, <1>9

\* The signal and the flag.
LEMMA SignalKept ==
  ASSUME PagingAssumption, TalkInv, Signal, Next
  PROVE  Signal'
<1>1. CASE (\E i \in Procs : Proc(i)) \/ Mmu
  <2>1. UNCHANGED <<signalled, spc, flag, master, term_count>>
    BY <1>1 DEF Proc, ProcReady, ProcScheduled, ProcSend, ProcRecv, ProcDone, ProcAbort, Mmu, MmuDone, MmuInvalid,
       MmuReject, MmuHit, MmuFault, MmuLoad, MmuEvict, MmuCrash, Handled, sched, mast
  <2> QED
    BY <2>1 DEF Signal
<1>2. CASE Sched
  BY <1>2 DEF Sched, SchedPick, SchedHandled, SchedTerm, SchedStop, mast, Signal
<1>3. CASE Master
  BY <1>3 DEF Master, Fork, TestFlag, Pause, Handler, Clear, OthersIdle, sched, Signal
<1> QED
  BY <1>1, <1>2, <1>3 DEF Next

\* The processes, those that have begun, and those that have ended.
LEMMA ProcSets ==
  ASSUME PagingAssumption
  PROVE  /\ IsFiniteSet(Procs) /\ Cardinality(Procs) = k
         /\ IsFiniteSet(Started) /\ IsFiniteSet(Exited) /\ Exited \subseteq Procs
         /\ Cardinality(Started) \in Nat /\ Cardinality(Exited) \in Nat
<1>1. k \in Nat /\ 0 \in Int /\ k - 1 \in Int
  BY DEF PagingAssumption
<1>2. IsFiniteSet(0 .. k - 1) /\ Cardinality(0 .. k - 1) = IF 0 > k - 1 THEN 0 ELSE (k - 1) - 0 + 1
  BY <1>1, FS_Interval, Zenon
<1>3. (IF 0 > k - 1 THEN 0 ELSE (k - 1) - 0 + 1) = k
  BY <1>1
<1>4. IsFiniteSet(Procs) /\ Cardinality(Procs) = k
  BY <1>2, <1>3 DEF Procs
<1>5. Started \subseteq Procs /\ Exited \subseteq Procs
  BY DEF Started, Exited
<1>6. IsFiniteSet(Started) /\ IsFiniteSet(Exited)
  BY <1>4, <1>5, FS_Subset
<1> QED
  BY <1>4, <1>5, <1>6, FS_CardinalityType

\* The members that a step adds to them: a process that says that it is ready, and
\* one that says that it is done.
LEMMA SetsStep ==
  ASSUME PagingAssumption, TalkInv, Signal, Next
  PROVE  /\ (\E i \in Procs : ProcReady(i)) => Cardinality(Started)' = Cardinality(Started) + 1
         /\ (\E i \in Procs : ProcDone(i)) => Cardinality(Exited)' = Cardinality(Exited) + 1
         /\ ~(\E i \in Procs : ProcReady(i)) /\ spc # "killed" => Cardinality(Started)' = Cardinality(Started)
         /\ ~(\E i \in Procs : ProcDone(i)) => Cardinality(Exited)' = Cardinality(Exited)
<1>0. ppc \in [Procs -> {"unborn", "start", "wait", "send", "recv", "done", "exited", "aborted"}]
  BY PagingTypes DEF TalkInv
<1>1. ASSUME NEW i \in Procs, ProcReady(i)
      PROVE  Cardinality(Started)' = Cardinality(Started) + 1 /\ Exited' = Exited
  <2>1. ppc[i] = "start" /\ ppc' = [ppc EXCEPT ![i] = "wait"]
    BY <1>1 DEF ProcReady, ProcGoto
  <2>2. Started' = Started \cup {i} /\ i \notin Started /\ Exited' = Exited
    BY <1>0, <2>1 DEF Started, Exited
  <2> HIDE DEF Started
  <2>3. Cardinality(Started') = Cardinality(Started) + 1
    BY <2>2, ProcSets, FS_AddElement
  <2> QED
    BY <2>2, <2>3
<1>2. ASSUME NEW i \in Procs, ProcDone(i)
      PROVE  Cardinality(Exited)' = Cardinality(Exited) + 1 /\ Started' = Started
  <2>1. ppc[i] \in {"send", "done"} /\ ppc' = [ppc EXCEPT ![i] = "exited"]
    BY <1>2 DEF ProcDone, ProcGoto
  <2>2. Exited' = Exited \cup {i} /\ i \notin Exited /\ Started' = Started
    BY <1>0, <2>1 DEF Started, Exited
  <2>3. Cardinality(Exited') = Cardinality(Exited) + 1
    BY <2>2, ProcSets, FS_AddElement
  <2> QED
    BY <2>2, <2>3
<1>3. ASSUME NEW i \in Procs, ProcScheduled(i) \/ ProcSend(i) \/ ProcRecv(i)
      PROVE  Started' = Started /\ Exited' = Exited
  <2>1. PICK to \in {"send", "recv", "done"} : ppc[i] \in {"wait", "send", "recv"} /\ ppc' = [ppc EXCEPT ![i] = to]
    BY <1>3 DEF ProcScheduled, ProcSend, ProcRecv, ProcGoto
  <2> QED
    BY <1>0, <2>1 DEF Started, Exited
<1>4. ASSUME NEW i \in Procs, ProcAbort(i) PROVE Exited' = Exited /\ spc = "killed"
  <2>1. ppc[i] # "exited" /\ ppc' = [ppc EXCEPT ![i] = "aborted"] /\ ~Queues
    BY <1>4 DEF ProcAbort
  <2> QED
    BY <1>0, <2>1 DEF Exited, Signal, Queues
<1>5. CASE Fork
  <2>1. ppc' = [ppc EXCEPT ![forked] = "start"] /\ forked \in Procs /\ ppc[forked] = "unborn"
    <3>1. forked < k /\ forked \in Nat /\ k \in Nat /\ \A i \in Procs : i >= forked => ppc[i] = "unborn"
      BY <1>5, PagingTypes DEF Fork, TalkInv, Counted
    <3>2. forked \in Procs /\ forked >= forked
      BY <3>1 DEF Procs
    <3> QED
      BY <1>5, <3>1, <3>2 DEF Fork
  <2>2. Started' = Started /\ Exited' = Exited
    BY <1>0, <2>1 DEF Started, Exited
  <2> QED
    BY <2>2, <1>1, <1>2
<1>6. CASE Sched \/ Mmu \/ TestFlag \/ Pause \/ Handler \/ Clear
  <2>1. ppc' = ppc
    BY <1>6 DEF Sched, SchedPick, SchedHandled, SchedTerm, SchedStop, Mmu, MmuDone, MmuInvalid, MmuReject,
       MmuHit, MmuFault, MmuLoad, MmuEvict, MmuCrash, Handled, TestFlag, Pause, Handler, Clear, OthersIdle, procs
  <2>2. Started' = Started /\ Exited' = Exited
    BY <2>1 DEF Started, Exited
  <2> QED
    BY <2>2, <1>1, <1>2
<1>7. CASE \E i \in Procs : Proc(i)
  BY <1>1, <1>2, <1>3, <1>4, <1>7 DEF Proc
<1> QED
  BY <1>5, <1>6, <1>7 DEF Next, Master

\* A process that has begun is in the ready queue, or woken, or counted.
LEMMA TurnsKept ==
  ASSUME PagingAssumption, TalkInv, Signal, Turns, Next
  PROVE  Turns'
<1>0. /\ ppc \in [Procs -> {"unborn", "start", "wait", "send", "recv", "done", "exited", "aborted"}]
      /\ ready \in Seq(Procs) /\ wake \in [Procs -> Nat] /\ term_count \in Nat /\ sid \in Procs
  BY PagingTypes DEF TalkInv
<1>1. Len(ready) \in Nat /\ Cardinality(Started) \in Nat
  BY <1>0, LenProperties, ProcSets
<1>2. spc # "killed" => Len(ready) + (IF spc = "note" THEN 1 ELSE 0) + term_count = Cardinality(Started)
  BY DEF Turns
<1>3. \A i \in Procs : ppc[i] = "wait" /\ wake[i] = 0 => \E j \in 1 .. Len(ready) : ready[j] = i
  BY DEF Turns
<1>4. ASSUME NEW p \in Procs, ready' = Append(ready, p)
      PROVE  /\ Len(ready') = Len(ready) + 1
             /\ \E j \in 1 .. Len(ready') : ready'[j] = p
             /\ \A i \in Procs : (\E j \in 1 .. Len(ready) : ready[j] = i) => \E j \in 1 .. Len(ready') : ready'[j] = i
  <2>1. /\ Len(ready') = Len(ready) + 1 /\ ready'[Len(ready) + 1] = p
        /\ \A j \in 1 .. Len(ready) : ready'[j] = ready[j]
    BY <1>0, <1>4, AppendProperties
  <2>2. Len(ready) + 1 \in 1 .. Len(ready') /\ \A j \in 1 .. Len(ready) : j \in 1 .. Len(ready')
    BY <1>1, <2>1
  <2> QED
    BY <2>1, <2>2
<1>5. ASSUME NEW i \in Procs, ProcReady(i) PROVE Turns'
  <2>1. /\ ready' = Append(ready, i) /\ ppc' = [ppc EXCEPT ![i] = "wait"] /\ UNCHANGED <<wake, spc, term_count>>
    BY <1>5 DEF ProcReady, ProcGoto, sched
  <2>2. /\ Len(ready') = Len(ready) + 1 /\ Cardinality(Started)' = Cardinality(Started) + 1
    BY <1>4, <1>5, <2>1, SetsStep
  <2>3. spc' # "killed" => Len(ready') + (IF spc' = "note" THEN 1 ELSE 0) + term_count' = Cardinality(Started)'
    <3>1. \A a, b, c \in Nat : \A e \in {0, 1} : a + e + b = c => (a + 1) + e + b = c + 1
      OBVIOUS
    <3>2. (IF spc = "note" THEN 1 ELSE 0) \in {0, 1} /\ spc' = spc /\ term_count' = term_count
      BY <2>1
    <3>3. ASSUME NEW e \in {0, 1}, Len(ready) + e + term_count = Cardinality(Started)
          PROVE  (Len(ready) + 1) + e + term_count = Cardinality(Started) + 1
      BY <1>0, <1>1, <3>1, <3>3
    <3>4. ASSUME spc # "killed"
          PROVE  Len(ready') + (IF spc' = "note" THEN 1 ELSE 0) + term_count' = Cardinality(Started)'
      <4> DEFINE e == IF spc = "note" THEN 1 ELSE 0
      <4>1. Len(ready) + e + term_count = Cardinality(Started) /\ e \in {0, 1}
        BY <1>2, <3>4
      <4>2. (IF spc' = "note" THEN 1 ELSE 0) = e
        BY <3>2
      <4> HIDE DEF e
      <4>3. (Len(ready) + 1) + e + term_count = Cardinality(Started) + 1
        BY <3>3, <4>1
      <4> QED
        BY <2>2, <3>2, <4>2, <4>3, Zenon
    <3> QED
      BY <3>2, <3>4
  <2>4. \A q \in Procs : ppc'[q] = "wait" /\ wake'[q] = 0 => \E j \in 1 .. Len(ready') : ready'[j] = q
    BY <1>0, <1>3, <1>4, <2>1
  <2> QED
    BY <2>3, <2>4 DEF Turns
<1>6. ASSUME NEW i \in Procs, ProcScheduled(i) \/ ProcSend(i) \/ ProcRecv(i) \/ ProcDone(i) \/ ProcAbort(i)
      PROVE  Turns'
  <2>1. /\ UNCHANGED <<ready, spc, term_count>>
        /\ \A q \in Procs : ppc'[q] = "wait" => ppc[q] = "wait" /\ wake'[q] = wake[q]
    BY <1>0, <1>6 DEF ProcScheduled, ProcSend, ProcRecv, ProcDone, ProcAbort, ProcGoto, sched
  <2>2. ~(\E j \in Procs : ProcReady(j))
    <3> SUFFICES ASSUME NEW j \in Procs, ProcReady(j) PROVE FALSE
      OBVIOUS
    <3>1. ready' = Append(ready, j)
      BY DEF ProcReady
    <3>2. Len(ready') = Len(ready) + 1
      BY <1>4, <3>1
    <3> QED
      BY <1>1, <2>1, <3>2
  <2>3. spc # "killed" => Cardinality(Started)' = Cardinality(Started)
    BY <2>2, SetsStep
  <2> QED
    BY <1>2, <1>3, <2>1, <2>3 DEF Turns
<1>8. CASE SchedPick
  <2>1. /\ spc = "ready" /\ spc' = "note" /\ ready # << >> /\ ready' = Tail(ready) /\ UNCHANGED <<ppc, term_count>>
        /\ wake' = [wake EXCEPT ![Head(ready)] = @ + 1]
    BY <1>8 DEF SchedPick, procs
  <2>2. /\ Len(ready') = Len(ready) - 1 /\ Head(ready) = ready[1] /\ Head(ready) \in Procs /\ Len(ready) > 0
        /\ \A j \in 1 .. Len(ready') : ready'[j] = ready[j + 1]
    BY <1>0, <1>1, <2>1, HeadTailProperties, EmptySeq
  <2>3. Cardinality(Started)' = Cardinality(Started)
    BY <2>1, ProcSets DEF Started
  <2>4. ASSUME NEW q \in Procs, ppc'[q] = "wait", wake'[q] = 0 PROVE \E j \in 1 .. Len(ready') : ready'[j] = q
    <3>1. q # Head(ready) /\ wake[q] = 0
      BY <1>0, <2>1, <2>2, <2>4
    <3>2. PICK j \in 1 .. Len(ready) : ready[j] = q
      BY <1>3, <2>1, <2>4, <3>1
    <3>3. j # 1
      BY <2>2, <3>1, <3>2
    <3>4. j - 1 \in 1 .. Len(ready') /\ (j - 1) + 1 = j
      BY <1>1, <2>2, <3>3
    <3> QED
      BY <2>2, <3>2, <3>4
  <2>5. Len(ready') + (IF spc' = "note" THEN 1 ELSE 0) + term_count' = Cardinality(Started)'
    BY <1>0, <1>1, <1>2, <2>1, <2>2, <2>3
  <2> QED
    BY <2>4, <2>5 DEF Turns
<1>9. CASE SchedHandled
  <2>1. /\ spc = "note" /\ spc' = "ready" /\ ready' = Append(ready, sid) /\ UNCHANGED <<ppc, wake, term_count>>
    BY <1>9 DEF SchedHandled, procs
  <2>2. Cardinality(Started)' = Cardinality(Started)
    BY <2>1 DEF Started
  <2>3. Len(ready') + (IF spc' = "note" THEN 1 ELSE 0) + term_count' = Cardinality(Started)'
    BY <1>0, <1>1, <1>2, <1>4, <2>1, <2>2
  <2>4. \A q \in Procs : ppc'[q] = "wait" /\ wake'[q] = 0 => \E j \in 1 .. Len(ready') : ready'[j] = q
    BY <1>0, <1>3, <1>4, <2>1
  <2> QED
    BY <2>3, <2>4 DEF Turns
<1>10. CASE SchedTerm
  <2>1. /\ spc = "note" /\ spc' \in {"ready", "stop"} /\ term_count' = term_count + 1 /\ UNCHANGED <<ready, ppc, wake>>
    BY <1>10 DEF SchedTerm, procs
  <2>2. Cardinality(Started)' = Cardinality(Started)
    BY <2>1 DEF Started
  <2>3. Len(ready') + (IF spc' = "note" THEN 1 ELSE 0) + term_count' = Cardinality(Started)'
    <3>1. \A a, b, c \in Nat : a + 1 + b = c => a + 0 + (b + 1) = c
      OBVIOUS
    <3>2. (IF spc = "note" THEN 1 ELSE 0) = 1 /\ (IF spc' = "note" THEN 1 ELSE 0) = 0 /\ spc # "killed"
      BY <2>1
    <3>3. Len(ready) + 1 + term_count = Cardinality(Started)
      BY <1>2, <3>2
    <3>4. Len(ready) + 0 + (term_count + 1) = Cardinality(Started)
      BY <1>0, <1>1, <3>1, <3>3
    <3> QED
      BY <2>1, <2>2, <3>2, <3>4, Zenon
  <2> QED
    BY <1>3, <2>1, <2>3 DEF Turns
<1>11. CASE SchedStop \/ Mmu \/ TestFlag \/ Pause \/ Handler \/ Clear
  <2>1. /\ UNCHANGED <<ready, ppc, wake, term_count>>
        /\ spc' = "killed" \/ (spc' = "paused" /\ spc = "stop") \/ spc' = spc
    BY <1>11 DEF SchedStop, Mmu, MmuDone, MmuInvalid, MmuReject, MmuHit, MmuFault, MmuLoad, MmuEvict, MmuCrash,
       Handled, TestFlag, Pause, Handler, Clear, OthersIdle, procs, sched
  <2>2. Cardinality(Started)' = Cardinality(Started)
    BY <2>1 DEF Started
  <2> QED
    BY <1>2, <1>3, <2>1, <2>2 DEF Turns
<1>12. CASE Fork
  <2>1. UNCHANGED <<ready, wake, spc, term_count>> /\ ppc' = [ppc EXCEPT ![forked] = "start"]
    BY <1>12 DEF Fork, OthersIdle, sched
  <2>2. ~(\E j \in Procs : ProcReady(j))
    <3> SUFFICES ASSUME NEW j \in Procs, ProcReady(j) PROVE FALSE
      OBVIOUS
    <3>1. ready' = Append(ready, j)
      BY DEF ProcReady
    <3>2. Len(ready') = Len(ready) + 1
      BY <1>4, <3>1
    <3> QED
      BY <1>1, <2>1, <3>2
  <2>3. spc # "killed" => Cardinality(Started)' = Cardinality(Started)
    BY <2>2, SetsStep
  <2>4. \A q \in Procs : ppc'[q] = "wait" => ppc[q] = "wait"
    BY <1>0, <2>1
  <2> QED
    BY <1>2, <1>3, <2>1, <2>3, <2>4 DEF Turns
<1> QED
  BY <1>5, <1>6, <1>8, <1>9, <1>10, <1>11, <1>12 DEF Next, Proc, Sched, Master

\* A process says that it is done when it ends, and the MMU counts it when it reads that.
LEMMA DonesStep ==
  ASSUME PagingAssumption, m <= 22, TalkInv, Signal, Next
  PROVE  /\ Dones \in Nat /\ Cardinality(Exited) \in Nat
         /\ \/ /\ Cardinality(Exited)' = Cardinality(Exited) + 1 /\ Dones' = Dones + 1
               /\ UNCHANGED <<notes, term_count, terminated, mpc>>
            \/ /\ MmuDone /\ Cardinality(Exited)' = Cardinality(Exited)
               /\ Dones' \in Nat /\ Dones = Dones' + 1 /\ terminated' = terminated + 1
               /\ mpc' = IF terminated' = k THEN "finished" ELSE "recv"
               /\ notes' = Append(notes, "term") /\ term_count' = term_count
            \/ /\ ~MmuDone /\ Cardinality(Exited)' = Cardinality(Exited) /\ Dones' = Dones
               /\ terminated' = terminated /\ (mpc' = "finished" => mpc = "finished")
<1> DEFINE Done == {r \in Requests : r.page = PROCESS_DONE}
           Still == terminated' = terminated /\ (mpc' = "finished" => mpc = "finished")
<1>0. /\ req \in Seq(Requests) /\ refs \in [Procs -> Seq(Nat)]
      /\ count \in [Procs -> Nat] /\ \A i \in Procs : Len(refs[i]) \in Nat
  BY PagingTypes DEF TalkInv
<1>1. Dones \in Nat /\ Cardinality(Exited) \in Nat
  BY <1>0, CountType, ProcSets DEF Dones
<1>2. (\A i \in Procs : ~ProcDone(i)) => Cardinality(Exited)' = Cardinality(Exited)
  BY SetsStep
<1>3. \A i \in Procs : ProcDone(i) => req' = Append(req, [id |-> i, page |-> PROCESS_DONE])
  BY DEF ProcDone
<1>4. MmuDone => req # << >> /\ req' = Tail(req)
  BY DEF MmuDone, Serve
<1>5. ASSUME UNCHANGED req
      PROVE  Cardinality(Exited)' = Cardinality(Exited) /\ Dones' = Dones /\ ~MmuDone
  <2>1. \A i \in Procs : req # Append(req, [id |-> i, page |-> PROCESS_DONE])
    <3> SUFFICES ASSUME NEW i \in Procs, req = Append(req, [id |-> i, page |-> PROCESS_DONE]) PROVE FALSE
      OBVIOUS
    <3>1. [id |-> i, page |-> PROCESS_DONE] \in Requests
      BY DEF Requests
    <3>2. Len(req) = Len(req) + 1 /\ Len(req) \in Nat
      BY <1>0, <3>1, AppendProperties, LenProperties
    <3> QED
      BY <3>2
  <2>2. ~MmuDone
    BY <1>0, <1>4, <1>5, Taken
  <2> QED
    BY <1>2, <1>3, <1>5, <2>1, <2>2 DEF Dones
<1>6. ASSUME NEW i \in Procs, ProcDone(i)
      PROVE  /\ Cardinality(Exited)' = Cardinality(Exited) + 1 /\ Dones' = Dones + 1
             /\ UNCHANGED <<notes, term_count, terminated, mpc>>
  <2> DEFINE r == [id |-> i, page |-> PROCESS_DONE]
  <2>1. r \in Requests /\ r \in Done
    BY DEF Requests
  <2>2. req' = Append(req, r) /\ UNCHANGED <<notes, term_count, terminated, mpc>>
    BY <1>6 DEF ProcDone, sched, mmu
  <2> HIDE DEF r, Done
  <2>3. CountIn(req', Done) = CountIn(req, Done) + 1
    BY <1>0, <2>1, <2>2, CountAppend
  <2>4. Dones' = Dones + 1
    BY <2>3 DEF Dones, Done
  <2>5. Cardinality(Exited)' = Cardinality(Exited) + 1
    BY <1>6, SetsStep
  <2> QED
    BY <2>2, <2>4, <2>5
<1>7. ASSUME NEW i \in Procs, ProcSend(i)
      PROVE  ~MmuDone /\ Cardinality(Exited)' = Cardinality(Exited) /\ Dones' = Dones /\ Still
  <2> DEFINE r == [id |-> i, page |-> Wanted(i)]
  <2>1. Wanted(i) \in Nat
    <3>1. count[i] < Len(refs[i]) /\ refs[i] \in Seq(Nat) /\ count[i] \in Nat /\ Len(refs[i]) \in Nat
      BY <1>0, <1>7 DEF ProcSend
    <3>2. count[i] + 1 \in 1 .. Len(refs[i])
      BY <3>1
    <3> QED
      BY <3>1, <3>2, ElementOfSeq DEF Wanted
  <2>2. r \in Requests /\ r \notin Done
    BY <2>1 DEF Requests, PROCESS_DONE
  <2>3. req' = Append(req, r) /\ Still
    BY <1>7 DEF ProcSend, Wanted, mmu
  <2> HIDE DEF Done
  <2>4. CountIn(req', Done) = CountIn(req, Done)
    BY <1>0, <2>2, <2>3, CountAppend
  <2>5. Dones' = Dones
    BY <2>4 DEF Dones, Done
  <2>6. ~(\E j \in Procs : ProcDone(j))
    <3> SUFFICES ASSUME NEW j \in Procs, ProcDone(j) PROVE FALSE
      OBVIOUS
    <3>1. [id |-> j, page |-> PROCESS_DONE] \in Requests /\ req' = Append(req, [id |-> j, page |-> PROCESS_DONE])
      BY <1>3 DEF Requests
    <3>2. req'[Len(req) + 1] = [id |-> j, page |-> PROCESS_DONE] /\ req'[Len(req) + 1] = r
      BY <1>0, <2>2, <2>3, <3>1, AppendProperties
    <3>3. Wanted(i) = PROCESS_DONE
      BY <3>2
    <3> QED
      BY <2>1, <3>3 DEF PROCESS_DONE
  <2>7. ~MmuDone
    <3>1. Len(req') = Len(req) + 1 /\ Len(req) \in Nat
      BY <1>0, <2>2, <2>3, AppendProperties, LenProperties
    <3>2. MmuDone => Len(req') = Len(req) - 1
      BY <1>0, <1>4, Taken
    <3> QED
      BY <3>1, <3>2
  <2> QED
    BY <1>2, <2>3, <2>5, <2>6, <2>7
<1>8. CASE MmuDone \/ MmuInvalid \/ MmuHit \/ MmuFault
  <2>1. /\ Queues /\ req # << >> /\ req' = Tail(req) /\ UNCHANGED <<procs, sched>>
        /\ \/ /\ MmuDone /\ req[1].page = PROCESS_DONE /\ notes' = Append(notes, "term")
              /\ terminated' = terminated + 1 /\ mpc' = IF terminated + 1 = k THEN "finished" ELSE "recv"
           \/ /\ req[1].page # PROCESS_DONE /\ Still
    <3>1. \A x \in {"recv", "invalid", "fault"} : x # "finished"
      OBVIOUS
    <3> QED
      BY <1>8, <3>1, ServeKinds
  <2>2. Head(req) = req[1] /\ Head(req) \in Requests
    BY <1>0, <2>1, RequestFacts, HeadTailProperties
  <2>3. Cardinality(Exited)' = Cardinality(Exited) /\ term_count' = term_count
    BY <2>1 DEF Exited, procs, sched
  <2>4. ASSUME req[1].page = PROCESS_DONE PROVE Dones = Dones' + 1 /\ Dones' \in Nat
    <3>1. Head(req) \in Done
      BY <2>2, <2>4
    <3> HIDE DEF Done
    <3>2. CountIn(req, Done) = CountIn(req', Done) + 1
      BY <1>0, <2>1, <3>1, CountTail
    <3>3. req' \in Seq(Requests)
      BY <1>0, <2>1, HeadTailProperties
    <3>4. CountIn(req', Done) \in Nat
      BY <3>3, CountType
    <3> QED
      BY <3>2, <3>4 DEF Dones, Done
  <2>5. ASSUME req[1].page # PROCESS_DONE PROVE Dones' = Dones /\ ~MmuDone
    <3>1. Head(req) \notin Done
      BY <2>2, <2>5
    <3>2. ~MmuDone
      BY <2>1, <2>5, ServeKinds, RequestFacts DEF MmuDone, Serve
    <3> HIDE DEF Done
    <3>3. CountIn(req, Done) = CountIn(req', Done)
      BY <1>0, <2>1, <3>1, CountTail
    <3> QED
      BY <3>2, <3>3 DEF Dones, Done
  <2> HIDE DEF Done
  <2> QED
    BY <1>1, <2>1, <2>3, <2>4, <2>5
<1>9. ASSUME SchedPick \/ SchedHandled \/ SchedTerm \/ SchedStop \/ MmuReject \/ MmuLoad \/ MmuEvict \/ MmuCrash \/ Master
      PROVE  UNCHANGED req /\ Still
  BY <1>9 DEF SchedPick, SchedHandled, SchedTerm, SchedStop, MmuReject, MmuLoad, MmuEvict, MmuCrash, Handled,
     Master, Fork, TestFlag, Pause, Handler, Clear, OthersIdle, queue3, mmu
<1>10. ASSUME NEW i \in Procs, ProcReady(i) \/ ProcScheduled(i) \/ ProcRecv(i) \/ ProcAbort(i)
       PROVE  UNCHANGED req /\ Still
  BY <1>10 DEF ProcReady, ProcScheduled, ProcRecv, ProcAbort, queue3, mmu
<1>11. CASE UNCHANGED req /\ Still
  BY <1>1, <1>5, <1>11
<1>12. CASE \E i \in Procs : Proc(i)
  BY <1>1, <1>6, <1>7, <1>10, <1>11, <1>12 DEF Proc
<1> QED
  BY <1>8, <1>9, <1>11, <1>12 DEF Next, Sched, Mmu

\* A step that ends a process reports it, and only a process that is refused is
\* reported without having ended.
LEMMA Balance ==
  ASSUME PagingAssumption, m <= 22, TalkInv, Signal, Next
  PROVE  /\ Reported \in Nat /\ Cardinality(Exited) \in Nat
         /\ \/ Cardinality(Exited)' = Cardinality(Exited) /\ Reported' = Reported
            \/ Cardinality(Exited)' = Cardinality(Exited) + 1 /\ Reported' = Reported + 1
            \/ MmuReject /\ Cardinality(Exited)' = Cardinality(Exited) /\ Reported' = Reported + 1
<1> DEFINE Note == {"handled", "term"}
<1>0. notes \in Seq(Note) /\ term_count \in Nat
  BY PagingTypes DEF TalkInv
<1>1. Terms \in Nat /\ Dones \in Nat /\ Cardinality(Exited) \in Nat
  BY <1>0, CountType, DonesStep DEF Terms
<1>2. Reported \in Nat
  BY <1>0, <1>1 DEF Reported
<1>3. ASSUME notes' = Append(notes, "term") PROVE Terms' = Terms + 1
  <2>1. notes' = Append(notes, "term") /\ "term" \in Note /\ "term" \in {"term"}
    BY <1>3
  <2> HIDE DEF Note
  <2>2. CountIn(notes', {"term"}) = CountIn(notes, {"term"}) + 1
    BY <1>0, <2>1, CountAppend
  <2> QED
    BY <2>2 DEF Terms
<1>4. CASE /\ Cardinality(Exited)' = Cardinality(Exited) + 1 /\ Dones' = Dones + 1
           /\ UNCHANGED <<notes, term_count>>
  <2>1. Terms' = Terms
    BY <1>4 DEF Terms
  <2>2. Reported' = Reported + 1
    BY <1>0, <1>1, <1>4, <2>1 DEF Reported
  <2> QED
    BY <1>1, <1>2, <1>4, <2>2
<1>5. CASE /\ Cardinality(Exited)' = Cardinality(Exited) /\ Dones' \in Nat /\ Dones = Dones' + 1
           /\ notes' = Append(notes, "term") /\ term_count' = term_count
  <2>1. Reported' = Reported
    BY <1>0, <1>1, <1>3, <1>5 DEF Reported
  <2> QED
    BY <1>1, <1>2, <1>5, <2>1
<1>6. CASE ~MmuDone /\ Cardinality(Exited)' = Cardinality(Exited) /\ Dones' = Dones
  <2>1. CASE UNCHANGED <<notes, term_count>>
    <3>1. Reported' = Reported
      BY <1>6, <2>1 DEF Reported, Terms
    <3> QED
      BY <1>1, <1>2, <1>6, <3>1
  <2>2. CASE SchedHandled
    <3>1. notes # << >> /\ Head(notes) = "handled" /\ notes' = Tail(notes) /\ UNCHANGED term_count
      BY <2>2 DEF SchedHandled
    <3>2. CountIn(notes, {"term"}) = CountIn(notes', {"term"})
      BY <1>0, <3>1, CountTail
    <3>3. Reported' = Reported
      BY <1>6, <3>1, <3>2 DEF Reported, Terms
    <3> QED
      BY <1>1, <1>2, <1>6, <3>3
  <2>3. CASE SchedTerm
    <3>1. notes # << >> /\ Head(notes) = "term" /\ notes' = Tail(notes) /\ term_count' = term_count + 1
      BY <2>3 DEF SchedTerm
    <3>2. CountIn(notes, {"term"}) = CountIn(notes', {"term"}) + 1
      BY <1>0, <3>1, CountTail
    <3>3. Terms = Terms' + 1 /\ Terms' \in Nat
      <4>1. notes' \in Seq(Note)
        BY <1>0, <3>1, HeadTailProperties
      <4> QED
        BY <3>2, <4>1, CountType DEF Terms
    <3>4. Reported' = Reported
      BY <1>0, <1>1, <1>6, <3>1, <3>3 DEF Reported
    <3> QED
      BY <1>1, <1>2, <1>6, <3>4
  <2>4. CASE MmuReject
    <3>1. notes' = Append(notes, "term") /\ UNCHANGED term_count
      BY <2>4 DEF MmuReject, sched
    <3>2. Reported' = Reported + 1
      BY <1>0, <1>1, <1>3, <1>6, <3>1 DEF Reported
    <3> QED
      BY <1>1, <1>2, <1>6, <2>4, <3>2
  <2>5. CASE MmuLoad \/ MmuEvict
    <3>1. notes' = Append(notes, "handled") /\ UNCHANGED term_count
      BY <2>5 DEF MmuLoad, MmuEvict, Handled, sched
    <3>2. Terms' = Terms
      BY <1>0, <3>1, CountAppend DEF Terms
    <3>3. Reported' = Reported
      BY <1>6, <3>1, <3>2 DEF Reported
    <3> QED
      BY <1>1, <1>2, <1>6, <3>3
  <2>6. ASSUME MmuInvalid \/ MmuHit \/ MmuFault \/ SchedPick \/ SchedStop \/ MmuCrash \/ Master \/ \E i \in Procs : Proc(i)
        PROVE  UNCHANGED <<notes, term_count>>
    BY <2>6 DEF MmuInvalid, MmuHit, MmuFault, SchedPick, SchedStop, MmuCrash, Master, Fork, TestFlag, Pause, Handler,
       Clear, OthersIdle, Proc, ProcReady, ProcScheduled, ProcSend, ProcRecv, ProcDone, ProcAbort, sched
  <2> QED
    BY <1>6, <2>1, <2>2, <2>3, <2>4, <2>5, <2>6 DEF Next, Sched, Mmu
<1> QED
  BY <1>4, <1>5, <1>6, DonesStep

\* If all references are legal, so is the request that the MMU takes.
LEMMA LegalServed ==
  ASSUME PagingAssumption, m <= 22, TalkInv, Legal, Queues, req # << >>, req[1].page # PROCESS_DONE
  PROVE  ~Illegal(Request)
<1>1. /\ Request.id \in Procs /\ Request.page = Char(req[1].page) /\ req[1].page = Wanted(Request.id)
      /\ count[Request.id] < Len(refs[Request.id])
  BY RequestFacts DEF Request
<1>2. PICK i \in Procs : i = Request.id
  BY <1>1
<1>3. /\ refs[i] \in Seq(Nat) /\ count[i] \in Nat /\ Len(refs[i]) \in Nat /\ pages[i] \in 1 .. m /\ m \in Nat
  BY PagingTypes DEF TalkInv
<1>4. count[i] + 1 \in 1 .. Len(refs[i]) /\ DOMAIN refs[i] = 1 .. Len(refs[i])
  <2>1. count[i] < Len(refs[i])
    BY <1>1, <1>2
  <2> QED
    BY <1>3, <2>1, LenProperties
<1>5. Wanted(i) \in Nat /\ Wanted(i) < pages[i]
  BY <1>3, <1>4, ElementOfSeq DEF Wanted, Legal
<1>6. Wanted(i) \in 0 .. 21
  <2>1. \A x \in Nat : \A y \in 1 .. m : x < y => x \in 0 .. 21
    BY <1>3
  <2> QED
    BY <1>3, <1>5, <2>1
<1>7. Char(Wanted(i)) = Wanted(i)
  <2>1. \A x \in 0 .. 21 : ((x + 128) % 256) - 128 = x
    OBVIOUS
  <2> QED
    BY <1>6, <2>1 DEF Char
<1>8. Request.page = Wanted(i) /\ Request.id = i
  BY <1>1, <1>2, <1>7
<1>9. ~(Wanted(i) < 0) /\ ~(pages[i] < Wanted(i))
  BY <1>3, <1>5
<1> QED
  BY <1>8, <1>9 DEF Illegal

\* Legal processes end by themselves, at the end of their strings.
LegalEnds ==
    /\ mpc # "invalid"
    /\ \A i \in Procs : /\ ppc[i] # "done" /\ reply[i] # <<INVALID_PAGE_NUMBER>>
                        /\ ppc[i] = "exited" => count[i] = Len(refs[i])

LEMMA LegalKept ==
  ASSUME PagingAssumption, m <= 22, TalkInv, Legal, LegalEnds, Next
  PROVE  LegalEnds'
<1>0. /\ ppc \in [Procs -> {"unborn", "start", "wait", "send", "recv", "done", "exited", "aborted"}]
      /\ reply \in [Procs -> Seq(Answers)] /\ count \in [Procs -> Nat] /\ UNCHANGED <<refs, pages>>
  BY PagingTypes, StaticStep DEF TalkInv, static
<1>1. ~MmuInvalid
  <2> SUFFICES ASSUME MmuInvalid PROVE FALSE
    OBVIOUS
  <2>1. Queues /\ req # << >> /\ req[1].page # PROCESS_DONE /\ Illegal(Request)
    <3>1. Queues /\ req # << >> /\ Request.page # PROCESS_DONE /\ Illegal(Request)
      BY DEF MmuInvalid, Serve
    <3> QED
      BY <3>1, RequestFacts
  <2> QED
    BY <2>1, LegalServed
<1>2. mpc' # "invalid"
  BY <1>1 DEF LegalEnds, Next, Proc, ProcReady, ProcScheduled, ProcSend, ProcRecv, ProcDone, ProcAbort, Sched, SchedPick,
     SchedHandled, SchedTerm, SchedStop, Mmu, MmuDone, MmuReject, MmuHit, MmuFault, MmuLoad, MmuEvict, Answer,
     MmuCrash, Handled, Master, Fork, TestFlag, Pause, Handler, Clear, OthersIdle, mmu
<1>3. \A x, y : <<x>> = <<y>> => x = y
  BY OneLong
<1>4. ASSUME NEW i \in Procs
      PROVE  /\ ppc'[i] # "done" /\ reply'[i] # <<INVALID_PAGE_NUMBER>>
             /\ ppc'[i] = "exited" => count'[i] = Len(refs[i])
  <2>1. /\ ppc[i] # "done" /\ reply[i] # <<INVALID_PAGE_NUMBER>>
        /\ ppc[i] = "exited" => count[i] = Len(refs[i])
    BY DEF LegalEnds
  <2>2. CASE ppc'[i] = ppc[i] /\ count'[i] = count[i] /\ reply'[i] = reply[i]
    BY <2>1, <2>2
  <2>3. CASE ppc[i] = "unborn" /\ ppc'[i] = "start" /\ count'[i] = count[i] /\ reply'[i] = reply[i]
    BY <2>1, <2>3
  <2>4. CASE ProcRecv(i)
    <3>1. ppc[i] = "recv" /\ reply[i] # << >> /\ reply' = [reply EXCEPT ![i] = Tail(@)]
      BY <2>4 DEF ProcRecv, ProcGoto
    <3>2. Len(reply[i]) = 1
      BY <3>1, DialogueParts DEF Apart, TalkInv
    <3>3. reply[i] = <<Head(reply[i])>>
      <4>1. reply[i] \in Seq(Answers) /\ Head(reply[i]) = reply[i][1]
        BY <1>0, <3>1
      <4> QED
        BY <3>2, <4>1
    <3>4. Head(reply[i]) # INVALID_PAGE_NUMBER
      BY <2>1, <3>3
    <3>5. ppc'[i] = "send"
      BY <1>0, <2>4, <3>4 DEF ProcRecv, ProcGoto
    <3>6. reply'[i] = << >>
      <4>1. reply'[i] = Tail(reply[i])
        BY <1>0, <3>1
      <4> QED
        BY <3>3, <4>1, OneLong
    <3> QED
      BY <3>5, <3>6, OneLong
  <2>5. CASE ProcDone(i)
    <3>1. count[i] = Len(refs[i]) /\ ppc'[i] = "exited" /\ UNCHANGED <<count, reply>>
      BY <1>0, <2>1, <2>5 DEF ProcDone, ProcGoto
    <3> QED
      BY <2>1, <3>1
  <2>6. CASE ProcReady(i) \/ ProcScheduled(i) \/ ProcSend(i) \/ ProcAbort(i)
    <3>1. ppc'[i] \in {"wait", "send", "recv", "aborted"} /\ UNCHANGED <<count, reply>>
      BY <1>0, <2>6 DEF ProcReady, ProcScheduled, ProcSend, ProcAbort, ProcGoto, queue3
    <3> QED
      BY <2>1, <3>1
  <2>7. CASE /\ ppc[i] = "recv" /\ ppc'[i] = "recv" /\ count'[i] = count[i] /\ reply[i] = << >>
             /\ Queues /\ mpc = "recv" /\ req # << >> /\ Request.id = i /\ req[1].page # PROCESS_DONE
             /\ \/ MmuHit /\ reply'[i] = <<Looked(Request).frame_number>> /\ Looked(Request).valid /\ ~Illegal(Request)
                \/ MmuFault /\ reply'[i] = <<PAGE_FAULT>> /\ ~Illegal(Request)
    <3>1. Looked(Request).frame_number \in Frame
      BY <2>7, LookedFacts
    <3>2. Looked(Request).frame_number # INVALID_PAGE_NUMBER
      <4>1. f \in Nat
        BY DEF PagingAssumption
      <4> QED
        BY <3>1, <4>1 DEF Frame, Frames, INVALID_PAGE_NUMBER
    <3>3. PAGE_FAULT # INVALID_PAGE_NUMBER
      BY DEF PAGE_FAULT, INVALID_PAGE_NUMBER
    <3> QED
      BY <1>3, <2>7, <3>2, <3>3
  <2> QED
    BY <1>1, <2>2, <2>3, <2>4, <2>5, <2>6, <2>7, ProcSteps DEF Proc
<1> QED
  BY <1>0, <1>2, <1>4 DEF LegalEnds

\* Ends stay reported.
LEMMA EndsKept ==
  ASSUME PagingAssumption, m <= 22, TalkInv, Signal, Ends, Next
  PROVE  Ends'
<1>1. /\ Reported \in Nat /\ Cardinality(Exited) \in Nat
      /\ \/ Cardinality(Exited)' = Cardinality(Exited) /\ Reported' = Reported
         \/ Cardinality(Exited)' = Cardinality(Exited) + 1 /\ Reported' = Reported + 1
         \/ MmuReject /\ Cardinality(Exited)' = Cardinality(Exited) /\ Reported' = Reported + 1
  BY Balance
<1>2. Cardinality(Exited)' <= Reported'
  BY <1>1 DEF Ends
<1>3. Legal' <=> Legal
  BY StaticStep DEF Legal, static
<1>4. ASSUME Legal PROVE Cardinality(Exited)' = Reported' /\ LegalEnds'
  <2>1. LegalEnds /\ Cardinality(Exited) = Reported
    BY <1>4 DEF Ends, LegalEnds
  <2>2. ~MmuReject
    BY <2>1 DEF LegalEnds, MmuReject
  <2> QED
    BY <1>1, <1>4, <2>1, <2>2, LegalKept
<1> QED
  BY <1>2, <1>3, <1>4 DEF Ends, LegalEnds

\* Nothing is reported at first.
LEMMA NotesStart ==
  ASSUME PagingAssumption, Init
  PROVE  Signal /\ Turns /\ Ends
<1>0. k \in Nat /\ k > 0
  BY DEF PagingAssumption
<1>1. Signal
  BY <1>0 DEF Signal, Init
<1>2. Started = {} /\ Exited = {}
  BY DEF Started, Exited, Init
<1>3. Cardinality(Started) = 0 /\ Cardinality(Exited) = 0
  BY <1>2, FS_EmptySet
<1>4. Turns
  <2>1. Len(ready) = 0 /\ term_count = 0 /\ spc = "ready"
    BY DEF Init
  <2>2. \A i \in Procs : ppc[i] # "wait"
    BY DEF Init
  <2> QED
    BY <1>3, <2>1, <2>2 DEF Turns
<1>5. Terms = 0 /\ Dones = 0
  <2>1. notes = << >> /\ req = << >> /\ notes \in Seq({}) /\ req \in Seq({})
    BY DEF Init
  <2> QED
    BY <2>1, CountType DEF Terms, Dones
<1>6. Reported = 0
  BY <1>5 DEF Reported, Init
<1>7. \A i \in Procs : ppc[i] = "unborn" /\ reply[i] = << >>
  BY DEF Init
<1>8. Ends
  BY <1>3, <1>6, <1>7, OneLong DEF Ends, Init
<1> QED
  BY <1>1, <1>4, <1>8

\* With k ends counted every legal process has gone through its references; and a
\* scheduler that waits waits for somebody.
LEMMA NotesTell == ASSUME PagingAssumption, NotesInv PROVE NotMisled
<1>0. /\ TalkInv /\ Signal /\ Turns /\ Ends
      /\ ppc \in [Procs -> {"unborn", "start", "wait", "send", "recv", "done", "exited", "aborted"}]
      /\ ready \in Seq(Procs) /\ wake \in [Procs -> Nat] /\ term_count \in Nat /\ k \in Nat
      /\ notes \in Seq({"handled", "term"}) /\ req \in Seq(Requests)
  BY PagingTypes DEF NotesInv, TalkInv
<1>1. /\ IsFiniteSet(Procs) /\ Cardinality(Procs) = k
      /\ IsFiniteSet(Started) /\ IsFiniteSet(Exited) /\ Exited \subseteq Procs
      /\ Cardinality(Started) \in Nat /\ Cardinality(Exited) \in Nat
  BY ProcSets
<1>2. Terms \in Nat /\ Dones \in Nat /\ (notes = << >> => Terms = 0) /\ (req = << >> => Dones = 0)
  BY <1>0, CountType DEF Terms, Dones
<1>3. ASSUME spc \in {"stop", "paused", "killed"}, Legal, NEW i \in Procs
      PROVE  ppc[i] = "exited" /\ count[i] = Len(refs[i])
  <2>1. term_count = k /\ Cardinality(Exited) = Reported
    BY <1>0, <1>3 DEF Signal, Ends
  <2>2. Cardinality(Exited) >= k
    BY <1>0, <1>2, <2>1 DEF Reported
  <2>3. Cardinality(Exited) <= k /\ (Cardinality(Exited) = k => Exited = Procs)
    BY <1>1, FS_Subset
  <2>4. Exited = Procs
    BY <1>0, <1>1, <2>2, <2>3
  <2>5. ppc[i] = "exited"
    BY <2>4 DEF Exited
  <2> QED
    BY <1>0, <1>3, <2>5 DEF Ends
<1>4. ASSUME spc = "note", notes = << >>,
             ~(\E i \in Procs : ppc[i] = "wait" /\ wake[i] > 0),
             ~(\E i \in Procs : ppc[i] \in {"send", "recv", "done"}), req = << >>
      PROVE  FALSE
  <2> DEFINE W == {i \in Procs : ppc[i] = "wait"}
             D == {j \in 1 .. Len(ready) : ready[j] \in W}
             at == [j \in D |-> ready[j]]
  <2>1. Len(ready) \in Nat /\ IsFiniteSet(1 .. Len(ready)) /\ Cardinality(1 .. Len(ready)) = Len(ready)
    <3>1. Len(ready) \in Nat
      BY <1>0, LenProperties
    <3>2. 1 \in Int /\ Len(ready) \in Int /\ (IF 1 > Len(ready) THEN 0 ELSE Len(ready) - 1 + 1) = Len(ready)
      <4>1. \A n \in Nat : 1 \in Int /\ n \in Int /\ (IF 1 > n THEN 0 ELSE n - 1 + 1) = n
        OBVIOUS
      <4> QED
        BY <3>1, <4>1, Zenon
    <3>3. IsFiniteSet(1 .. Len(ready)) /\ Cardinality(1 .. Len(ready)) = IF 1 > Len(ready) THEN 0 ELSE Len(ready) - 1 + 1
      BY <3>2, FS_Interval, Zenon
    <3>4. Cardinality(1 .. Len(ready)) = Len(ready)
      BY <3>2, <3>3
    <3> QED
      BY <3>1, <3>3, <3>4
  <2>2. \A i \in Procs : ppc[i] # "aborted"
    BY <1>0, <1>4 DEF TalkInv, Counted, Signal, Queues
  <2>3. Started \subseteq W \cup Exited
    BY <1>0, <1>4, <2>2 DEF Started, Exited
  <2>4. \A i \in W : \E j \in D : ready[j] = i
    <3> SUFFICES ASSUME NEW i \in W PROVE \E j \in D : ready[j] = i
      OBVIOUS
    <3>1. wake[i] \in Nat /\ ~(wake[i] > 0) /\ ppc[i] = "wait" /\ i \in Procs
      BY <1>0, <1>4
    <3>2. wake[i] = 0
      BY <3>1
    <3> QED
      BY <1>0, <3>1, <3>2 DEF Turns
  <2>5. at \in Surjection(D, W)
    <3>1. at \in [D -> W]
      OBVIOUS
    <3>2. \A i \in W : \E j \in D : at[j] = i
      BY <2>4
    <3> QED
      BY <3>1, <3>2 DEF Surjection
  <2>6. IsFiniteSet(D) /\ Cardinality(D) <= Len(ready)
    <3>1. D \subseteq 1 .. Len(ready)
      OBVIOUS
    <3> HIDE DEF D
    <3> QED
      BY <2>1, <3>1, FS_Subset
  <2> HIDE DEF at, D, W
  <2>7. IsFiniteSet(W) /\ Cardinality(W) <= Cardinality(D)
    BY <2>5, <2>6, FS_Surjection
  <2>8. /\ IsFiniteSet(W \cup Exited)
        /\ Cardinality(W \cup Exited) = Cardinality(W) + Cardinality(Exited) - Cardinality(W \cap Exited)
    BY <1>1, <2>7, FS_Union
  <2>9. Cardinality(Started) <= Cardinality(W \cup Exited)
    BY <2>3, <2>8, FS_Subset
  <2>10. Cardinality(W \cap Exited) \in Nat /\ Cardinality(W) \in Nat /\ Cardinality(D) \in Nat
    <3>1. IsFiniteSet(W \cap Exited)
      BY <2>7, FS_Subset
    <3> QED
      BY <2>6, <2>7, <3>1, FS_CardinalityType
  <2>11. Cardinality(Exited) <= term_count
    BY <1>0, <1>2, <1>4 DEF Ends, Reported
  <2>12. Len(ready) + 1 + term_count = Cardinality(Started)
    BY <1>0, <1>4 DEF Turns
  <2>13. \A l, t, s, u, w, d, e, x \in Nat :
            d <= l /\ w <= d /\ u = w + e - x /\ s <= u /\ e <= t => ~(l + 1 + t = s)
    OBVIOUS
  <2>14. Cardinality(W \cup Exited) \in Nat
    BY <2>8, FS_CardinalityType
  <2> QED
    BY <1>0, <1>1, <2>1, <2>6, <2>7, <2>8, <2>9, <2>10, <2>11, <2>12, <2>13, <2>14, Zenon
<1> QED
  BY <1>3, <1>4 DEF NotMisled

\* For any numbers of processes and frames and up to 22 pages, the scheduler does not end
\* a session of legal references before every process has gone through its own, nor waits
\* for a note that nobody will send (sched.c).
THEOREM SchedulerRight ==
  ASSUME PagingAssumption, m <= 22
  PROVE  Spec => []NotMisled
<1>1. Init => NotesInv
  BY TalkStart, NotesStart DEF NotesInv
<1>2. NotesInv /\ [Next]_vars => NotesInv'
  <2> SUFFICES ASSUME NotesInv, [Next]_vars PROVE NotesInv'
    OBVIOUS
  <2>1. CASE Next
    BY <2>1, TalkStep, SignalKept, TurnsKept, EndsKept DEF NotesInv
  <2>2. CASE UNCHANGED vars
    <3>1. TalkInv'
      BY <2>2, TalkStep DEF NotesInv
    <3>2. UNCHANGED <<pages, refs, ready, wake, notes, req, reply, ppc, count, spc, term_count, mpc, master, signalled, flag>>
      BY <2>2 DEF vars, static, queue3, procs, sched, mmu, mast
    <3>3. Signal' /\ Turns'
      BY <3>2 DEF NotesInv, Signal, Turns, Started
    <3>4. Reported' = Reported /\ Exited' = Exited /\ (Legal' <=> Legal)
      BY <3>2 DEF Reported, Terms, Dones, Exited, Legal
    <3>5. Ends'
      BY <3>2, <3>4 DEF NotesInv, Ends
    <3> QED
      BY <3>1, <3>3, <3>5 DEF NotesInv
  <2> QED
    BY <2>1, <2>2
<1>3. NotesInv => NotMisled
  BY NotesTell
<1> QED
  BY <1>1, <1>2, <1>3, PTL DEF Spec

-----------------------------------------------------------------------------
(* The frames come back                                                    *)

ValidSlots == {s \in Slots : page_table[s].valid}

\* The MMU has still to be told that the process is done.
Telling(i) == \E j \in 1 .. Len(req) : req[j].id = i /\ req[j].page = PROCESS_DONE

\* The MMU counts the ends it has been told of.
Departed ==
    /\ terminated + Dones = Cardinality(Exited)
    /\ mpc = "finished" => terminated = k

\* If all is legal and fits, every frame is free or behind a page of a process, and
\* not behind one of a process that the MMU knows to be done.
Returning ==
    Legal /\ Fits =>
        /\ ValidSlots \subseteq PageSlots
        /\ Len(freelist) + Cardinality(ValidSlots) = f
        /\ \A i \in Procs, p \in 0 .. m - 1 : ppc[i] = "exited" /\ Valid(i, p) => Telling(i)

ReturnInv == PagingInv /\ NotesInv /\ Departed /\ Returning

\* What fits is not changed by any step.
LEMMA FitsKept ==
  ASSUME UNCHANGED static
  PROVE  PageSlots' = PageSlots /\ (Fits' <=> Fits) /\ (Legal' <=> Legal)
<1>1. PageSlots' = PageSlots /\ (Legal' <=> Legal)
  BY DEF PageSlots, Legal, static
<1>2. ASSUME NEW i PROVE FrameCount(i)' = FrameCount(i)
  <2>1. pages' = pages
    BY DEF static
  <2>2. SumPages' = SumPages
    BY <2>1 DEF SumPages
  <2>3. Maxi' = Maxi
    BY <2>1 DEF Maxi
  <2>4. \A j : Share(j)' = Share(j)
    BY <2>1, <2>2 DEF Share, Round
  <2>5. [j \in Procs |-> Share(j)]' = [j \in Procs |-> Share(j)]
    BY <2>4
  <2> QED
    BY <2>1, <2>3, <2>4, <2>5 DEF FrameCount
<1> QED
  BY <1>1, <1>2 DEF Fits

\* Every end is told, and the MMU stops when it has been told of k of them.
LEMMA DepartedKept ==
  ASSUME PagingAssumption, m <= 22, TalkInv, Signal, Departed, Next
  PROVE  Departed'
<1>0. terminated \in Nat /\ k \in Nat
  BY PagingTypes DEF TalkInv
<1>1. CASE /\ Cardinality(Exited)' = Cardinality(Exited) + 1 /\ Dones' = Dones + 1
           /\ Dones \in Nat /\ Cardinality(Exited) \in Nat /\ UNCHANGED <<terminated, mpc>>
  BY <1>0, <1>1 DEF Departed
<1>2. CASE /\ Cardinality(Exited)' = Cardinality(Exited) /\ Dones' \in Nat /\ Dones = Dones' + 1
           /\ terminated' = terminated + 1 /\ mpc' = IF terminated' = k THEN "finished" ELSE "recv"
  BY <1>0, <1>2 DEF Departed
<1>3. CASE /\ Cardinality(Exited)' = Cardinality(Exited) /\ Dones' = Dones
           /\ terminated' = terminated /\ (mpc' = "finished" => mpc = "finished")
  BY <1>3 DEF Departed
<1> QED
  BY <1>1, <1>2, <1>3, DonesStep

\* The sets of slots are finite, and a page of a process is one of its first entries.
LEMMA SlotSets ==
  ASSUME PagingAssumption, TypeOK
  PROVE  /\ IsFiniteSet(Slots) /\ IsFiniteSet(PageSlots) /\ IsFiniteSet(ValidSlots)
         /\ Cardinality(PageSlots) \in Nat /\ Cardinality(ValidSlots) \in Nat
         /\ \A i \in Procs : \A p \in 0 .. m - 1 : p < pages[i] => Slot(i, p) \in PageSlots
         /\ \A s \in PageSlots : \E i \in Procs, p \in 0 .. m - 1 : s = Slot(i, p)
<1>0. k \in Nat /\ m \in Nat /\ Procs \subseteq Nat /\ pages \in [Procs -> 1 .. m]
  BY PagingTypes DEF PagingAssumption
<1>1. 0 \in Int /\ k * m \in Int
  BY <1>0
<1>2. IsFiniteSet(Slots)
  BY <1>1, FS_Interval, Zenon DEF Slots
<1>3. IsFiniteSet(PageSlots) /\ IsFiniteSet(ValidSlots)
  <2>1. PageSlots \subseteq Slots /\ ValidSlots \subseteq Slots
    BY DEF PageSlots, ValidSlots
  <2> QED
    BY <1>2, <2>1, FS_Subset
<1>4. ASSUME NEW i \in Procs, NEW p \in 0 .. m - 1, p < pages[i] PROVE Slot(i, p) \in PageSlots
  <2>1. Slot(i, p) \in Slots
    BY <1>0, SlotExists
  <2>2. \A a \in Nat, n \in 1 .. m : p < n => a + p \in a .. a + n - 1
    BY <1>0
  <2>3. i * m \in Nat /\ pages[i] \in 1 .. m
    BY <1>0
  <2>4. i * m + p \in i * m .. i * m + pages[i] - 1
    BY <1>4, <2>2, <2>3, Zenon
  <2> QED
    BY <2>1, <2>4 DEF PageSlots, Slot
<1>5. ASSUME NEW s \in PageSlots PROVE \E i \in Procs, p \in 0 .. m - 1 : s = Slot(i, p)
  <2>1. PICK i \in Procs : s \in i * m .. i * m + pages[i] - 1
    BY DEF PageSlots
  <2>2. i * m \in Nat /\ pages[i] \in 1 .. m
    BY <1>0
  <2>3. \A a \in Nat, n \in 1 .. m : \A x \in a .. a + n - 1 : x - a \in 0 .. m - 1 /\ x = a + (x - a)
    BY <1>0
  <2>4. s - i * m \in 0 .. m - 1 /\ s = i * m + (s - i * m)
    BY <2>1, <2>2, <2>3, Zenon
  <2> QED
    BY <2>4 DEF Slot
<1> QED
  BY <1>2, <1>3, <1>4, <1>5, FS_CardinalityType

\* Legal references do not reach into the next table.
LEMMA LegalApart == ASSUME TypeOK, PagingAssumption, Legal PROVE NoAlias
<1> SUFFICES ASSUME NEW i \in Procs, pages[i] = m, m \in ToSet(refs[i]) PROVE FALSE
  BY DEF NoAlias
<1>1. PICK j \in DOMAIN refs[i] : refs[i][j] = m
  BY DEF ToSet
<1>2. m < pages[i] /\ m \in Nat
  BY <1>1 DEF Legal, PagingAssumption
<1> QED
  BY <1>2

\* A process that has ended is about to tell so until the MMU has taken its message.
LEMMA TellingStep ==
  ASSUME PagingAssumption, m <= 22, TalkInv, Next, NEW i \in Procs, ppc'[i] = "exited",
         ppc[i] = "exited" => Telling(i), ~(MmuDone /\ Request.id = i)
  PROVE  Telling(i)'
<1>0. /\ ppc \in [Procs -> {"unborn", "start", "wait", "send", "recv", "done", "exited", "aborted"}]
      /\ req \in Seq(Requests) /\ refs \in [Procs -> Seq(Nat)] /\ count \in [Procs -> Nat]
      /\ \A j \in Procs : Len(refs[j]) \in Nat
  BY PagingTypes DEF TalkInv
<1>1. ASSUME NEW r \in Requests, req' = Append(req, r), ppc[i] = "exited" PROVE Telling(i)'
  <2>1. PICK j \in 1 .. Len(req) : req[j].id = i /\ req[j].page = PROCESS_DONE
    BY <1>1 DEF Telling
  <2>2. j \in 1 .. Len(req') /\ req'[j] = req[j]
    <3>1. Len(req) \in Nat /\ Len(req') = Len(req) + 1 /\ req'[j] = req[j]
      BY <1>0, <1>1, Sent
    <3> QED
      BY <3>1
  <2> QED
    BY <2>1, <2>2 DEF Telling
<1>2. ASSUME NEW j \in Procs, ProcDone(j) PROVE Telling(i)'
  <2>1. req' = Append(req, [id |-> j, page |-> PROCESS_DONE]) /\ [id |-> j, page |-> PROCESS_DONE] \in Requests
    BY <1>2 DEF ProcDone, Requests
  <2>2. CASE j = i
    <3>1. Len(req) + 1 \in 1 .. Len(req') /\ req'[Len(req) + 1] = [id |-> i, page |-> PROCESS_DONE]
      <4>1. Len(req) \in Nat /\ Len(req') = Len(req) + 1 /\ req'[Len(req) + 1] = [id |-> j, page |-> PROCESS_DONE]
        BY <1>0, <2>1, Sent
      <4> QED
        BY <2>2, <4>1
    <3> QED
      BY <3>1 DEF Telling
  <2>3. CASE j # i
    <3>1. ppc[i] = "exited"
      BY <1>0, <1>2, <2>3 DEF ProcDone, ProcGoto
    <3> QED
      BY <1>1, <2>1, <3>1
  <2> QED
    BY <2>2, <2>3
<1>3. ASSUME NEW j \in Procs, ProcSend(j) PROVE Telling(i)'
  <2>1. Wanted(j) \in Nat
    <3>1. count[j] < Len(refs[j]) /\ refs[j] \in Seq(Nat) /\ count[j] \in Nat /\ Len(refs[j]) \in Nat
      BY <1>0, <1>3 DEF ProcSend
    <3>2. count[j] + 1 \in 1 .. Len(refs[j])
      BY <3>1
    <3> QED
      BY <3>1, <3>2, ElementOfSeq DEF Wanted
  <2>2. req' = Append(req, [id |-> j, page |-> Wanted(j)]) /\ [id |-> j, page |-> Wanted(j)] \in Requests
    BY <1>3, <2>1 DEF ProcSend, Requests, Wanted
  <2>3. ppc[i] = "exited"
    BY <1>0, <1>3 DEF ProcSend, ProcGoto
  <2> QED
    BY <1>1, <2>2, <2>3
<1>4. CASE MmuDone \/ MmuInvalid \/ MmuHit \/ MmuFault
  <2>1. /\ Queues /\ req # << >> /\ req' = Tail(req) /\ UNCHANGED procs /\ Request.id = req[1].id
        /\ MmuDone \/ req[1].page # PROCESS_DONE
    BY <1>4, ServeKinds, RequestFacts
  <2>2. PICK j \in 1 .. Len(req) : req[j].id = i /\ req[j].page = PROCESS_DONE
    BY <2>1 DEF Telling, procs
  <2>3. j # 1
    BY <2>1, <2>2
  <2>4. Len(req) \in Nat /\ Len(req') = Len(req) - 1 /\ \A l \in 1 .. Len(req') : req'[l] = req[l + 1]
    BY <1>0, <2>1, Taken
  <2>5. j - 1 \in 1 .. Len(req') /\ (j - 1) + 1 = j
    BY <2>3, <2>4
  <2>6. req'[j - 1] = req[j]
    BY <2>4, <2>5
  <2> QED
    BY <2>2, <2>5, <2>6 DEF Telling
<1>5. CASE UNCHANGED req /\ ppc[i] = "exited"
  BY <1>5 DEF Telling
<1>6. ASSUME SchedPick \/ SchedHandled \/ SchedTerm \/ SchedStop \/ MmuReject \/ MmuLoad \/ MmuEvict \/ MmuCrash \/ Master
      PROVE  UNCHANGED req /\ ppc[i] = "exited"
  <2>1. CASE Fork
    BY <1>0, <2>1 DEF Fork, OthersIdle, queue3
  <2>2. CASE ~Fork
    BY <1>6, <2>2 DEF SchedPick, SchedHandled, SchedTerm, SchedStop, MmuReject, MmuLoad, MmuEvict, MmuCrash, Handled,
       Master, TestFlag, Pause, Handler, Clear, OthersIdle, queue3, procs
  <2> QED
    BY <2>1, <2>2
<1>7. ASSUME NEW j \in Procs, ProcReady(j) \/ ProcScheduled(j) \/ ProcRecv(j) \/ ProcAbort(j)
      PROVE  UNCHANGED req /\ ppc[i] = "exited"
  BY <1>0, <1>7 DEF ProcReady, ProcScheduled, ProcRecv, ProcAbort, ProcGoto, queue3
<1> QED
  BY <1>2, <1>3, <1>4, <1>5, <1>6, <1>7 DEF Next, Proc, Sched, Mmu

\* A frame is left for a page that is not in memory: nothing is ever evicted.
LEMMA FrameIsLeft ==
  ASSUME PagingAssumption, PagingInv, Legal, Fits, Queues, mpc = "fault",
         ValidSlots \subseteq PageSlots, Len(freelist) + Cardinality(ValidSlots) = f
  PROVE  /\ FrameLeft /\ cur.id \in Procs /\ cur.page \in 0 .. m - 1
         /\ Slot(cur.id, cur.page) \in PageSlots \ ValidSlots
<1>0. /\ TypeOK /\ freelist \in Seq(Frame) /\ cur.id \in Procs /\ pages[cur.id] \in 1 .. m /\ m \in Nat
      /\ refs[cur.id] \in Seq(Nat) /\ count[cur.id] \in Nat /\ Len(refs[cur.id]) \in Nat /\ f \in Nat
  BY PagingTypes DEF PagingInv, TalkInv
<1>1. /\ ~page_table[Slot(cur.id, cur.page)].valid /\ Stuck(cur.id, cur.page)
      /\ cur.page \in 0 .. m - 1
  BY LegalApart, OwnPage DEF PagingInv, FaultInv, TalkInv
<1>2. cur.page < pages[cur.id]
  <2>1. count[cur.id] < Len(refs[cur.id]) /\ Wanted(cur.id) = cur.page
    BY <1>1 DEF Stuck
  <2>2. count[cur.id] + 1 \in DOMAIN refs[cur.id]
    BY <1>0, <2>1, LenProperties
  <2> QED
    BY <1>0, <2>1, <2>2 DEF Wanted, Legal
<1>3. Slot(cur.id, cur.page) \in PageSlots /\ Slot(cur.id, cur.page) \notin ValidSlots
  BY <1>0, <1>1, <1>2, SlotSets DEF ValidSlots
<1>4. Cardinality(ValidSlots) < Cardinality(PageSlots)
  <2>1. IsFiniteSet(PageSlots) /\ Cardinality(PageSlots) \in Nat /\ Cardinality(ValidSlots) \in Nat
    BY <1>0, SlotSets
  <2>2. Cardinality(ValidSlots) <= Cardinality(PageSlots) /\ Cardinality(ValidSlots) # Cardinality(PageSlots)
    BY <1>3, <2>1, FS_Subset
  <2> QED
    BY <2>1, <2>2
<1>5. freelist # << >>
  <2>1. Len(freelist) # 0
    BY <1>0, <1>4, SlotSets DEF Fits
  <2> QED
    BY <2>1
<1>6. FrameAllocated < FrameCount(cur.id)
  BY <1>0 DEF Fits, FrameAllocated
<1> QED
  BY <1>0, <1>1, <1>3, <1>5, <1>6 DEF FrameLeft

\* A page that is loaded takes one frame.
LEMMA LoadReturns ==
  ASSUME PagingAssumption, m <= 22, PagingInv, Returning, Legal, Fits, Next, MmuLoad \/ MmuEvict
  PROVE  /\ ValidSlots' \subseteq PageSlots
         /\ Len(freelist') + Cardinality(ValidSlots)' = f
         /\ \A i \in Procs, p \in 0 .. m - 1 : ppc'[i] = "exited" /\ Valid(i, p)' => Telling(i)'
<1>0. /\ TypeOK /\ freelist \in Seq(Frame) /\ page_table \in [Slots -> [valid : BOOLEAN, frame_number : Frame]]
      /\ f \in Nat /\ NoAlias /\ TalkInv /\ FaultInv
  BY PagingTypes, LegalApart DEF PagingInv, TalkInv
<1>1. /\ ValidSlots \subseteq PageSlots /\ Len(freelist) + Cardinality(ValidSlots) = f
      /\ \A i \in Procs, p \in 0 .. m - 1 : ppc[i] = "exited" /\ Valid(i, p) => Telling(i)
  BY DEF Returning
<1>2. Queues /\ mpc = "fault" /\ UNCHANGED <<req, ppc>>
  BY DEF MmuLoad, MmuEvict, Handled, queue3, procs
<1> DEFINE own == Slot(cur.id, cur.page)
<1>3. FrameLeft /\ own \in PageSlots /\ own \notin ValidSlots
  BY <1>1, <1>2, FrameIsLeft
<1>4. freelist # << >> /\ freelist' = Front(freelist) /\ page_table' = Loaded(page_table, Last(freelist))
  BY <1>3 DEF MmuLoad, MmuEvict, FrameLeft
<1>5. ValidSlots' = ValidSlots \cup {own}
  <2>1. own \in Slots
    BY <1>3 DEF PageSlots
  <2>2. page_table' = [page_table EXCEPT ![own] = [valid |-> TRUE, frame_number |-> Last(freelist)]]
    BY <1>4 DEF Loaded
  <2> HIDE DEF own
  <2>3. page_table'[own].valid /\ \A s \in Slots : s # own => page_table'[s] = page_table[s]
    BY <1>0, <2>1, <2>2
  <2> QED
    BY <2>1, <2>3 DEF ValidSlots
<1> HIDE DEF own
<1>6. Len(freelist') + Cardinality(ValidSlots') = f
  <2>1. IsFiniteSet(ValidSlots) /\ Cardinality(ValidSlots) \in Nat
    BY <1>0, SlotSets
  <2>2. Cardinality(ValidSlots \cup {own}) = Cardinality(ValidSlots) + 1
    BY <1>3, <2>1, FS_AddElement
  <2>3. Len(freelist') = Len(freelist) - 1 /\ Len(freelist) \in Nat
    BY <1>0, <1>4, FrontFacts
  <2> QED
    BY <1>1, <1>5, <2>1, <2>2, <2>3
<1>7. ASSUME NEW i \in Procs, NEW p \in 0 .. m - 1, ppc'[i] = "exited", Valid(i, p)' PROVE Telling(i)'
  <2>1. PICK i0 \in Procs, p0 \in 0 .. m - 1 :
            /\ ~Over(i0)
            /\ \A j \in Procs, q \in 0 .. m - 1 : j # i0 \/ q # p0 => (Valid(j, q)' => Valid(j, q))
    BY <1>0, HandledFacts
  <2>2. ppc[i] = "exited"
    BY <1>2, <1>7
  <2>3. i # i0
    BY <2>1, <2>2 DEF Over
  <2>4. Telling(i)
    BY <1>1, <1>7, <2>1, <2>2, <2>3
  <2> QED
    BY <1>2, <2>4 DEF Telling
<1> QED
  BY <1>1, <1>3, <1>5, <1>6, <1>7

\* A process that is done gives back as many frames as it has pages in memory.
LEMMA DoneReturns ==
  ASSUME PagingAssumption, m <= 22, PagingInv, Returning, Legal, Fits, Next, MmuDone
  PROVE  /\ ValidSlots' \subseteq PageSlots
         /\ Len(freelist') + Cardinality(ValidSlots)' = f
         /\ \A i \in Procs, p \in 0 .. m - 1 : ppc'[i] = "exited" /\ Valid(i, p)' => Telling(i)'
<1>0. /\ TypeOK /\ TalkInv /\ freelist \in Seq(Frame)
      /\ page_table \in [Slots -> [valid : BOOLEAN, frame_number : Frame]]
      /\ f \in Nat /\ m \in Nat
  BY PagingTypes DEF PagingInv, TalkInv
<1>1. /\ ValidSlots \subseteq PageSlots /\ Len(freelist) + Cardinality(ValidSlots) = f
      /\ \A i \in Procs, p \in 0 .. m - 1 : ppc[i] = "exited" /\ Valid(i, p) => Telling(i)
  BY DEF Returning
<1>2. /\ Request.id \in Procs /\ FreePages(Request.id) /\ UNCHANGED procs
  BY <1>0, ServeKinds DEF MmuDone
<1>3. PICK i0 \in Procs : i0 = Request.id /\ FreePages(i0)
  BY <1>2
<1> DEFINE rows == RowSlots(i0)
<1>4. /\ rows \subseteq Slots /\ Cardinality(rows) \in Nat
      /\ \A s \in rows : page_table[s].valid
      /\ \A p \in 0 .. m - 1 : Valid(i0, p) => Slot(i0, p) \in rows
  BY RowFacts DEF Valid
<1>5. /\ page_table' = [s \in Slots |-> IF s \in rows THEN [page_table[s] EXCEPT !.valid = FALSE] ELSE page_table[s]]
      /\ Len(freelist') = Len(freelist) + Cardinality(rows)
  BY <1>0, <1>3, Freed
<1> HIDE DEF rows
<1>6. \A s \in Slots : page_table'[s].valid <=> page_table[s].valid /\ s \notin rows
  BY <1>0, <1>5
<1>7. ValidSlots' = ValidSlots \ rows /\ ValidSlots \cap rows = rows
  BY <1>4, <1>6 DEF ValidSlots
<1>8. Len(freelist') + Cardinality(ValidSlots') = f
  <2>1. IsFiniteSet(ValidSlots) /\ Cardinality(ValidSlots) \in Nat
    BY <1>0, SlotSets
  <2>2. Cardinality(ValidSlots \ rows) = Cardinality(ValidSlots) - Cardinality(rows)
    BY <1>7, <2>1, FS_Difference
  <2>3. Len(freelist) \in Nat
    BY <1>0, LenProperties
  <2> QED
    BY <1>1, <1>4, <1>5, <1>7, <2>1, <2>2, <2>3
<1>9. ASSUME NEW i \in Procs, NEW p \in 0 .. m - 1, ppc'[i] = "exited", Valid(i, p)' PROVE Telling(i)'
  <2>1. Slot(i, p) \in Slots
    BY <1>0, SlotExists
  <2>2. Valid(i, p) /\ Slot(i, p) \notin rows
    BY <1>6, <1>9, <2>1 DEF Valid
  <2>3. i # Request.id
    BY <1>3, <1>4, <2>2
  <2>4. ppc[i] = "exited" => Telling(i)
    BY <1>1, <2>2
  <2> QED
    BY <1>0, <1>9, <2>3, <2>4, TellingStep
<1> QED
  BY <1>1, <1>7, <1>8, <1>9

\* No step loses a frame.
LEMMA ReturningKept ==
  ASSUME PagingAssumption, m <= 22, ReturnInv, Next
  PROVE  Returning'
<1>0. TalkInv /\ PagingInv /\ Ends /\ Returning /\ UNCHANGED static
  BY StaticStep DEF ReturnInv, PagingInv, NotesInv
<1>1. (Legal' <=> Legal) /\ (Fits' <=> Fits) /\ PageSlots' = PageSlots
  BY <1>0, FitsKept
<1> SUFFICES ASSUME Legal, Fits
             PROVE  /\ ValidSlots' \subseteq PageSlots
                    /\ Len(freelist') + Cardinality(ValidSlots)' = f
                    /\ \A i \in Procs, p \in 0 .. m - 1 : ppc'[i] = "exited" /\ Valid(i, p)' => Telling(i)'
  BY <1>1 DEF Returning
<1>2. CASE MmuLoad \/ MmuEvict
  BY <1>0, <1>2, LoadReturns
<1>3. CASE MmuDone
  BY <1>0, <1>3, DoneReturns
<1>4. ~MmuReject
  BY <1>0 DEF Ends, MmuReject
<1>5. CASE UNCHANGED memory /\ ~MmuDone
  <2>1. UNCHANGED <<page_table, freelist>>
    BY <1>5 DEF memory
  <2>2. ValidSlots' = ValidSlots /\ \A i, p : Valid(i, p)' <=> Valid(i, p)
    BY <2>1 DEF ValidSlots, Valid
  <2>3. ASSUME NEW i \in Procs, NEW p \in 0 .. m - 1, ppc'[i] = "exited", Valid(i, p)' PROVE Telling(i)'
    <3>1. ppc[i] = "exited" => Telling(i)
      BY <1>0, <2>2, <2>3 DEF Returning
    <3> QED
      BY <1>0, <1>5, <2>3, <3>1, TellingStep
  <2> QED
    BY <1>0, <2>1, <2>2, <2>3 DEF Returning
<1> QED
  BY <1>2, <1>3, <1>4, <1>5 DEF Next, Proc, ProcReady, ProcScheduled, ProcSend, ProcRecv, ProcDone, ProcAbort, Sched,
     SchedPick, SchedHandled, SchedTerm, SchedStop, Mmu, MmuInvalid, MmuHit, MmuFault, MmuCrash, Master, Fork,
     TestFlag, Pause, Handler, Clear, OthersIdle

\* At first all frames are free and no process has ended.
LEMMA ReturnStart ==
  ASSUME PagingAssumption, Init
  PROVE  Departed /\ Returning
<1>1. k \in Nat /\ m \in Nat /\ f \in Nat /\ k > 0
  BY DEF PagingAssumption
<1>2. Exited = {} /\ terminated = 0 /\ mpc = "recv" /\ \A i \in Procs : ppc[i] = "unborn"
  BY DEF Exited, Init
<1>3. Dones = 0
  <2>1. req = << >> /\ req \in Seq({})
    BY DEF Init
  <2> QED
    BY <2>1, CountType DEF Dones
<1>4. Departed
  BY <1>2, <1>3, FS_EmptySet DEF Departed
<1>5. ValidSlots = {}
  BY DEF ValidSlots, Init
<1>6. Len(freelist) = f
  BY <1>1 DEF Init
<1>7. Returning
  BY <1>1, <1>2, <1>5, <1>6, FS_EmptySet DEF Returning
<1> QED
  BY <1>4, <1>7

\* As many frames as there are, none of them twice, are all frames.
LEMMA AllFrames ==
  ASSUME NEW n \in Nat, NEW T0, NEW s \in Seq(T0), Len(s) = n, \A j \in 1 .. n : s[j] \in 0 .. n - 1,
         \A j, l \in 1 .. n : s[j] = s[l] => j = l
  PROVE  ToSet(s) = 0 .. n - 1
<1> DEFINE at == [j \in 1 .. n |-> s[j]]
           S == 1 .. n
           T == 0 .. n - 1
<1>1. \A j \in 1 .. n : s[j] \in 0 .. n - 1
  OBVIOUS
<1>2. at \in [S -> T]
  BY <1>1
<1>3. \A j, l \in S : at[j] = at[l] => j = l
  OBVIOUS
<1>4. at \in Injection(S, T)
  BY <1>2, <1>3 DEF Injection, IsInjective
<1>5. IsFiniteSet(T) /\ Cardinality(T) = n
  <2>1. 0 \in Int /\ n - 1 \in Int
    OBVIOUS
  <2>2. IsFiniteSet(T) /\ Cardinality(T) = IF 0 > n - 1 THEN 0 ELSE (n - 1) - 0 + 1
    BY <2>1, FS_Interval, Zenon
  <2>3. (IF 0 > n - 1 THEN 0 ELSE (n - 1) - 0 + 1) = n
    OBVIOUS
  <2> QED
    BY <2>2, <2>3
<1>6. Cardinality(S) = n
  <2>1. 1 \in Int /\ n \in Int
    OBVIOUS
  <2>2. Cardinality(S) = IF 1 > n THEN 0 ELSE n - 1 + 1
    BY <2>1, FS_Interval, Zenon
  <2>3. (IF 1 > n THEN 0 ELSE n - 1 + 1) = n
    OBVIOUS
  <2> QED
    BY <2>2, <2>3
<1> HIDE DEF at, S, T
<1>7. at \in Surjection(S, T)
  BY <1>4, <1>5, <1>6, FS_Injection
<1>8. \A x \in T : \E j \in S : at[j] = x
  BY <1>7 DEF Surjection
<1>9. DOMAIN s = 1 .. n
  BY LenProperties
<1>10. \A x \in 0 .. n - 1 : \E j \in 1 .. n : s[j] = x
  BY <1>8 DEF at, S, T
<1>11. \A x : x \in ToSet(s) <=> \E j \in 1 .. n : x = s[j]
  BY <1>9 DEF ToSet
<1>12. \A x : x \in ToSet(s) <=> x \in 0 .. n - 1
  BY <1>1, <1>10, <1>11
<1> HIDE DEF T
<1> QED
  BY <1>12

\* With k ends told no message of an end is left, so no page is left in memory.
LEMMA FramesBack == ASSUME PagingAssumption, ReturnInv PROVE FramesReturned
<1> SUFFICES ASSUME mpc = "finished", Legal, Fits PROVE Len(freelist) = f /\ ToSet(freelist) = Frames
  BY DEF FramesReturned
<1>0. /\ TypeOK /\ freelist \in Seq(Frame) /\ req \in Seq(Requests) /\ f \in Nat /\ k \in Nat /\ m \in Nat
      /\ pages \in [Procs -> 1 .. m]
  BY PagingTypes DEF ReturnInv, PagingInv, TalkInv
<1>1. Dones \in Nat /\ Cardinality(Exited) \in Nat /\ Len(req) \in Nat
  BY <1>0, CountType, ProcSets, LenProperties DEF Dones
<1>2. Cardinality(Exited) <= k /\ (Cardinality(Exited) = k => Exited = Procs)
  BY ProcSets, FS_Subset
<1>3. k + Dones = Cardinality(Exited)
  BY DEF ReturnInv, Departed
<1>4. Dones = 0 /\ Exited = Procs
  BY <1>0, <1>1, <1>2, <1>3
<1>5. ASSUME NEW i \in Procs, Telling(i) PROVE FALSE
  <2> DEFINE D == {j \in 1 .. Len(req) : req[j] \in {r \in Requests : r.page = PROCESS_DONE}}
  <2>1. PICK j \in 1 .. Len(req) : req[j].page = PROCESS_DONE
    BY <1>5 DEF Telling
  <2>2. req[j] \in Requests
    BY <1>0, ElementOfSeq
  <2>3. j \in D
    BY <2>1, <2>2
  <2>4. IsFiniteSet(D)
    <3>1. IsFiniteSet(1 .. Len(req))
      BY <1>1, FS_Interval
    <3>2. D \subseteq 1 .. Len(req)
      OBVIOUS
    <3> QED
      BY <3>1, <3>2, FS_Subset
  <2>5. Cardinality(D) = 0
    BY <1>4 DEF Dones, CountIn
  <2> HIDE DEF D
  <2> QED
    BY <2>3, <2>4, <2>5, FS_EmptySet
<1>6. ValidSlots = {}
  <2> SUFFICES ASSUME NEW s \in ValidSlots PROVE FALSE
    OBVIOUS
  <2>1. s \in PageSlots /\ page_table[s].valid
    BY DEF ReturnInv, Returning, ValidSlots
  <2>2. PICK i \in Procs, p \in 0 .. m - 1 : s = Slot(i, p)
    BY <1>0, <2>1, SlotSets
  <2>3. ppc[i] = "exited"
    BY <1>4 DEF Exited
  <2> QED
    BY <1>5, <2>1, <2>2, <2>3 DEF ReturnInv, Returning, Valid
<1>7. Len(freelist) = f
  <2>1. Len(freelist) + Cardinality(ValidSlots) = f /\ Len(freelist) \in Nat
    BY <1>0, LenProperties DEF ReturnInv, Returning
  <2> QED
    BY <1>6, <2>1, FS_EmptySet
<1>8. OneOwner
  BY <1>0, LegalApart DEF ReturnInv, PagingInv, FrameInv
<1>9. \A j \in 1 .. Len(freelist) : freelist[j] \in 0 .. f - 1
  <2>1. \A j \in 1 .. Len(freelist) : freelist[j] \in Frame /\ freelist[j] # -1
    BY <1>0, <1>8, ElementOfSeq DEF OneOwner
  <2> QED
    BY <2>1 DEF Frame, Frames
<1>10. ToSet(freelist) = 0 .. f - 1
  BY <1>0, <1>7, <1>8, <1>9, AllFrames DEF OneOwner
<1> QED
  BY <1>7, <1>10 DEF Frames

\* For any numbers of processes and frames and up to 22 pages, when the MMU has been told
\* that all processes are done the free list holds every frame again, if all references are
\* legal and all pages fit (mmu.c, free_pages): no fault, however it falls between the ends
\* of other processes, loses a frame.
THEOREM FramesComeBack ==
  ASSUME PagingAssumption, m <= 22
  PROVE  Spec => []FramesReturned
<1>1. Init => ReturnInv
  BY TalkStart, FrameStart, NotesStart, ReturnStart DEF ReturnInv, PagingInv, NotesInv
<1>2. ReturnInv /\ [Next]_vars => ReturnInv'
  <2> SUFFICES ASSUME ReturnInv, [Next]_vars PROVE ReturnInv'
    OBVIOUS
  <2>1. CASE Next
    <3>1. PagingInv' /\ NotesInv'
      BY <2>1, TalkStep, FaultKept, FrameKept, SignalKept, TurnsKept, EndsKept DEF ReturnInv, PagingInv, NotesInv
    <3>2. Departed' /\ Returning'
      BY <2>1, DepartedKept, ReturningKept DEF ReturnInv, NotesInv
    <3> QED
      BY <3>1, <3>2 DEF ReturnInv
  <2>2. CASE UNCHANGED vars
    <3>1. UNCHANGED static
          /\ UNCHANGED <<page_table, freelist, ready, wake, notes, req, reply, ppc, count, spc, term_count, mpc,
                         cur, terminated, master, signalled, flag>>
      BY <2>2 DEF vars, memory, queue3, procs, sched, mmu, mast
    <3>2. TalkInv'
      BY <2>2, TalkStep DEF ReturnInv, PagingInv
    <3>3. UNCHANGED <<pages, refs>> /\ (Legal' <=> Legal) /\ (Fits' <=> Fits) /\ PageSlots' = PageSlots
      BY <3>1, FitsKept DEF static
    <3>4. FaultInv' /\ FrameInv'
      <4>1. \A i, p : /\ Valid(i, p)' <=> Valid(i, p)
                      /\ Number(i, p)' = Number(i, p)
                      /\ Owned(i, p)' <=> Owned(i, p)
                      /\ Stuck(i, p)' <=> Stuck(i, p)
        BY <3>1, <3>3 DEF Valid, Number, Owned, Stuck, Over, Wanted
      <4>2. (NoAlias' <=> NoAlias) /\ (Queues' <=> Queues) /\ freelist' = freelist
        BY <3>1, <3>3 DEF NoAlias, Queues
      <4>3. FaultInv'
        BY <3>1, <3>3 DEF ReturnInv, PagingInv, FaultInv, Stuck, Over, Wanted, Queues
      <4> QED
        BY <4>1, <4>2, <4>3 DEF ReturnInv, PagingInv, FrameInv, OneOwner
    <3>5. Signal' /\ Turns'
      BY <3>1 DEF ReturnInv, NotesInv, Signal, Turns, Started
    <3>6. Reported' = Reported /\ Exited' = Exited /\ Dones' = Dones
      BY <3>1 DEF Reported, Terms, Dones, Exited
    <3>7. Ends' /\ Departed'
      BY <3>1, <3>3, <3>6 DEF ReturnInv, NotesInv, Ends, Departed
    <3>8. Returning'
      <4>1. ValidSlots' = ValidSlots /\ \A i, p : (Valid(i, p)' <=> Valid(i, p)) /\ (Telling(i)' <=> Telling(i))
        BY <3>1 DEF ValidSlots, Valid, Telling
      <4> QED
        BY <3>1, <3>3, <4>1 DEF ReturnInv, Returning
    <3> QED
      BY <3>2, <3>4, <3>5, <3>7, <3>8 DEF ReturnInv, PagingInv, NotesInv
  <2> QED
    BY <2>1, <2>2
<1>3. ReturnInv => FramesReturned
  BY FramesBack
<1> QED
  BY <1>1, <1>2, <1>3, PTL DEF Spec

=============================================================================
