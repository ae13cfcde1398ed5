------------------------------- MODULE Paging -------------------------------
(***************************************************************************)
(* The demand paging simulation of Assignment_08: the master (master.c),   *)
(* the scheduler (sched.c), the MMU (mmu.c) and k processes (proc.c), which *)
(* talk through three message queues.  A receiver asks a queue for the     *)
(* messages of one type, so each pair of queue and type is a FIFO of its   *)
(* own: ready and wake (queue 1), notes (queue 2), req and reply (queue 3). *)
(*                                                                         *)
(* The page tables of all processes are rows of one array in shared memory *)
(* that only the MMU touches once it runs.  The counters of faults and the *)
(* time stamps are left out: the search for a victim compares only the     *)
(* faulting page's own stamp, so it always takes the first valid entry it  *)
(* sees.  frame_allocated is never changed by any program.                 *)
(***************************************************************************)
EXTENDS Integers, Sequences, FiniteSets, SequencesExt

CONSTANTS
    k,          \* number of processes
    m,          \* maximum number of pages of a process
    f,          \* number of frames
    RefStrings  \* the page reference strings the master may generate

ASSUME PagingAssumption ==
    /\ k \in Nat \ {0} /\ m \in Nat \ {0} /\ f \in Nat /\ k <= f
    /\ RefStrings \subseteq Seq(Nat)

Procs == 0 .. k - 1

\* Page m of the last process lies just behind the array, in memory that the
\* kernel has cleared and create_page_tables does not initialise.
Slots == 0 .. k * m

PAGE_FAULT == -1
INVALID_PAGE_NUMBER == -2
PROCESS_DONE == -9

VARIABLES
    pages,      \* process -> pcb.m
    refs,       \* process -> its reference string
    page_table, \* slot -> page_table_entry
    freelist,   \* the free frames, freelist[current] last
    ready, wake, notes, req, reply,     \* messages under way
    ppc, count, \* process -> its place, references it has completed
    spc, sid, term_count,               \* the scheduler
    mpc, cur, terminated,               \* the MMU and the request it serves
    master, forked, signalled, flag     \* the master

static == <<pages, refs>>
memory == <<page_table, freelist>>
queue3 == <<req, reply>>
procs == <<ppc, count>>
sched == <<spc, sid, term_count>>
mmu == <<mpc, cur, terminated>>
mast == <<master, forked, signalled, flag>>
vars == <<static, memory, ready, wake, notes, queue3, procs, sched, mmu, mast>>

-----------------------------------------------------------------------------
(* The frames the master allots to each process (create_pcb)               *)

Total(g) == FoldFunction(+, 0, g)

SumPages == Total(pages)

\* round(x * y / z) of C, halves away from zero.
Round(x, z) == (2 * x + z) \div (2 * z)

Share(i) == 1 + Round(pages[i] * (f - k), SumPages)

\* The process that gets what rounding has left over: the code compares the
\* number of pages with the index of the last choice.
Maxi ==
    LET step[i \in -1 .. k - 1] ==
            IF i = -1 THEN 0 ELSE IF pages[i] > step[i - 1] THEN i ELSE step[i - 1]
    IN  step[k - 1]

FrameCount(i) ==
    Share(i) + (IF i = Maxi
                THEN f - Total([j \in Procs |-> Share(j)]) ELSE 0)

FrameAllocated == 0

\* What create_processes draws: the length, and pages that are legal or not.
MayGenerate(i) ==
    /\ Len(refs[i]) \in 1 + 2 * pages[i] .. 10 * pages[i]
    /\ \A j \in DOMAIN refs[i] : refs[i][j] \in 0 .. pages[i] + 10 * m - 1

Init ==
    /\ pages \in [Procs -> 1 .. m] /\ refs \in [Procs -> RefStrings]
    /\ \A i \in Procs : MayGenerate(i)
    /\ page_table = [s \in Slots |->
                        [valid |-> FALSE, frame_number |-> IF s = k * m THEN 0 ELSE -1]]
    /\ freelist = [j \in 1 .. f |-> j - 1]
    /\ ready = << >> /\ notes = << >> /\ req = << >>
    /\ wake = [i \in Procs |-> 0] /\ reply = [i \in Procs |-> << >>]
    /\ ppc = [i \in Procs |-> "unborn"] /\ count = [i \in Procs |-> 0]
    /\ spc = "ready" /\ sid = 0 /\ term_count = 0
    /\ mpc = "recv" /\ cur = [id |-> 0, page |-> 0] /\ terminated = 0
    /\ master = "create" /\ forked = 0 /\ signalled = FALSE /\ flag = FALSE

\* The queues exist until the master removes them.
Queues == master # "over"

-----------------------------------------------------------------------------
(* Processes (proc.c)                                                      *)

ProcGoto(i, from, to) ==
    /\ Queues /\ ppc[i] = from
    /\ ppc' = [ppc EXCEPT ![i] = to]

ProcReady(i) ==
    /\ ProcGoto(i, "start", "wait")
    /\ ready' = Append(ready, i)
    /\ UNCHANGED <<static, memory, wake, notes, queue3, count, sched, mmu, mast>>

\* The only time a process waits for the scheduler.
ProcScheduled(i) ==
    /\ ProcGoto(i, "wait", "send")
    /\ wake[i] > 0
    /\ wake' = [wake EXCEPT ![i] = @ - 1]
    /\ UNCHANGED <<static, memory, ready, notes, queue3, count, sched, mmu, mast>>

ProcSend(i) ==
    /\ count[i] < Len(refs[i])
    /\ ProcGoto(i, "send", "recv")
    /\ req' = Append(req, [id |-> i, page |-> refs[i][count[i] + 1]])
    /\ UNCHANGED <<static, memory, ready, wake, notes, reply, count, sched, mmu, mast>>

\* After a page fault the process asks again at once.
ProcRecv(i) ==
    /\ reply[i] # << >>
    /\ ProcGoto(i, "recv", IF Head(reply[i]) = INVALID_PAGE_NUMBER THEN "done" ELSE "send")
    /\ count' = [count EXCEPT ![i] =
                    IF Head(reply[i]) \in {PAGE_FAULT, INVALID_PAGE_NUMBER} THEN @ ELSE @ + 1]
    /\ reply' = [reply EXCEPT ![i] = Tail(@)]
    /\ UNCHANGED <<static, memory, ready, wake, notes, req, sched, mmu, mast>>

ProcDone(i) ==
    /\ \/ ProcGoto(i, "send", "exited") /\ count[i] = Len(refs[i])
       \/ ProcGoto(i, "done", "exited")
    /\ req' = Append(req, [id |-> i, page |-> PROCESS_DONE])
    /\ UNCHANGED <<static, memory, ready, wake, notes, reply, count, sched, mmu, mast>>

\* msgsnd or msgrcv fails because the queues are gone: exit(1).
ProcAbort(i) ==
    /\ ~Queues /\ ppc[i] \notin {"unborn", "exited", "aborted"}
    /\ ppc' = [ppc EXCEPT ![i] = "aborted"]
    /\ UNCHANGED <<static, memory, ready, wake, notes, queue3, count, sched, mmu, mast>>

Proc(i) ==
    \/ ProcReady(i) \/ ProcScheduled(i) \/ ProcSend(i) \/ ProcRecv(i)
    \/ ProcDone(i) \/ ProcAbort(i)

-----------------------------------------------------------------------------
(* The scheduler (sched.c)                                                 *)

SchedPick ==
    /\ Queues /\ spc = "ready" /\ ready # << >>
    /\ sid' = Head(ready) /\ ready' = Tail(ready)
    /\ wake' = [wake EXCEPT ![Head(ready)] = @ + 1]
    /\ spc' = "note"
    /\ UNCHANGED <<static, memory, notes, queue3, procs, term_count, mmu, mast>>

\* Mutant: a process that had a page fault is not scheduled again.
SchedHandled_Dropped ==
    /\ Queues /\ spc = "note" /\ notes # << >> /\ Head(notes) = "handled"
    /\ notes' = Tail(notes)
    /\ spc' = "ready"
    /\ UNCHANGED <<static, memory, ready, wake, queue3, procs, sid, term_count, mmu, mast>>

\* PAGE_FAULT_HANDLED: the process scheduled last is ready again, whichever
\* process the note is about.
SchedHandled ==
    /\ Queues /\ spc = "note" /\ notes # << >> /\ Head(notes) = "handled"
    /\ notes' = Tail(notes)
    /\ ready' = Append(ready, sid)
    /\ spc' = "ready"
    /\ UNCHANGED <<static, memory, wake, queue3, procs, sid, term_count, mmu, mast>>

\* PROCESS_TERM: the scheduler counts k of them.
SchedTerm ==
    /\ Queues /\ spc = "note" /\ notes # << >> /\ Head(notes) = "term"
    /\ notes' = Tail(notes)
    /\ term_count' = term_count + 1
    /\ spc' = IF term_count + 1 = k THEN "stop" ELSE "ready"
    /\ UNCHANGED <<static, memory, ready, wake, queue3, procs, sid, mmu, mast>>

\* kill(master_pid, SIGUSR1); pause();
SchedStop ==
    /\ spc = "stop" /\ spc' = "paused"
    /\ signalled' = TRUE
    /\ UNCHANGED <<static, memory, ready, wake, notes, queue3, procs, sid,
                   term_count, mmu, master, forked, flag>>

Sched == SchedPick \/ SchedHandled \/ SchedTerm \/ SchedStop

-----------------------------------------------------------------------------
(* The MMU (mmu.c, serve_request)                                          *)

\* The page number arrives in a signed char.
Char(n) == ((n + 128) % 256) - 128

Slot(id, page) == id * m + page

\* The next request, with its page number as the MMU sees it.
Request == [id |-> Head(req).id, page |-> Char(Head(req).page)]

Serve(page_ok) ==
    /\ Queues /\ mpc = "recv" /\ req # << >> /\ page_ok
    /\ req' = Tail(req)

Illegal(r) == r.page < 0 \/ pages[r.id] < r.page

RowSlots(id) == {s \in id * m .. id * m + m - 1 : page_table[s].valid}

\* The members of a set of slots, the lowest first.
Ascending(slots) ==
    {seq \in [1 .. Cardinality(slots) -> slots] :
        \A j, l \in DOMAIN seq : j < l => seq[j] < seq[l]}

Returned(slots) ==
    \E seq \in Ascending(slots) :
        freelist' = freelist \o [j \in DOMAIN seq |-> page_table[seq[j]].frame_number]

Dropped(slots) ==
    page_table' = [s \in Slots |->
        IF s \in slots THEN [page_table[s] EXCEPT !.valid = FALSE] ELSE page_table[s]]

\* Mutant: the last page of the row is forgotten.
FreePages_OneShort(id) ==
    LET slots == RowSlots(id) \ {id * m + m - 1}
    IN  Returned(slots) /\ Dropped(slots)

\* Mutant: the pages stay valid.
FreePages_StillValid(id) == Returned(RowSlots(id)) /\ UNCHANGED page_table

\* The frames of the valid pages in row id go back, the lowest page first.
FreePages(id) == Returned(RowSlots(id)) /\ Dropped(RowSlots(id))

\* Mutant: the scheduler is not told.
MmuDone_Untold ==
    /\ Serve(Request.page = PROCESS_DONE)
    /\ FreePages(Request.id)
    /\ terminated' = terminated + 1
    /\ mpc' = IF terminated + 1 = k THEN "finished" ELSE "recv"
    /\ UNCHANGED <<static, ready, wake, notes, reply, procs, sched, cur, mast>>

\* Page number PROCESS_DONE.
MmuDone ==
    /\ Serve(Request.page = PROCESS_DONE)
    /\ FreePages(Request.id)
    /\ notes' = Append(notes, "term")
    /\ terminated' = terminated + 1
    /\ mpc' = IF terminated + 1 = k THEN "finished" ELSE "recv"
    /\ UNCHANGED <<static, ready, wake, reply, procs, sched, cur, mast>>

\* The reply leaves before the MMU does its own work, so the process goes on
\* meanwhile.
Answer(place, frame_number) ==
    /\ cur' = Request /\ mpc' = place
    /\ reply' = [reply EXCEPT ![Request.id] = Append(@, frame_number)]

MmuInvalid ==
    /\ Serve(Request.page # PROCESS_DONE /\ Illegal(Request))
    /\ Answer("invalid", INVALID_PAGE_NUMBER)
    /\ UNCHANGED <<static, memory, ready, wake, notes, procs, sched, terminated, mast>>

\* The scheduler is told that the process is over; terminated waits for the
\* PROCESS_DONE that the process sends as well.
MmuReject ==
    /\ Queues /\ mpc = "invalid" /\ mpc' = "recv"
    /\ FreePages(cur.id)
    /\ notes' = Append(notes, "term")
    /\ UNCHANGED <<static, ready, wake, queue3, procs, sched, cur, terminated, mast>>

Looked(r) == page_table[Slot(r.id, r.page)]

MmuHit ==
    /\ Serve(~Illegal(Request) /\ Looked(Request).valid)
    /\ Answer("recv", Looked(Request).frame_number)
    /\ UNCHANGED <<static, memory, ready, wake, notes, procs, sched, terminated, mast>>

\* Mutant: the process gets two answers, as if the frame were sent as well.
MmuFault_Twice ==
    /\ Serve(~Illegal(Request) /\ ~Looked(Request).valid)
    /\ cur' = Request /\ mpc' = "fault"
    /\ reply' = [reply EXCEPT ![Request.id] = @ \o <<PAGE_FAULT, Looked(Request).frame_number>>]
    /\ UNCHANGED <<static, memory, ready, wake, notes, procs, sched, terminated, mast>>

MmuFault ==
    /\ Serve(~Illegal(Request) /\ ~Looked(Request).valid)
    /\ Answer("fault", PAGE_FAULT)
    /\ UNCHANGED <<static, memory, ready, wake, notes, procs, sched, terminated, mast>>

\* The end of the fault: the entry is set and the scheduler told.
Handled ==
    /\ Queues /\ mpc = "fault" /\ mpc' = "recv"
    /\ notes' = Append(notes, "handled")
    /\ UNCHANGED <<static, ready, wake, queue3, procs, sched, cur, terminated, mast>>

Loaded(table, frame_number) ==
    [table EXCEPT ![Slot(cur.id, cur.page)] = [valid |-> TRUE, frame_number |-> frame_number]]

FrameLeft == freelist # << >> /\ FrameAllocated < FrameCount(cur.id)

MmuLoad ==
    /\ Handled /\ FrameLeft
    /\ freelist' = Front(freelist)
    /\ page_table' = Loaded(page_table, Last(freelist))

\* What the search sees: the first slots of the table, up to the first index
\* that is no page of the process with that number.
Searched == {i \in Procs : \A j \in 0 .. i : j < pages[j]}
Victims == {i \in Searched : page_table[i].valid}

\* The entry dropped is the one with the index found, or -1, in the row of the
\* faulting process; the frame is the one the faulting entry had before.
\* Entry -1 of process 0 lies outside the array: the store hits other memory
\* or ends the MMU.
MmuEvict ==
    LET own == Slot(cur.id, cur.page)
        mini == IF Victims = {} THEN -1 ELSE CHOOSE i \in Victims : \A j \in Victims : i <= j
        frame == IF Victims = {} THEN -1 ELSE page_table[own].frame_number
        drop == Slot(cur.id, mini)
    IN  /\ Handled /\ ~FrameLeft
        /\ page_table' =
              Loaded(IF drop \in Slots THEN [page_table EXCEPT ![drop].valid = FALSE]
                                      ELSE page_table, frame)
        /\ UNCHANGED freelist

MmuCrash ==
    /\ mpc = "fault" /\ ~FrameLeft
    /\ Victims = {} /\ cur.id = 0
    /\ mpc' = "crashed"
    /\ UNCHANGED <<static, memory, ready, wake, notes, queue3, procs, sched, cur,
                   terminated, mast>>

Mmu ==
    \/ MmuDone \/ MmuInvalid \/ MmuReject \/ MmuHit \/ MmuFault
    \/ MmuLoad \/ MmuEvict \/ MmuCrash

-----------------------------------------------------------------------------
(* The master (master.c)                                                   *)

OthersIdle == UNCHANGED <<static, memory, ready, wake, notes, queue3, count>>

Fork ==
    /\ master = "create"
    /\ ppc' = [ppc EXCEPT ![forked] = "start"]
    /\ forked' = forked + 1
    /\ master' = IF forked + 1 = k THEN "test" ELSE "create"
    /\ OthersIdle /\ UNCHANGED <<sched, mmu, signalled, flag>>

\* if(!flag) pause(): the call comes after the test.
TestFlag ==
    /\ master = "test"
    /\ master' = IF flag THEN "cleanup" ELSE "call"
    /\ OthersIdle /\ UNCHANGED <<ppc, sched, mmu, forked, signalled, flag>>

Pause ==
    /\ master = "call" /\ master' = "pause"
    /\ OthersIdle /\ UNCHANGED <<ppc, sched, mmu, forked, signalled, flag>>

\* SIGUSR1: it ends a pause that has begun, not one that is to come.
Handler ==
    /\ signalled /\ master # "over"
    /\ signalled' = FALSE /\ flag' = TRUE
    /\ spc' = "killed" /\ mpc' = "killed"
    /\ master' = IF master = "pause" THEN "cleanup" ELSE master
    /\ OthersIdle /\ UNCHANGED <<ppc, sid, term_count, cur, terminated, forked>>

\* clear_resources
Clear ==
    /\ master = "cleanup" /\ master' = "over"
    /\ OthersIdle /\ UNCHANGED <<ppc, sched, mmu, forked, signalled, flag>>

Master == Fork \/ TestFlag \/ Pause \/ Handler \/ Clear

Next == (\E i \in Procs : Proc(i)) \/ Sched \/ Mmu \/ Master

\* As long as some process can run, one does: enough here, since no behaviour
\* of the liveness property goes round in circles.
Fairness == WF_vars(Next)

Spec == Init /\ [][Next]_vars /\ Fairness

-----------------------------------------------------------------------------
(* Properties                                                              *)

Frames == 0 .. f - 1

\* Every variable keeps its type: in particular a note is one of two, and a
\* frame number is a frame or -1.
TypeOK ==
    /\ pages \in [Procs -> 1 .. m] /\ refs \in [Procs -> RefStrings]
    /\ page_table \in [Slots -> [valid : BOOLEAN, frame_number : Frames \cup {-1}]]
    /\ freelist \in Seq(Frames \cup {-1})
    /\ ready \in Seq(Procs) /\ notes \in Seq({"handled", "term"})
    /\ wake \in [Procs -> Nat]
    /\ req \in Seq([id : Procs, page : Nat \cup {PROCESS_DONE}])
    /\ reply \in [Procs -> Seq(Frames \cup {PAGE_FAULT, INVALID_PAGE_NUMBER})]
    /\ ppc \in [Procs -> {"unborn", "start", "wait", "send", "recv", "done", "exited", "aborted"}]
    /\ count \in [Procs -> Nat] /\ \A i \in Procs : count[i] <= Len(refs[i])
    /\ spc \in {"ready", "note", "stop", "paused", "killed"}
    /\ sid \in Procs /\ term_count \in 0 .. k
    /\ mpc \in {"recv", "invalid", "fault", "finished", "crashed", "killed"}
    /\ cur \in [id : Procs, page : -128 .. 127] /\ terminated \in 0 .. k
    /\ master \in {"create", "test", "call", "pause", "cleanup", "over"}
    /\ forked \in 0 .. k /\ signalled \in BOOLEAN /\ flag \in BOOLEAN

Resident == {s \in 0 .. k * m - 1 : page_table[s].valid /\ page_table[s].frame_number # -1}
FreeFrames == {j \in DOMAIN freelist : freelist[j] # -1}

\* A page number equal to the number of pages passes the MMU's test; in a
\* process of m pages it names page 0 of the next process (mmu.c:132, 145).
NoAlias == \A i \in Procs : pages[i] = m => m \notin ToSet(refs[i])

\* A frame is given out once: whatever faults, evictions and terminations
\* happen, no frame is behind two entries of the page tables, none that is
\* behind one is free, none is free twice, and the free list, with room for f
\* frames (master.c:202), does not grow beyond it, as long as no process
\* reaches into the next one's table (mmu.c: page_fault_handler, free_pages).
\* Every variable keeps its type in any case.
FramesExclusive ==
    /\ TypeOK
    /\ NoAlias =>
        /\ \A s, t \in Resident : page_table[s].frame_number = page_table[t].frame_number => s = t
        /\ \A j, l \in FreeFrames : freelist[j] = freelist[l] => j = l
        /\ \A s \in Resident, j \in FreeFrames : page_table[s].frame_number # freelist[j]
        /\ Len(freelist) <= f

\* Every process refers to its own pages only, and all pages fit in memory.
Legal == \A i \in Procs : \A j \in DOMAIN refs[i] : refs[i][j] < pages[i]
PageSlots == {s \in Slots : \E i \in Procs : s \in i * m .. i * m + pages[i] - 1}
Fits == Cardinality(PageSlots) <= f /\ \A i \in Procs : FrameCount(i) > 0

\* The scheduler is not misled by the notes, which do not say which process they
\* are about, nor by processes it schedules again after they have ended.  If all
\* references are legal it ends the session only when every process has gone
\* through all of them (sched.c:117-122); and unless the MMU has crashed it never
\* waits for a note that nobody will send: a process it has woken has still to
\* tell the MMU that it is done (sched.c:109).
NotMisled ==
    /\ spc \in {"stop", "paused", "killed"} /\ Legal =>
          \A i \in Procs : ppc[i] = "exited" /\ count[i] = Len(refs[i])
    /\ spc = "note" /\ notes = << >> /\ mpc # "crashed" =>
          \/ mpc \in {"invalid", "fault"}
          \/ \E i \in Procs : ppc[i] = "wait" /\ wake[i] > 0
          \/ \E i \in Procs : ppc[i] \in {"send", "recv", "done"}
          \/ req # << >>

\* A process that waits for the MMU's answer is the author of exactly one
\* request or answer under way, and no other process has any: the answers of
\* type id + 20 never mix (proc.c:156-158, mmu.c:252).
OneAnswerEach ==
    \A i \in Procs :
        ppc[i] # "aborted" =>
            Cardinality({j \in DOMAIN req : req[j].id = i /\ req[j].page # PROCESS_DONE})
              + Len(reply[i]) = IF ppc[i] = "recv" THEN 1 ELSE 0

\* When all have ended the free list holds all frames again, if no reference
\* was illegal and nothing had to be evicted (mmu.c:306-314).
FramesReturned ==
    mpc = "finished" /\ Legal /\ Fits =>
        Len(freelist) = f /\ ToSet(freelist) = Frames

\* If all references are legal and all pages fit, every process runs to its end
\* and the master removes the queues, unless the signal reached it between its
\* test of flag and its pause (master.c:158-165).
SessionEnds ==
    Legal /\ Fits =>
        <>(/\ \A i \in Procs : ppc[i] = "exited"
           /\ flag /\ master \in {"over", "pause"})

=============================================================================
