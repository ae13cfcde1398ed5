# TLA+ models of the OS laboratory programs

The repository holds the C programs of an operating-systems laboratory, one
directory for each assignment. They are independent of each other: each is a small
concurrent system of processes or threads that meet through System V semaphores,
shared memory, message queues, pipes, signals or pthread condition variables. This
directory holds TLA+ modules for all of them that have a protocol, configurations for
TLC, and proofs for TLAPS. There are no tests in the repository; the assignments'
texts are PDFs beside the code.

## 1. Inventory

| component | source | state it keeps | operations | what is hard |
|---|---|---|---|---|
| foothread mutex | `Assignment_07/foothread.c` 248-303 | one kernel semaphore for all mutexes of a process; per mutex `tid`, `status`; the global sembufs `pop`, `vop` | init, lock, unlock, destroy | stores before and after the semaphore operation they belong to; sembufs shared by all threads |
| foothread barrier | `foothread.c` 305-385 | `count`, `reached`, a counting semaphore; one mutex semaphore for all barriers; global `vop` | init, wait, destroy | re-entry while the last arriver still resets; `vop` rewritten between store and use |
| foothread thread table | `foothread.c` 12-246 | `thread_table`, `mutex_semaphore`, a semaphore per entry, global `pop` | create, exit (with join) | table shared by all threads; the join count travels through `pop`; a full table |
| tree sum | `Assignment_07/computesum.c`, `csum.c` | partial sums, one barrier per inner node | one thread per node | combines all parts of the library |
| topological sort | `Assignment_05/LA5/boss.c`, `worker.c` | `A`, `T`, `idx` in shared memory, three kinds of semaphores | boss sets up, workers list themselves, boss checks | workers started during the setup; crashes on failed attachments |
| demand paging | `Assignment_08/master.c`, `sched.c`, `mmu.c`, `proc.c` | page tables, free list, three message queues, the flag of a signal handler | one loop each; fault handling, eviction, termination | answers sent before the work is done; notes that do not say what they are about; a signal that races `pause` |
| doctor's session | `Assignment_06/session.c`, `event.c` | event heap, counters per visitor type, four hand-off flags, seven conditions | assistant's event loop, doctor, one thread per visitor | signals without the waiters' mutex, several waiters on one condition |
| job manager | `Assignment_02/mgr.c`, `sub_mgr.c`, `job.c` | process table with a status per job | spawn, suspend, resume, kill, two signal handlers | handlers interrupt the main loop between test and use |
| command shell | `Assignment_03/CSE.c` (`cse.c` is identical) | three processes, two pipes, roles | run a command, swap roles | buffered input behind swapped descriptors |
| mailbox | `Assignment_04/prodcons.c` | two shared words | produce, consume | two words written and read without synchronisation |
| directory synchroniser | `Assignment_09/code.c` | two file trees | compare, copy, delete, touch | partial failure, order of passes |
| pthread samples | `pthread/*.c` | a rendezvous; a bounded buffer | wait and signal | a wait without a loop; one condition for both sides |

The rest is listed in `PROJECT.json` as not modelled, with the reason: input
generators, teaching samples of one system call, earlier copies of the same
functions, clean-up tools, and a sequential program that prints a process tree.

The programs do not talk to each other, with one exception: the tree sum is a client of
the thread library, and shares its global sembufs.

What makes each of the main components correct:

* **mutex**: two threads never hold it; only the holder can release it; a correct
  unlock succeeds; after all unlocks it says it is unlocked; whoever asks is served.
* **barrier**: nobody leaves a phase before all have arrived in it; nothing of a
  phase is left behind for the next; all leave.
* **thread table**: a created thread has exactly one entry until it is joined; a
  parent waits for its joinable children and for nobody else; entries come back.
* **topological sort**: a worker lists itself once, after its predecessors; the boss
  ends after everybody; "valid" means valid.
* **paging**: a frame is behind one page at most and is never both free and in use;
  the scheduler neither stops early nor waits in vain; answers go to the question
  they answer; all frames come back; the session ends.
* **session**: one visitor at a time is with the doctor, in the prescribed order;
  flags of one visit do not leak into the next; nobody let in is forgotten; the
  program ends.
* **job manager**: one job at a time runs, while the manager waits for it; the table
  says what is true of the jobs; signals from the terminal reach the running job; `q`
  leaves nothing alive. (The code has windows in which one of these is lost for a job;
  the properties except the jobs in them and nothing else, see §2 and §3.)
* **shell**: what is typed is handled once, in order, one piece at a time, and by the one
  whose role it is.
* **mailbox**: a consumer reads the item meant for it, or at worst the previous one once
  more in its place; turns are not mixed up, and everybody ends.
* **bounded buffer**: items are not lost, not taken twice, and both sides end.
* **rendezvous**: no worker leaves before all have counted themselves; no change of the
  arrays is lost.
* **synchroniser**: after a run without an error the trees agree, whatever interrupted
  the runs before it, but for files that a failure nobody looks at left short or without
  their time; those look different, so that the next run copies them. What agrees is left
  alone.
* **tree sum**: a node that its parent reads has the sum of its subtree; the number
  printed is the sum of the tree, unless shared sembufs were mixed up before.

The hazards in `PROJECT.json` name the lines where each of these can go wrong.

## 2. Modules

| module | models | about the module |
|---|---|---|
| `SysVSem` | `semop(2)` as these programs use it | external; pure operators |
| `FooMutex` | foothread mutex | one action per store or semaphore operation |
| `FooMutexProofs` | | theorems about `FooMutex` |
| `PhaseBarrier` | | abstract: what a barrier promises to threads that work in phases |
| `FooBarrier` | foothread barrier | implements `PhaseBarrier` when all threads follow one plan |
| `FooBarrierProofs` | | theorems about `FooBarrier`, and that it implements `PhaseBarrier` |
| `FooThread` | `foothread_create`, `foothread_exit` | client programs are scripts of creations and exits |
| `FooThreadProofs` | | theorems about `FooThread` |
| `TreeSum` | `computesum.c` with the library calls it makes | composes mutex, barriers, creation and joining over one `pop` and one `vop` |
| `TopoListing` | | abstract: nodes are listed once each, after their predecessors |
| `TopoCheck` | `isTopologicalSortValid` | pure; compared with the definition of a topological sort |
| `TopoSort` | boss and workers | implements `TopoListing` |
| `TopoSortProofs` | | theorems about `TopoSort` and `TopoCheck`, and that it implements `TopoListing` |
| `Paging` | master, scheduler, MMU, processes | a queue per pair of message queue and type |
| `PagingProofs` | | theorems about `Paging` |
| `EventQueue` | `event.c` | the heap, as pure operators; its loops are recursive functions |
| `Session` | `session.c` | uses `EventQueue`; conditions as sets of sleepers |
| `SessionProofs` | | theorems about `Session` |
| `JobManager` | `mgr.c`, and `sub_mgr.c` | the handlers' steps come between any two stores of the main loop |
| `JobManagerProofs` | | theorems about `JobManager` |
| `Stream` | | abstract: pieces of text are handled once, in order, one at a time |
| `Shell` | `CSE.c` | implements `Stream` |
| `Mailbox` | `prodcons.c` | two words, one action per load or store |
| `BoundedBuffer` | `pthread/producer_consumer.c` | one mutex and one condition for both sides |
| `Rendezvous` | `pthread/pthread.c` | wind-up of the workers, and their critical section |
| `SyncDirs` | `Assignment_09/code.c` | two trees; a kill between any two steps |
| `Programs` | | instances of the small programs and the tree sum, with their constants and properties |
| `ProgramsProofs` | | theorems about mailbox, bounded buffer, synchroniser, shell, rendezvous and tree sum |
| `MCPrograms` | | the programs of `Programs` and the barrier side by side: `subject` says which of them a behaviour is of |
| other `MC...` | | instances for TLC: client programs, graphs, reference strings, arrival files |

State variables keep the names of the C variables where there are such; `pc`, `ppc`,
`at`, `place`, ... are places in the code, named after what comes next. Operators
whose name ends in `_` and a word and whose comment starts with "Mutant" are plausible
errors; no specification uses them. They are there to show that a property can fail:
put in place of the operator they are named after, they make the property of the
mutant table in `PROJECT.json` false.

### How the code is cut into steps

* **System V semaphores.** A P operation is an entry and a grant. The kernel copies the
  sembuf at the entry (`op`, or `want` in `TreeSum`), so a store in the shared sembuf
  matters up to then and not after. Every library call stores -1 and 1 in `pop` and
  `vop` first; where only these values occur the two stores are one step.
* **foothread barrier.** `reached++` is a load and a store, since it is reset outside the
  mutex. The value of `vop` is the shared state that decides how many are released.
* **thread table.** It is read and written between P and V of `mutex_semaphore` only, so
  the work inside is one step each; `TableSound` says that this is sound.
* **tree sum.** The code of each thread is a sequence of steps, put together from those of
  its library calls; each kind of step is one action. `tid` (here `owner`) and `status` of
  the mutex are stored and checked one by one, as in `FooMutex`. `pop` and `vop` are shared
  by all of them, and `mixed` records that a `semop` has used a number meant for another.
  The loop that adds up the sums of the children is one step (`AddUp`): they are not written
  any more then, which is what `SumsRight` says.
* **topological sort.** Each of the semaphores of `sem_sync` and the row-wise filling of
  `A` is summed up in one step; `T[*idx] = i` and `(*idx)++` are three steps, so that a
  missing lock would show.
* **paging.** A message queue is a FIFO per type. A request is taken, looked up and
  answered in one step, because only the MMU touches the tables; what it does after the
  answer is a second step, because the process goes on. Time stamps, counters and
  listings are left out. The victim search is modelled as it is written: it compares
  the stamp of the faulting page with itself, so it takes the first valid entry among
  the first entries of the whole array, drops the entry of that number in the row of
  the faulting process (or number -1 if there is none), and returns the frame number
  the faulting entry had before.
* **session.** A critical section whose variables are used under its mutex only is one
  step. `current_X` is not such a variable: the assistant changes it under another
  mutex, so a visitor's test and its going to sleep are two steps, and the signal can
  come in between. `pthread_cond_signal` wakes any one sleeper. Spurious wake-ups are
  left out here: all waits are loops, and a program must not depend on them to go on.
* **job manager.** `fork`, `setpgid`, each store in the table, `kill` and `waitpid` are
  steps, and a Ctrl-C or Ctrl-Z may come between any two. A handler is one step unless the
  other one interrupts it between its test and its store (`Nested`); its own signal is
  blocked meanwhile. A job is `born` in the manager's group and with the manager's handlers
  and comes to `execl` (`Exec`) in its own time. Once it has, `setpgid` fails, nobody looks at
  the result, and the job stays in the group of the manager (`group`), which gets the signals
  of the terminal and of every `kill` with pid 0. Of the kernel, the model has these
  signals, what `waitpid` with `WUNTRACED` reports for a job or a group, that a stopped
  process keeps a SIGINT until it goes on, and that a stopped group whose parent has gone is
  hung up. Three histories mark the jobs for which the code has a window, and the properties
  except exactly these: `astray` (signalled before they were in the table, or stopped inside
  the handler of SIGINT), `missed` (a signal undone by the SIGCONT of `c`, or caught before
  `execl`), `roused` (woken by the SIGCONT for an entry without a pid).
* **shell.** `fgets` takes 98 characters at most, so a line is a sequence of pieces, each of
  which is a command, `swaprole` or `exit`. The buffer of `stdin` is state: it outlives the
  `dup2` that puts another file behind descriptor 0. The pipe is a sequence that a read
  takes as a whole.
* **mailbox.** Each load and store of the two words is a step; a polling loop is a guard.
* **bounded buffer, rendezvous.** Locking is a step of its own, and so are the parts of a
  critical section that something outside it can see. A wait may also return without a
  signal, a bounded number of times.
* **synchroniser.** A tree is a function from paths to `none`, a directory or a file with
  its data, so that what the recursion leaves open is a stack. A file at the destination is
  `stamped` if its size and time are those of the source's; that is all the program
  compares. Opening for writing, writing and setting the time are three steps, and
  removing a directory takes one step per entry. The calls that may fail: `opendir` of a
  directory to be removed, `unlink`, `rmdir` and `remove` (the program says so and goes on:
  `errors`), `mkdir`, `opendir`, `fopen` and `fwrite` (it ends), and, with nobody looking,
  `fread`, `fclose`, which writes the last block and with it all of a small file, and `utime`
  (`unnoticed`).

### Fairness

`FooMutex`, `FooBarrier`, `FooThread`, `TopoSort`: weak fairness for each thread or
process (the system's scheduler runs what can run) and strong fairness for a P
operation that waits (the kernel keeps the waiters of a semaphore in a queue). A client
of `FooMutex` that never unlocks serves nobody, so its liveness is stated under
fairness of the holder's unlocking as well. `JobManager`: weak fairness of the manager and
of the ends of the jobs; none of the user. `Paging`, `Session` and the small programs of
`MCPrograms` only assume that something that can run does, which weak fairness of each
process implies; steps of the user and of the environment (lines typed, kills, spurious
wake-ups) are not counted on. It is enough because the behaviours their liveness
properties speak of do not go round in circles.

`CHECK_DEADLOCK FALSE` is in all configurations: all these programs end, or stop when a
check calls `exit`, and their liveness properties say which ends are good ones.

## 3. Runs

| run | instance | shows |
|---|---|---|
| `mutex` | 3 threads, 2 mutexes; nested locks and wrong unlocks allowed | exclusion, only the holder signals, quiescent mutexes are unlocked, the invariant of the proofs; whoever asks gets the mutex, but for threads that wait for themselves and failed checks |
| `thread_join` | leader, 2 joinable threads one after the other, 2 detached ones, table of 3 | table, tokens and joins are right, entries of joined threads come back, all finish unless the table is full; the client satisfies the hypotheses of the proofs |
| `topo_graphs` | all acyclic graphs on 3 nodes | workers implement `TopoListing` with its liveness; the boss's verdict is right; the check agrees with the definition on listings without repetitions |
| `topo_early` | 2 nodes, workers that may start before the setup | the boss is last even when workers crash or find no semaphores |
| `paging` | 2 processes, 2 pages, 3 frames, 3 reference strings | see below |
| `session` | 20 arrival files of up to 7 visitors, quotas 3 and 1 | see below |
| `jobs` | a table of 2 jobs, with and without handlers at the start | see below |
| `programs` | 7 subjects, see below | barriers implement `PhaseBarrier`, shell implements `Stream`; mailbox, buffer, rendezvous, synchroniser and tree sum keep their promises; all that should end does |
| `mutex_unlock_error` | 2 correct threads | *violated*: a correct unlock can end the process |
| `barrier_tree` | 4 threads, the tree of `computesum.c` | *violated*: threads wait at a barrier for ever |
| `topo_verdict` | 2 nodes, early workers | *violated*: an invalid listing is reported as valid |
| `tree_sum` | a root and one leaf | *violated*: 0 is printed for a tree whose leaf holds 5 |

The last four check what a comment in the code says and find a behaviour of the code
that breaks it; `PROJECT.json` quotes the comments under "findings".

**Bounds.** Two threads are enough for each of the races found; three are needed for a
waiter that is overtaken and for a thread that runs a phase ahead of the last arriver
while another one is still inside. Two mutexes show that they share a semaphore. A
table of three slots is the smallest that is full with one detached thread too many
while joins still need it. Three nodes have chains, forks and joins of edges. Three
frames are fewer than the four pages two processes can have, so eviction happens, and
as many as the three pages of the instance that fits. In `session` several visitors of
one type wait at once, so that a signal may wake the wrong one; visitors come
before the doctor, at equal times, over the quota, during the last meeting and after
the session, and one file has too few of them. Two jobs are enough for an entry that is
suspended while another one is current, and for a table that is full.

The instances of `programs`: barriers with 3 threads and 3 phases, alternating
between 2 barriers, so that each is used a second time; the shell with 5 pieces
(`MAX_SENT`) in lines of one or two, enough for two swaps and a line that is split; the
mailbox with 2 consumers and 4 items; the buffer with 2 places, 4 items and 3 spurious
wake-ups; the rendezvous with 3 workers, one entry of the arrays that all want, and a turn
each; the synchroniser with two names at the root and one below the first of them, each a
file, a directory or nothing on either side, and 2 runs (`MAX_RUNS`), the first of which may
be killed anywhere; the tree sum with a root and a leaf (every tree in the proof). Two runs are enough because a
run starts from the trees alone: whatever several killed ones leave is an initial state.

**What `paging` shows.** As long as no process refers to page `m` of a row (see
`NoAlias`), no frame is given out twice, however pages are evicted and processes ended.
If all references are legal the scheduler ends the session only when all are done,
although it puts the wrong process back in its queue and schedules ended ones, because
it takes one note for each process it picks. It never waits in vain unless the MMU
crashed. With enough frames everything is returned and the session ends, but for a
master that gets the signal between its test of `flag` and its `pause`.

**What `session` shows.** The hand-off between assistant, doctor and visitor is safe:
flags are set one at a time, and the right visitor is in the chamber. Calls respect
arrival and priority. The program ends except in the two cases `EndsOrMisses` names.

**What `jobs` shows.** However the signals fall and whichever forks and calls of `setpgid`
fail, a job runs only while the manager starts or waits for it, unless it was left in the
manager's group and the SIGCONT for an entry without a pid has woken it (or it is the first
of `sub_mgr`, and a Ctrl-C ends the manager before it has handlers). The manager is never
stuck in `waitpid`. The table tells the truth about every job but those signalled before they
were entered, or stopped inside the handler of SIGINT, and those woken as above, which may
run while they are SUSPENDED. Signals reach the running job unless a Ctrl-Z came just before
its SIGCONT or a signal before its `execl`; those woken as above get them from the terminal.

**What `programs` shows.** The swap of roles in the shell loses nothing although the two
sides change at different times and input is buffered: the one who answers a `swaprole` has
nothing else coming. A consumer of the mailbox may read the previous item, never an older
one or another's turn. The one condition of the buffer is enough, since the two sides
never wait at once. A spurious wake-up lets a worker leave the rendezvous early; nothing
else does. A killed synchroniser, or one in which a failure went unnoticed, leaves nothing that
a later run takes for complete, because the time is set last and a file that is too short has
another size. In the tree sum mixed sembufs can make a barrier too strict
and a join too short, but a node never adds up a sum that is not there; and if they are not
mixed, `main` prints the sum of the tree.

### Behaviours of the code worth knowing that have no run of their own

* Initialising a foothread mutex while another is held frees the held one, since all are
  one semaphore (`foothread.c:250-256`). Locking one mutex inside another blocks for ever.
* The mutex semaphore of a barrier is opened by a V with a foreign `vop` if a last
  arriver's count is still in it (`foothread.c:347-364`).
* A leader that waits for several joinable threads can go on after the first of them
  (`foothread.c:220-221`); `FooThread`'s `AllFinish` and `JoinsCountKids` are checked for
  joins of one thread, and `tree_sum` shows what the short wait does.
* Entries of detached threads are never given back (`foothread.c:230-241`).
* The table mutex has a system-wide key (`foothread.c:62`): a second process that uses the
  library while the first one runs sets that one's semaphore back.
* `mmu.c:132` accepts a page number equal to the number of pages. In a process with `m`
  pages this is page 0 of the next process, and behind the array for the last one: its
  frame can be given back while used, and an entry without a frame put on the free list.
* `mmu.c:282-298` returns frame -1 to a page that had none before and marks it valid;
  the process takes the answer -1 for a page fault and asks for ever.
* With 23 pages or more an illegal reference can be to page 247, which arrives in a `char` as
  -9, the mark of `PROCESS_DONE` (`mmu.c:53`, `mmu.c:115`): the MMU gives the pages back and
  sends no answer, and the process waits for one for ever.
* An illegal reference is reported to the scheduler twice (`mmu.c:142`, `mmu.c:119`), so
  the session can end with processes that have not run.
* After a fault a process goes on at once; only its first reference waits for the
  scheduler (`proc.c:142`).
* A visitor in the session can miss its signal (`session.c:260`, `270`, `280`).
* Ctrl-C or Ctrl-Z at the first prompt of `mgr.c` marks entry 0, the manager itself; `c 0`
  then waits for no child and `k 0` kills the manager.
* The parent alone calls `setpgid` (`mgr.c:215`). If the child is at `execl` first, the call
  fails and the job stays in the manager's group. A later `c` for an entry with pid 0 (a
  failed fork, marked SUSPENDED by a Ctrl-Z at the prompt) does `kill(0, SIGCONT)`: the job
  runs while its own entry is SUSPENDED, and of two such jobs one goes on while the next
  command is read, since `waitpid(0, ...)` returns with the first.
* In `sub_mgr.c` the first job is in a group of its own from line 215 on, and the handlers come
  after that: a Ctrl-C in between ends the manager and leaves the job running.
* A signal that a handler of the manager passes on to a job that has not come to `execl` is
  caught there by the same handler (`mgr.c:212`): the job runs on, SUSPENDED or TERMINATED in
  the table, and the manager waits for its end.
* A fork that fails leaves an entry that is RUNNING with pid 0 (`mgr.c:239`): `q` kills the
  manager's own group at it, after the jobs before it and before those behind it.
* A signal between the fork and the stores of `mgr.c:222-224` stops or ends the new job
  while the handler has no pid for it; the job is then FINISHED in the table though it may
  be stopped, and `c`, `k` and `q` pass it over. The kernel hangs it up when the manager ends.
* A Ctrl-Z between the test and the store of the handler of SIGINT (`mgr.c:184-185`) leaves a
  job that is stopped and TERMINATED in the table; no command reaches it any more.
* A Ctrl-Z between `mgr.c:110` and the SIGCONT of line 115 is lost: the job runs on as
  SUSPENDED, and no later Ctrl-C or Ctrl-Z reaches it.
* A shell line with `swaprole` in its first 98 characters and more text behind them is
  executed by the one who typed it, since the rest is in his own buffer
  (`LinesAssumption` leaves such lines out).
* If a fork of `prodcons.c` fails, the consumers that exist poll for ever.
* `prodcons.c` writes the name of the consumer before the item (lines 103 and 110): the consumer
  can take the previous item once more and never see its own.
* `code.c:238` ignores the result of `fclose`: on a full disk every file of less than a block
  is left empty with the time of its source, and the program ends as if all was well. The
  sizes differ, so that a later run tries again.
* `code.c:145` reads a status that was not written if the item is not at the destination;
  what is done does not depend on it, but for an error message. Copying a file onto a
  directory that could not be removed ends the program (`code.c:220`).

## 4. Proofs

`FooMutexProofs`: for any threads and mutexes, if no mutex is initialised after the
first call (`Orderly`; otherwise the properties are false, see above):
`TypeCorrect`, `MutexExcludes`, `MutexesSerialised`, `UnlockByHolderOnly`,
`QuiescenceIsUnlocked`. None of them is inductive. `IInv` adds where in the code a holder can
be (`HolderPlaces`), that the sembufs and the copies the kernel took are -1 and 1
(`OpsStored`), that the shared semaphore is 1 exactly when nobody holds anything
(`HoldExcludes`), that no call precedes the setup (`SetUpFirst`), and what `tid` and
`status` may be although they are written late (`OwnerReal`, `StatusReal`). `TypeStep` and
`ConsistentStep` go through the actions one by one.
`Invariant` says that `IInv` is invariant.

`FooBarrierProofs`: for any team of threads and any plan, if all threads follow one plan,
every barrier of it is initialised with the size of the team, and the plan does not name
one barrier twice in a row (`Phased`): `TypeCorrect`, `CountingGuarded`, `BarriersReusable`,
together `Sound`, and `PhasesImplemented`, the refinement of `PhaseBarrier`. The first two
hypotheses say what a barrier is for; the third is what the code needs, since the last
arriver resets `reached` after it has let the others go (`foothread.c:347-364`), and an
arrival of the next phase at the same barrier may be wiped out. The
invariant says in which round k the team is (`InRound`): everybody has arrived at the first k
barriers and not everybody at the next, some are ahead (`Ahead`), some still behind
(`Behind`), one of them perhaps the last arriver with work left (`Last`). `CountsOK` ties
`reached` to the former and the tokens of the semaphore to the latter; `VopRight` says that
`vop` holds 1 when a mutex is about to be posted and the size of the team when the barrier is.

`FooThreadProofs`: `TableGuarded` for any scripts of creations and exits; `NoEntryLost`
if each creation makes a thread of its own (`Tree`: `clone` gives every thread an id of its
own); `JoinsExact` and `TableRight` if each thread also joins its joinable children one by one
and a joinable thread creates no joinable ones (`OneByOne`; with several at once the join
count may be used up early, see above). `Locking`
says that nobody takes a number of tokens from `mutex_semaphore` that is 0, whoever
stored last into `pop`, so that one thread at a time is at work on the table; the parts added
to it say which entry belongs to whom between the scan, the joins and the giving back.

`TopoSortProofs`: for every number of nodes and every graph. If the workers start after the
setup (`~EarlyStart`): `TypeCorrect`, `ListingGuarded`, `PrecedenceRespected` and
`ListingImplemented`, the safety part of the refinement of `TopoListing`; with no loops at a
node (`Loopless`; the generator makes acyclic graphs) `VerdictRight`. Without hypotheses:
`BossIsLast`, and `CheckDecides`, that `isTopologicalSortValid` accepts the topological
sorts, and nothing else among the listings without repetitions. The invariant has a part for the setup, one
for the places of the workers, mutual exclusion on `T` and `idx`, and an accounting of
tokens: the value of a semaphore plus the tokens taken from it equals the tokens posted to
it. The counts are cardinalities of sets of nodes, so that the facts about finite sets of the
library apply; that a worker that has taken as many tokens as it has predecessors has one
from each of them follows from the cardinality of a subset. `Ordered` adds that the
listing has workers that have written, each after its predecessors; `Heard` is what is left
of the accounting when workers start too early.

`PagingProofs`: for any numbers of processes and frames and any reference strings over at
most 22 pages: `AnsweredOnce`, `FramesGivenOnce`, `SchedulerRight`, `FramesComeBack`. (The generator of
references makes numbers below 11 m, and with 23 pages one of them is 247, which the MMU takes
for `PROCESS_DONE`; the process that asked is not answered, and the first property is false.)
The common part is `TalkInv`: a process waits for an answer exactly while it
has one request or one answer under way, and every request is for the page it has come to
(`Dialogue`). `FramesGivenOnce` adds `PagingInv`: an entry *owns* a frame while it is valid or
its process may still ask, and a frame has one owner or is free once (`OneOwner`). That is not
inductive without two facts about the odd victim search: while the MMU handles a fault the
process asks for the same page on (`FaultInv`), and a valid entry with frame -1 holds its
process up for ever (`Stuck`), so that the -1 is never given back. `SchedulerRight` adds
`NotesInv`: processes that have begun are as many as the ready queue, the note to come and
the ends counted (`Turns`), and the ends are under way to the MMU, to the
scheduler, or counted (`Ends`). `FramesComeBack` adds `ReturnInv`: free frames and valid
entries are f together, all valid entries are pages of some process, and one of a
process that has ended belongs to one whose message of its end the MMU has still to read
(`Returning`); it counts these messages (`Departed`). As all pages fit there is always a free
frame for the page that faulted, so that nothing is evicted: that is where the hypothesis
`Fits` is used.

`SessionProofs`: for any arrival files and quotas, from `SessionAssumption` alone:
`Invariant`, and from it `HandedOver` and `AllSeen`. `Baton` lists, for each place of the
assistant, where the doctor and the visitor called can be and which one of the four
flags is up; `Admitted` ties threads, numbers called and quotas to each other. How the heap
orders the events is not used in these.

`HeapRight` and `InOrder` are about the heap. A loop of `EventQueue` is a function defined
by recursion over all states the loop can be in (`Loop`). `LoopDefined` shows that such a
function exists when a number gets smaller with each round, and `LoopInduction` that what
holds at the end of the loop and passes from the next round to this one holds throughout; both
rest on `LeastNumber` and hold for every set of states, so no operator is passed to them. With
them `DownRight`, `UpRight` and `Inited` follow from one round each: in `Sinking` (`Rising`) all
entries but one are where they belong, and that one's parent does not go after its children.
`Swapping` and `Same` say that the rounds keep what is in the sequence, counted for any set of
events. From these `Added` and `Deleted` describe `addevent` and `delevent`. The invariant
`QInv` adds to the heap order that tokens and queued arrivals make up the arrival file and
the doctor's event is queued in the loop only (`Counted`), that visitors wait in the order of
their times and before all who are queued (`Lined`), that between the doctor's event and the
call all that is queued is later (`AllCome`; with equal times the doctor's event comes last,
and there is no second one), and that no thread sleeps on two conditions (`Slept`).

`JobManagerProofs`: for every size of the table, with or without the first installation of
the handlers, from `JobsAssumption` alone: `Invariant`, and from it `Foreground`,
`TableTells`, `SignalsFindJob` and `QuitCleansUp`. That the table is true at the prompt is not
inductive: between a job's end and the test of its status the entry says something
else, and a handler may store in it at any of these places. `IInv` therefore says for the
entry in hand what is true at each place (`Handled`) and for all others what holds for
good (`Settled`); it adds where the two indices agree (`IndicesOK`), that entries behind
`totalJobs` are untouched (`Unused`), which entries have a process (`PidsOK`), what the
job being started is (`Starting`), that an entry being continued is RUNNING unless it was
signalled (`Marked`), and that nothing has been waited for while there are no handlers
(`Unhandled`). About the groups it needs that a job before its `execl` is the one in hand and
in a group of its own when the manager waits for it (`Newborn`), so that a signal caught there
is the only one that can be lost; and, in `SignalsReachJob`, that who is woken by the
SIGCONT for another entry is in the manager's group.

`ProgramsProofs`, one section for each program:

* mailbox, any number of consumers and items: `ItemsCounted`. `BoxInv` says that the one
  whom `M0` names has one item more to read than he has counted, others none.
* bounded buffer, one producer and one consumer, any numbers of places, items and spurious
  wake-ups: `ItemsOnce`.
  `BufInv` says that a side that waits has reason to, or is about to be told (`Room`).
* synchroniser, any set of paths closed under parents and any contents: `TreesAgree` and the
  action property `AgreeingKept`. `SyncInv` says of every call on the stack that the entries
  it has dealt with agree from there downwards (`Progress`), and of the destination that
  what carries the source's size and time has its contents (`Stamped`). An entry dealt with may
  also be a file with an unnoticed failure in this run, as long as it looks different
  (`Resumable`).
* shell, any lines and any number of pieces: `RolesOpposite`, and `StreamImplemented`, the
  safety part of the refinement of `Stream`. `ShellInv` says that one process leads or that it
  answers a `swaprole` (`Leads`, `Answers`), and that what comes to the other one,
  first in its buffer, then in its `stdin`, then in the pipe, is numbered in one row
  after the piece handled last (`InOrder`). The hypothesis `LinesAssumption` says that a
  `swaprole` ends its line; otherwise the properties are false, see above.
* rendezvous, any numbers of workers, entries and turns: `TogetherLeft`. `RvInv` says that
  `wdone` is the number of workers that have left their loops, and how far the sums of `A`, `C`
  and the workers' counts are apart at each place of the critical section. The sums are folds;
  what changing one value does to a sum over any finite set (`SumChange`) is proved by
  induction over the subsets of that set. The library's induction theorems take an operator
  and cannot be used here, so the induction is done with sets instead: the numbers, or subsets,
  for which the claim fails have a least one (`AllNumbers`, `AllSubsets`).
* tree sum, any tree with any values: `TreeSummed`. The hypothesis `TreeAssumption` says that the
  input is a tree (one root, and heights that grow towards it). First the place of
  every kind of step in the threads' programs is worked out (`NodeCode`, `LeaderCode`,
  `OpIs`), so that a step is known by its number. `TsInv` says for each barrier that
  `reached`, and what a thread has loaded of it, is at most the number of
  threads that have stored in it (`Counting`), however many of them have been let into
  the critical section by a foreign `vop`. So a barrier opens only when all have stored, and a
  node is past its own only then (`Opened`); as its children store after their own sums, the
  sums are right (`Sums`). Foreign numbers can let more threads in, or fewer, but they
  cannot make an arrival count twice. Joining is different, since a foreign `pop` shortens it:
  as long as nothing is `mixed`, the leader's entry holds at most one signal of each node that
  has sent one, and the leader waits for all of them (`JoinsRight`). `Total` is
  recursive over the tree; that such a function exists is an induction over the heights
  (`TotalsExist`), and then `TotalIs` gives its equation.

`IInv` of `FooMutexProofs` and `JobManagerProofs` is checked by TLC in every run of `mutex`
and `jobs`. The other invariants were checked on the instances of §3 before they were
proved, and are not checked again since the proofs cover those instances as well.

Only model-checked, and why:

* liveness under fairness and ENABLED (`LockServedToOne`, `AllFinish`, `SessionEnds`,
  `EndsOrMisses`, `NobodyStuck`, `ProgramsEnd`, the fairness parts of `ImplementsListing` and
  `ImplementsStream`): the provers do not handle them.

So all invariants and all action properties of the passing runs are theorems, and of the
two refinements with fairness the safety part is. The properties of the four runs that end in
a violation are false.

## 5. Not modelled in the modelled parts

* `print_thread_table`, the attribute setters, `print_time`, listings, help and statistics.
* Failing system calls whose reaction is to print and exit, except where another process
  goes on without noticing (`TopoSort`'s failed attachments, the removed queues in `Paging`,
  the failing forks of `JobManager`, `Shell` and `Mailbox`, the failing calls of `SyncDirs`
  that §2 lists). Left out although others do go on: in `prodcons.c` a `shmat` that fails in a
  consumer (line 55, unchecked; it would crash) or in the producer (line 82; it exits while the
  consumers poll for ever), as after a failed fork.
* In `code.c`, `stat` and `readdir` that fail for another reason than that the item is not
  there (no access, for one): the program then takes it for missing and removes or copies its
  counterpart; and `malloc` that fails.
* More than one process using the thread library: its table mutex has a system-wide key.
* `exec` failures and SIGINT in `master.c`; the clean-up of `boss.c` on signals.
* More than 128 events in the heap; more than 250 reporters.
* Page numbers beyond 127, which need 12 pages or more (`Char` models the conversion).
* A Ctrl-Z that reaches `sub_mgr` before it has handlers: it stops the manager, and
  whoever continues it finds it where it was. An end of file at a prompt or a terminal.
* What the shell's commands do; two lines typed into one read of a pipe are modelled.
* The reading of the tree from its file in `computesum.c`; all leaves' values are given, and
  sums beyond the range of `int` are not considered.
* Permissions, owners and the printed reports of `code.c`; a source that changes meanwhile.
* Programs not modelled at all: `csum.c` (the tree sum over pthreads, without the shared
  sembufs), `barrier.c`, `mutex.c` and the other drafts of the library, the generators
  of inputs (`gengraph.c`, `gentree.c`, arrivals), the samples of single system calls, and
  the process tree of the first assignment, which is sequential.

## 6. Plan

Done: the thread library and its client, the topological sort, paging, the session, the
job manager, the shell, the mailbox, the synchroniser and the two pthread samples. What
would add most to this, in this order:

1. Abstract specifications still to be stated: a paging service ("every legal reference is
   answered once, with a frame nobody else has") for `Paging`; a priority server with
   quotas for `Session`.
2. When the sembufs of `TreeSum` cannot be mixed: for which trees and schedules the hypothesis
   `~mixed` of the printed sum holds.
3. Liveness of `TreeSum` for trees of more nodes, where barriers of several inner nodes
   interfere; the safety proof covers all trees.
