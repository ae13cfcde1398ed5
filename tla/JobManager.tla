----------------------------- MODULE JobManager -----------------------------
(***************************************************************************)
(* The job manager of Assignment_02 (mgr.c; sub_mgr.c is the same program  *)
(* without the first two calls of signal): the process table, the commands *)
(* r, c, k and q, and the two signal handlers, which can interrupt the     *)
(* main loop between any two of its stores.  Entry 0 of the table is the   *)
(* manager itself.  The jobs and what the kernel does with them are        *)
(* external: a job stops, goes on and ends as signals say, and ends by     *)
(* itself some time after it runs.                                         *)
(***************************************************************************)
EXTENDS Integers

CONSTANTS
    MAX_JOBS,
    InstallsFirst       \* TRUE for mgr.c, FALSE for sub_mgr.c, or both

ASSUME JobsAssumption == MAX_JOBS \in Nat \ {0} /\ InstallsFirst \subseteq BOOLEAN

Jobs == 1..MAX_JOBS
Entries == 0..MAX_JOBS

VARIABLES
    totalJobs, currentJobIndex,
    chosen,         \* chosenIndex, or the job that was just spawned
    status,         \* entry -> PT[entry].status
    pid,            \* entry -> PT[entry].pid is set; else it is 0
    pc,             \* the place of the manager
    handlers,       \* SIGINT and SIGTSTP have their handlers
    proc,           \* job -> state of its process
    interrupt,      \* the stopped jobs with a pending SIGINT
    group,          \* the jobs in the process group of the manager
    astray,         \* history: jobs signalled before they were in the table, or
                    \* stopped inside the handler of SIGINT
    missed,         \* history: jobs whose SIGTSTP was followed by the SIGCONT, or that
                    \* caught a signal of the handlers before they came to exec
    roused          \* history: jobs that the SIGCONT of an entry without a pid woke

table == <<totalJobs, currentJobIndex, status, pid>>
world == <<proc, interrupt>>
history == <<astray, missed, roused>>
vars == <<table, chosen, pc, handlers, world, group, history>>

Statuses == {"RUNNING", "FINISHED", "TERMINATED", "SUSPENDED", "KILLED"}
\* A job that is "born" has not come to exec: it catches SIGINT and SIGTSTP with the
\* handlers of the manager, which pass them on to its group, where they came from.
Running == {"born", "running"}
Alive == Running \cup {"stopped", "held"}
Halted == {"stopped", "held"}
Dead == {"zombie", "reaped"}
Places == {"prompt", "spawn", "forked", "grouped", "handled", "entered", "wait", "waited",
           "marked", "resume", "killing", "kwait", "left", "full", "killed"}
Spawning == {"spawn", "forked", "grouped", "handled", "entered"}
Gone == {"left", "full", "killed"}

Init ==
    /\ totalJobs = 0 /\ currentJobIndex = 0 /\ chosen = 0
    /\ status = [e \in Entries |-> "RUNNING"]
    /\ pid = [e \in Entries |-> e = 0]
    /\ pc = "prompt" /\ handlers \in InstallsFirst
    /\ proc = [j \in Jobs |-> "none"] /\ interrupt = {}
    /\ group = {} /\ astray = {} /\ missed = {} /\ roused = {}

-----------------------------------------------------------------------------
(* The kernel: what signals do to a process, what waitpid returns          *)

\* A stopped process ("held" once its parent knows) keeps a SIGINT for later.
Stop(J) ==
    /\ proc' = [j \in Jobs |-> IF j \in J /\ proc[j] = "running" THEN "stopped" ELSE proc[j]]
    /\ UNCHANGED interrupt

Interrupt(J) ==
    /\ proc' = [j \in Jobs |-> IF j \in J /\ proc[j] = "running" THEN "zombie" ELSE proc[j]]
    /\ interrupt' = interrupt \cup {j \in J : proc[j] \in Halted}

Resume(J) ==
    /\ proc' = [j \in Jobs |->
                   IF j \notin J \/ proc[j] \notin Halted THEN proc[j]
                   ELSE IF j \in interrupt THEN "zombie" ELSE "running"]
    /\ interrupt' = interrupt \ J

Slay(J) ==
    proc' = [j \in Jobs |-> IF j \in J /\ proc[j] \in Alive THEN "zombie" ELSE proc[j]]

\* SIGTSTP and SIGINT come from the terminal.
Signal(sig, J) == IF sig = "SIGTSTP" THEN Stop(J) ELSE Interrupt(J)

IsChild(e) == e # 0 /\ pid[e]

\* The jobs that kill and waitpid mean by PT[e].pid: entry 0 is the manager, which
\* is no child, and a pid that is 0 is the whole group of the manager.
Meant(e) == IF e = 0 THEN {} ELSE IF pid[e] THEN {e} ELSE group

\* waitpid(..., WUNTRACED) tells about one end or stop, and returns at once if there
\* is no child, or none left.
Waited(e) ==
    LET children == {j \in Meant(e) : proc[j] \in Alive \cup {"zombie"}}
    IN  \/ children = {} /\ UNCHANGED proc
        \/ \E j \in children :
              /\ proc[j] \in {"stopped", "zombie"}
              /\ proc' = [proc EXCEPT ![j] = IF @ = "stopped" THEN "held" ELSE "reaped"]

-----------------------------------------------------------------------------
(* r: a new job                                                            *)

Goto(from, to) == pc = from /\ pc' = to

NewJob ==
    /\ Goto("prompt", "spawn") /\ totalJobs < MAX_JOBS
    /\ totalJobs' = totalJobs + 1 /\ currentJobIndex' = totalJobs + 1
    /\ chosen' = totalJobs + 1
    /\ UNCHANGED <<status, pid, handlers, world, group, history>>

TableFull ==
    /\ Goto("prompt", "full") /\ totalJobs = MAX_JOBS
    /\ UNCHANGED <<table, chosen, handlers, world, group, history>>

Fork ==
    /\ Goto("spawn", "forked")
    /\ proc' = [proc EXCEPT ![currentJobIndex] = IF handlers THEN "born" ELSE "running"]
    /\ group' = group \cup {currentJobIndex}
    /\ UNCHANGED <<table, chosen, handlers, interrupt, history>>

\* The entry stays in the table as it is, with pid 0.
ForkFails ==
    /\ Goto("spawn", "prompt")
    /\ UNCHANGED <<table, chosen, handlers, world, group, history>>

\* The job gets a process group of its own, which the terminal does not reach, unless
\* it has come to execl before: setpgid fails then, and nobody looks at its result.
SetGroup ==
    /\ Goto("forked", "grouped")
    /\ \/ group' = group \ {currentJobIndex}
       \/ proc[currentJobIndex] # "born" /\ UNCHANGED group
    /\ UNCHANGED <<table, chosen, handlers, world, history>>

SetHandlers ==
    /\ Goto("grouped", "handled") /\ handlers' = TRUE
    /\ UNCHANGED <<table, chosen, world, group, history>>

StorePid ==
    /\ Goto("handled", "entered")
    /\ pid' = [pid EXCEPT ![currentJobIndex] = TRUE]
    /\ UNCHANGED <<totalJobs, currentJobIndex, status, chosen, handlers, world, group, history>>

\* Mutant: the new entry is left as it was.
StoreStatus_Not ==
    /\ Goto("entered", "wait")
    /\ UNCHANGED <<table, chosen, handlers, world, group, history>>

StoreStatus ==
    /\ Goto("entered", "wait")
    /\ status' = [status EXCEPT ![currentJobIndex] = "RUNNING"]
    /\ UNCHANGED <<totalJobs, currentJobIndex, pid, chosen, handlers, world, group, history>>

\* Mutant: the manager does not wait for the job (WNOHANG).
WaitReturns_NoHang ==
    /\ Goto("wait", "waited")
    /\ UNCHANGED <<table, chosen, handlers, world, group, history>>

\* Mutant: waitpid without WUNTRACED.
WaitReturns_EndOnly ==
    /\ Goto("wait", "waited") /\ (IsChild(chosen) => proc[chosen] \in Dead) /\ Waited(chosen)
    /\ UNCHANGED <<table, chosen, handlers, interrupt, group, history>>

WaitReturns ==
    /\ Goto("wait", "waited") /\ Waited(chosen)
    /\ UNCHANGED <<table, chosen, handlers, interrupt, group, history>>

\* Mutant: whatever the handlers stored, the job is finished.
Finish_Always ==
    /\ Goto("waited", "prompt")
    /\ status' = [status EXCEPT ![currentJobIndex] = "FINISHED"]
    /\ UNCHANGED <<totalJobs, currentJobIndex, pid, chosen, handlers, world, group, history>>

Finish ==
    /\ Goto("waited", "prompt")
    /\ status' = [status EXCEPT ![currentJobIndex] = IF @ = "RUNNING" THEN "FINISHED" ELSE @]
    /\ UNCHANGED <<totalJobs, currentJobIndex, pid, chosen, handlers, world, group, history>>

-----------------------------------------------------------------------------
(* c and k: go on with a suspended job, or kill it                         *)

Continue(e) ==
    /\ Goto("prompt", "marked") /\ e <= totalJobs /\ status[e] = "SUSPENDED"
    /\ chosen' = e
    /\ status' = [status EXCEPT ![e] = "RUNNING"]
    /\ UNCHANGED <<totalJobs, currentJobIndex, pid, handlers, world, group, history>>

SetCurrent ==
    /\ Goto("marked", "resume") /\ currentJobIndex' = chosen
    /\ UNCHANGED <<totalJobs, status, pid, chosen, handlers, world, group, history>>

SendCont ==
    /\ Goto("resume", "wait") /\ Resume(Meant(chosen))
    /\ roused' = IF IsChild(chosen) THEN roused
                 ELSE roused \cup {j \in Meant(chosen) : proc[j] \in Halted}
    /\ UNCHANGED <<table, chosen, handlers, group, astray, missed>>

\* kill(0, SIGKILL) and a kill of entry 0 reach the manager itself.
Kill(e) ==
    /\ e <= totalJobs /\ status[e] = "SUSPENDED"
    /\ chosen' = e
    /\ Goto("prompt", IF IsChild(e) THEN "killing" ELSE "killed") /\ Slay(Meant(e))
    /\ UNCHANGED <<table, handlers, interrupt, group, history>>

MarkKilled ==
    /\ Goto("killing", "kwait")
    /\ status' = [status EXCEPT ![chosen] = "KILLED"]
    /\ UNCHANGED <<totalJobs, currentJobIndex, pid, chosen, handlers, world, group, history>>

KillWaited ==
    /\ Goto("kwait", "prompt") /\ Waited(chosen)
    /\ UNCHANGED <<table, chosen, handlers, interrupt, group, history>>

-----------------------------------------------------------------------------
(* q: kill what runs or is suspended                                       *)

\* Mutant: the last job is forgotten.
ToKill_OffByOne ==
    {j \in Jobs : j < totalJobs /\ status[j] \in {"RUNNING", "SUSPENDED"}}

ToKill ==
    {j \in Jobs : j <= totalJobs /\ status[j] \in {"RUNNING", "SUSPENDED"}}

\* An entry with pid 0 makes the manager kill itself in the middle of its loop.
Quit ==
    LET nobody == {j \in ToKill : ~pid[j]}
        reached == {j \in ToKill : \A n \in nobody : j < n}
    IN  /\ Goto("prompt", IF nobody = {} THEN "left" ELSE "killed")
        /\ Slay(IF nobody = {} THEN reached ELSE reached \cup group)
        /\ UNCHANGED <<table, chosen, handlers, interrupt, group, history>>

-----------------------------------------------------------------------------
(* Signals from the terminal                                               *)

\* Mutant: the handlers do not look at the status.
Catches_Always == TRUE

\* The test of both handlers.
Catches == status[currentJobIndex] = "RUNNING"

\* What they store.
Store(sig) ==
    status' = IF ~Catches THEN status
              ELSE [status EXCEPT ![currentJobIndex] =
                       IF sig = "SIGINT" THEN "TERMINATED" ELSE "SUSPENDED"]

\* Who gets a signal of the terminal: the group of the manager, and by the kill of
\* its handler the current job.  (If the pid there is 0 the kill is for the group once
\* more, and in entry 0 for the manager, whose handlers find nothing to do then.)
Reached == IF Catches /\ IsChild(currentJobIndex) THEN group \cup {currentJobIndex} ELSE group

\* A history: a signal that the SIGCONT undoes, or that a newborn job catches.
Misses == pc \in {"marked", "resume"} \/ (pc = "wait" /\ chosen # 0 /\ proc[chosen] = "born")

Terminal(sig) ==
    /\ pc \notin Gone /\ handlers
    /\ astray' = IF pc \in Spawning THEN astray \cup {currentJobIndex} ELSE astray
    /\ missed' = IF Misses THEN missed \cup {chosen} ELSE missed
    /\ Store(sig) /\ Signal(sig, Reached)
    /\ UNCHANGED <<totalJobs, currentJobIndex, pid, chosen, pc, handlers, group, roused>>

\* One handler interrupts the other between its test and its store: the job gets
\* both signals, and the entry what the interrupted handler stores, whose signal
\* is the later one; in the group of the manager the terminal's own come first, in
\* their order.  (Without a process this is no more than one signal does.)
Nested(sig) ==
    LET halts == {j \in Reached : proc[j] = "running" /\ (j \in group <=> sig = "SIGTSTP")}
    IN  /\ pc \notin Gone /\ handlers /\ Catches /\ IsChild(currentJobIndex)
        /\ Store(sig)
        /\ proc' = [j \in Jobs |->
                      IF j \in halts THEN "stopped"
                      ELSE IF j \in Reached /\ proc[j] = "running" THEN "zombie" ELSE proc[j]]
        /\ interrupt' = interrupt \cup halts \cup {j \in Reached : proc[j] \in Halted}
        /\ astray' = IF pc \in Spawning \/ (sig = "SIGINT" /\ currentJobIndex \in halts)
                     THEN astray \cup {currentJobIndex} ELSE astray
        /\ missed' = IF Misses THEN missed \cup {chosen} ELSE missed
        /\ UNCHANGED <<totalJobs, currentJobIndex, pid, chosen, pc, handlers, group, roused>>

\* Without handlers SIGINT ends the manager, with the jobs in its group.
DefaultInterrupt ==
    /\ pc \notin Gone /\ ~handlers
    /\ pc' = "killed" /\ Interrupt(group)
    /\ UNCHANGED <<table, chosen, handlers, group, history>>

-----------------------------------------------------------------------------
(* The jobs                                                                *)

\* From here on a signal does what it does by default.
Exec(j) ==
    /\ proc[j] = "born"
    /\ proc' = [proc EXCEPT ![j] = "running"]
    /\ UNCHANGED <<table, chosen, pc, handlers, interrupt, group, history>>

Ends(j) ==
    /\ proc[j] \in Running
    /\ proc' = [proc EXCEPT ![j] = "zombie"]
    /\ UNCHANGED <<table, chosen, pc, handlers, interrupt, group, history>>

\* A stopped group whose parent has gone is orphaned: the kernel hangs it up.
HangUp(j) ==
    /\ pc \in Gone /\ proc[j] \in Halted
    /\ proc' = [proc EXCEPT ![j] = "reaped"]
    /\ UNCHANGED <<table, chosen, pc, handlers, interrupt, group, history>>

-----------------------------------------------------------------------------

Manager ==
    \/ Fork \/ ForkFails \/ SetGroup \/ SetHandlers \/ StorePid \/ StoreStatus \/ WaitReturns \/ Finish
    \/ SetCurrent \/ SendCont \/ MarkKilled \/ KillWaited

User ==
    \/ NewJob \/ TableFull \/ Quit \/ DefaultInterrupt
    \/ \E e \in Entries : Continue(e) \/ Kill(e)
    \/ \E sig \in {"SIGINT", "SIGTSTP"} : Terminal(sig) \/ Nested(sig)

Next == Manager \/ User \/ \E j \in Jobs : Exec(j) \/ Ends(j) \/ HangUp(j)

Spec == Init /\ [][Next]_vars

\* The manager and the jobs run when they can; the user does what he likes.
FairSpec == Spec /\ WF_vars(Manager) /\ \A j \in Jobs : WF_vars(Ends(j)) /\ WF_vars(HangUp(j))

-----------------------------------------------------------------------------
(* Properties                                                              *)

TypeOK ==
    /\ totalJobs \in Entries /\ currentJobIndex \in Entries /\ chosen \in Entries
    /\ status \in [Entries -> Statuses] /\ pid \in [Entries -> BOOLEAN]
    /\ pc \in Places /\ handlers \in BOOLEAN
    /\ proc \in [Jobs -> {"none"} \cup Alive \cup Dead] /\ interrupt \subseteq Jobs
    /\ group \subseteq Jobs
    /\ astray \subseteq Jobs /\ missed \subseteq Entries /\ roused \subseteq Jobs

\* A job runs only while the manager starts it or waits for it: one at a time,
\* none while a command is read, and none when the manager has gone, whenever
\* the signals come, whichever forks fail, and even if the manager kills itself.
\* The exceptions are the jobs that the SIGCONT for an entry without a pid has woken,
\* and the first job of sub_mgr if SIGINT comes before the handler (sub_mgr.c:215).
ForegroundOnly ==
    \A j \in Jobs \ roused : proc[j] \in Running =>
        /\ j = currentJobIndex /\ j = chosen
        /\ pc \in {"forked", "grouped", "handled", "entered", "wait"} \/ (pc = "killed" /\ ~handlers)

\* While commands are read, the table says the truth about a job that has not
\* gone astray: one that is FINISHED, TERMINATED or KILLED is dead, one that is
\* SUSPENDED does not run unless it was woken, and none is RUNNING (mgr.c:120).
StatusTrue ==
    pc \in {"prompt", "left", "full"} => \A j \in Jobs \ astray : pid[j] =>
        \/ status[j] \in {"FINISHED", "TERMINATED", "KILLED"} /\ proc[j] \in Dead
        \/ status[j] = "SUSPENDED" /\ (proc[j] \notin Running \/ j \in roused)

\* While the manager waits for a job that runs, the job is RUNNING in the table,
\* so that the handlers pass signals on to it (mgr.c:184, 194).  The exceptions
\* are the jobs with a stop signal between mgr.c:110 and the SIGCONT of 115, those that
\* got one between waitpid and their own exec (mgr.c:212), and those that the SIGCONT
\* for another entry has woken, but the terminal reaches these.
SignalsReachJob ==
    /\ roused \subseteq group
    /\ pc = "wait" => \A j \in Jobs \ (missed \cup roused) :
          proc[j] \in Running => status[j] = "RUNNING" /\ pid[j] /\ currentJobIndex = j

\* mgr.c:265: q leaves no job alive, unless one has gone astray; it is then
\* FINISHED or TERMINATED in the table though it may be stopped.
CleanedUp ==
    pc = "left" => \A j \in Jobs \ astray : proc[j] \in Dead \cup {"none"}

\* The manager is never stuck in waitpid (it waits for nothing that is already
\* reported), and when it is gone no stopped job stays behind.
NobodyStuck ==
    /\ pc \in {"wait", "kwait"} ~> pc \notin {"wait", "kwait"}
    /\ \A j \in Jobs : pc \in Gone ~> proc[j] \in Dead \cup {"none"}

=============================================================================
