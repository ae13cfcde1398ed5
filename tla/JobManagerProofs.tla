-------------------------- MODULE JobManagerProofs --------------------------
(***************************************************************************)
(* Theorems about JobManager for every size of the table, and the          *)
(* invariant they rest on.                                                 *)
(***************************************************************************)
EXTENDS JobManager, TLAPS

Final == {"FINISHED", "TERMINATED", "KILLED"}

\* The entry that the main loop is about to change.
InHand(j) ==
    j = chosen /\ pc \in {"entered", "wait", "waited", "marked", "resume", "killing"}

\* What the table says of it, whatever the handlers have stored meanwhile.
Handled(j) ==
    /\ status[j] \in {"RUNNING", "TERMINATED", "SUSPENDED"}
    /\ pc = "entered" => status[j] = "RUNNING"
    /\ pc = "killing" => status[j] = "SUSPENDED" /\ proc[j] \in Dead
    /\ status[j] = "RUNNING" /\ pc = "wait" => proc[j] \in Running \cup Dead
    /\ status[j] = "RUNNING" /\ pc = "waited" => proc[j] \in Dead
    /\ status[j] = "TERMINATED" =>
          \/ proc[j] \in Dead
          \/ pc \in {"marked", "resume"} /\ j \in interrupt /\ proc[j] \in Halted
          \/ pc = "wait" /\ j \in missed \ group /\ proc[j] \in Running

\* What it says of the others.
Settled(j) ==
    \/ status[j] \in Final /\ proc[j] \in Dead
    \/ status[j] = "SUSPENDED" /\ (proc[j] \notin Running \/ j \in roused)

TableTrue ==
    pc # "killed" => \A j \in Jobs \ astray :
        pid[j] => IF InHand(j) THEN Handled(j) ELSE Settled(j)

\* The current job and the chosen one.
IndicesOK ==
    /\ currentJobIndex <= totalJobs /\ chosen <= totalJobs
    /\ pc \in Spawning \cup {"wait", "waited", "resume"} => currentJobIndex = chosen
    /\ pc \in Spawning => chosen # 0
    /\ pc \in {"killing", "kwait"} => IsChild(chosen)

\* Entries that were never used.
Unused ==
    \A j \in Jobs : j > totalJobs =>
        /\ ~pid[j] /\ proc[j] = "none" /\ status[j] = "RUNNING"
        /\ j \notin astray /\ j \notin group

\* An entry with a pid has a process, one without has none unless it is being
\* started (or was, when a SIGINT ended the manager), and who is woken has one.
PidsOK ==
    /\ \A j \in Jobs : pid[j] => proc[j] # "none"
    /\ \A j \in Jobs :
          \/ pid[j] \/ proc[j] \in {"none"} \cup Dead
          \/ j = chosen /\ (pc \in {"forked", "grouped", "handled"} \/ (pc = "killed" /\ ~handlers))
    /\ \A j \in roused : pid[j]

\* The job that is being started.
Starting ==
    /\ pc = "spawn" => ~pid[chosen] /\ proc[chosen] = "none"
    /\ pc \in {"forked", "grouped", "handled"} => ~pid[chosen] /\ proc[chosen] # "none"
    /\ pc = "entered" => pid[chosen]
    /\ pc \in Spawning /\ chosen \notin astray =>
          /\ status[chosen] = "RUNNING"
          /\ pc # "spawn" => proc[chosen] \in Running \cup {"zombie"}

\* A job that has not come to exec is in its own group when the manager waits for it.
Newborn ==
    \A j \in Jobs : proc[j] = "born" =>
        /\ handlers /\ j = chosen
        /\ pc \in {"forked", "grouped", "handled", "entered", "wait"}
        /\ pc # "forked" => j \notin group

Marked ==
    pc \in {"marked", "resume"} /\ chosen \in Jobs \ missed => status[chosen] = "RUNNING"

\* Before the handlers are there no job has ever been waited for.
Unhandled ==
    ~handlers =>
        /\ astray = {} /\ roused = {}
        /\ pc \in {"prompt", "spawn", "forked", "grouped"} \cup Gone
        /\ \A e \in Entries : status[e] = "RUNNING"

IInv ==
    /\ TypeOK /\ IndicesOK /\ Unused /\ PidsOK /\ Starting /\ Newborn /\ Marked /\ Unhandled
    /\ TableTrue /\ ForegroundOnly /\ SignalsReachJob /\ CleanedUp

-----------------------------------------------------------------------------

USE JobsAssumption DEF Jobs, Entries, Statuses, Running, Alive, Halted, Dead, Places, Spawning, Gone

\* The table is true at the start: entry 0 only is in use.
LEMMA InvInit == Init => IInv
<1> SUFFICES ASSUME Init PROVE IInv
  OBVIOUS
<1>1. TypeOK
  BY DEF Init, TypeOK
<1>2. \A j \in Jobs : ~pid[j]
  <2> TAKE j \in Jobs
  <2>1. j \in Entries /\ j # 0
    BY JobsAssumption
  <2>2. pid[j] = (j = 0)
    BY <2>1 DEF Init
  <2> QED
    BY <2>1, <2>2
<1>4. IndicesOK /\ Starting /\ Newborn /\ Marked /\ Unhandled
  BY DEF Init, IndicesOK, Starting, Newborn, Marked, Unhandled
<1>6. \A j \in Jobs :
        /\ proc[j] = "none" /\ status[j] = "RUNNING"
        /\ j \notin astray /\ j \notin group /\ j \notin roused
  BY JobsAssumption DEF Init
<1>7. Unused /\ PidsOK
  BY <1>2, <1>6 DEF Init, Unused, PidsOK
<1>5. TableTrue
  BY <1>2 DEF TableTrue
<1>3. ForegroundOnly /\ SignalsReachJob /\ CleanedUp
  BY DEF Init, ForegroundOnly, SignalsReachJob, CleanedUp
<1> QED
  BY <1>1, <1>3, <1>4, <1>5, <1>7 DEF IInv

\* Signals and waits are for jobs.
LEMMA MeantJobs ==
  ASSUME TypeOK, NEW e \in Entries
  PROVE  Meant(e) \subseteq Jobs /\ (IsChild(e) => e \in Jobs /\ Meant(e) = {e})
<1>1. (e # 0) => e \in Jobs
  OBVIOUS
<1>2. group \subseteq Jobs
  BY DEF TypeOK
<1> QED
  BY <1>1, <1>2, Zenon DEF Meant, IsChild

\* No step takes a variable out of its set: the entry that is written exists.
LEMMA TypeStep == TypeOK /\ IndicesOK /\ [Next]_vars => TypeOK'
<1> SUFFICES ASSUME TypeOK, IndicesOK, [Next]_vars PROVE TypeOK'
  OBVIOUS
<1> USE DEF TypeOK, table, world, history, Goto
<1>1. CASE NewJob
  BY <1>1 DEF NewJob, IndicesOK
<1>2. CASE TableFull
  BY <1>2 DEF TableFull
<1>3. CASE Fork
  BY <1>3 DEF Fork, IndicesOK
<1>4. CASE ForkFails
  BY <1>4 DEF ForkFails
<1>5. CASE SetGroup
  BY <1>5 DEF SetGroup
<1>23. CASE SetHandlers
  BY <1>23 DEF SetHandlers
<1>6. CASE StorePid
  BY <1>6 DEF StorePid, IndicesOK
<1>7. CASE StoreStatus
  BY <1>7 DEF StoreStatus, IndicesOK
<1>8. CASE WaitReturns
  BY <1>8 DEF WaitReturns, Waited, Meant
<1>9. CASE Finish
  BY <1>9 DEF Finish, IndicesOK
<1>10. CASE SetCurrent
  BY <1>10 DEF SetCurrent
<1>11. CASE SendCont
  BY <1>11, MeantJobs DEF SendCont, Resume
<1>12. CASE MarkKilled
  BY <1>12 DEF MarkKilled
<1>13. CASE KillWaited
  BY <1>13 DEF KillWaited, Waited, Meant
<1>14. CASE Quit
  BY <1>14 DEF Quit, Slay
<1>15. CASE DefaultInterrupt
  BY <1>15 DEF DefaultInterrupt, Interrupt
<1>16. ASSUME NEW e \in Entries, Continue(e) PROVE TypeOK'
  BY <1>16 DEF Continue
<1>17. ASSUME NEW e \in Entries, Kill(e) PROVE TypeOK'
  BY <1>17 DEF Kill, Slay
<1>18. ASSUME NEW sig \in {"SIGINT", "SIGTSTP"}, Terminal(sig) PROVE TypeOK'
  <2>1. status' \in [Entries -> Statuses]
    BY <1>18 DEF Terminal, Store
  <2>2. Reached \subseteq Jobs
    BY DEF Reached, IsChild
  <2>3. /\ proc' \in [Jobs -> {"none"} \cup Alive \cup Dead]
        /\ interrupt' \subseteq Jobs
    BY <1>18, <2>2 DEF Terminal, Signal, Stop, Interrupt
  <2>4. astray' \subseteq Jobs /\ missed' \subseteq Entries
    BY <1>18 DEF Terminal, Misses, IndicesOK
  <2> QED
    BY <1>18, <2>1, <2>3, <2>4 DEF Terminal
<1>19. ASSUME NEW j \in Jobs, Ends(j) PROVE TypeOK'
  BY <1>19 DEF Ends
<1>24. ASSUME NEW j \in Jobs, Exec(j) PROVE TypeOK'
  BY <1>24 DEF Exec
<1>20. ASSUME NEW j \in Jobs, HangUp(j) PROVE TypeOK'
  BY <1>20 DEF HangUp
<1>21. ASSUME NEW sig \in {"SIGINT", "SIGTSTP"}, Nested(sig) PROVE TypeOK'
  <2>1. status' \in [Entries -> Statuses]
    BY <1>21 DEF Nested, Store
  <2>2. currentJobIndex \in Jobs /\ Reached \subseteq Jobs
    BY <1>21 DEF Nested, Reached, IsChild
  <2> QED
    BY <1>21, <2>1, <2>2 DEF Nested
<1>22. CASE UNCHANGED vars
  BY <1>22 DEF vars
<1> QED
  BY <1>1, <1>2, <1>3, <1>4, <1>5, <1>6, <1>7, <1>8, <1>9, <1>10, <1>11, <1>12, <1>13, <1>14, <1>15, <1>16, <1>17, <1>18, <1>19, <1>20, <1>21, <1>22, <1>23, <1>24 DEF Next, Manager, User

\* Each step, of the main loop, of a handler or of a job, keeps the table true.
LEMMA ConsistentStep == IInv /\ TypeOK' /\ [Next]_vars => IInv'
<1> SUFFICES ASSUME IInv, TypeOK', [Next]_vars PROVE IInv'
  OBVIOUS
<1> USE DEF IInv, TypeOK, table, world, history, Goto, IsChild
<1> DEFINE Shape == IndicesOK /\ Unused /\ PidsOK /\ Starting /\ Newborn /\ Marked /\ Unhandled
<1> DEFINE Promises == ForegroundOnly /\ SignalsReachJob /\ CleanedUp
<1> DEFINE Kept == Shape' /\ TableTrue' /\ Promises'
<1>1. ASSUME NewJob PROVE Kept
  <2>1. Shape'
    BY <1>1 DEF NewJob, IndicesOK, Unused, PidsOK, Starting, Newborn, Marked, Unhandled
  <2>2. TableTrue'
    BY <1>1 DEF NewJob, TableTrue, InHand, Handled, Settled, Final, ForegroundOnly,
           IndicesOK, Unused, PidsOK, Starting, Newborn, Marked, Unhandled
  <2>3. Promises'
    BY <1>1 DEF NewJob, ForegroundOnly, SignalsReachJob, CleanedUp,
           TableTrue, InHand, Handled, Settled, Final, IndicesOK, Unused, PidsOK, Starting, Newborn, Marked, Unhandled
  <2> QED
    BY <2>1, <2>2, <2>3
<1>2. ASSUME TableFull PROVE Kept
  <2>1. Shape'
    BY <1>2 DEF TableFull, IndicesOK, Unused, PidsOK, Starting, Newborn, Marked, Unhandled
  <2>2. TableTrue'
    BY <1>2 DEF TableFull, TableTrue, InHand, Handled, Settled, Final, ForegroundOnly,
           IndicesOK, Unused, PidsOK, Starting, Newborn, Marked, Unhandled
  <2>3. Promises'
    BY <1>2 DEF TableFull, ForegroundOnly, SignalsReachJob, CleanedUp,
           TableTrue, InHand, Handled, Settled, Final, IndicesOK, Unused, PidsOK, Starting, Newborn, Marked, Unhandled
  <2> QED
    BY <2>1, <2>2, <2>3
<1>3. ASSUME Fork PROVE Kept
  <2>1. Shape'
    BY <1>3 DEF Fork, IndicesOK, Unused, PidsOK, Starting, Newborn, Marked, Unhandled
  <2>2. TableTrue'
    BY <1>3 DEF Fork, TableTrue, InHand, Handled, Settled, Final, ForegroundOnly,
           IndicesOK, Unused, PidsOK, Starting, Newborn, Marked, Unhandled
  <2>3. Promises'
    BY <1>3 DEF Fork, ForegroundOnly, SignalsReachJob, CleanedUp,
           TableTrue, InHand, Handled, Settled, Final, IndicesOK, Unused, PidsOK, Starting, Newborn, Marked, Unhandled
  <2> QED
    BY <2>1, <2>2, <2>3
<1>4. ASSUME ForkFails PROVE Kept
  <2>1. Shape'
    BY <1>4 DEF ForkFails, IndicesOK, Unused, PidsOK, Starting, Newborn, Marked, Unhandled
  <2>2. TableTrue'
    BY <1>4 DEF ForkFails, TableTrue, InHand, Handled, Settled, Final, ForegroundOnly,
           IndicesOK, Unused, PidsOK, Starting, Newborn, Marked, Unhandled
  <2>3. Promises'
    BY <1>4 DEF ForkFails, ForegroundOnly, SignalsReachJob, CleanedUp,
           TableTrue, InHand, Handled, Settled, Final, IndicesOK, Unused, PidsOK, Starting, Newborn, Marked, Unhandled
  <2> QED
    BY <2>1, <2>2, <2>3
<1>5. ASSUME SetGroup PROVE Kept
  <2>1. Shape'
    BY <1>5 DEF SetGroup, IndicesOK, Unused, PidsOK, Starting, Newborn, Marked, Unhandled
  <2>2. TableTrue'
    BY <1>5 DEF SetGroup, TableTrue, InHand, Handled, Settled, Final, ForegroundOnly,
           IndicesOK, Unused, PidsOK, Starting, Newborn, Marked, Unhandled
  <2>3. Promises'
    BY <1>5 DEF SetGroup, ForegroundOnly, SignalsReachJob, CleanedUp,
           TableTrue, InHand, Handled, Settled, Final, IndicesOK, Unused, PidsOK, Starting, Newborn, Marked, Unhandled
  <2> QED
    BY <2>1, <2>2, <2>3
<1>24. ASSUME SetHandlers PROVE Kept
  <2>1. Shape'
    BY <1>24 DEF SetHandlers, IndicesOK, Unused, PidsOK, Starting, Newborn, Marked, Unhandled
  <2>2. TableTrue'
    BY <1>24 DEF SetHandlers, TableTrue, InHand, Handled, Settled, Final, ForegroundOnly,
           IndicesOK, Unused, PidsOK, Starting, Newborn, Marked, Unhandled
  <2>3. Promises'
    BY <1>24 DEF SetHandlers, ForegroundOnly, SignalsReachJob, CleanedUp,
           TableTrue, InHand, Handled, Settled, Final, IndicesOK, Unused, PidsOK, Starting, Newborn, Marked, Unhandled
  <2> QED
    BY <2>1, <2>2, <2>3
<1>6. ASSUME StorePid PROVE Kept
  <2>1. Shape'
    BY <1>6 DEF StorePid, IndicesOK, Unused, PidsOK, Starting, Newborn, Marked, Unhandled
  <2>2. TableTrue'
    BY <1>6 DEF StorePid, TableTrue, InHand, Handled, Settled, Final, ForegroundOnly,
           IndicesOK, Unused, PidsOK, Starting, Newborn, Marked, Unhandled
  <2>3. Promises'
    BY <1>6 DEF StorePid, ForegroundOnly, SignalsReachJob, CleanedUp,
           TableTrue, InHand, Handled, Settled, Final, IndicesOK, Unused, PidsOK, Starting, Newborn, Marked, Unhandled
  <2> QED
    BY <2>1, <2>2, <2>3
<1>7. ASSUME StoreStatus PROVE Kept
  <2>1. Shape'
    BY <1>7 DEF StoreStatus, IndicesOK, Unused, PidsOK, Starting, Newborn, Marked, Unhandled
  <2>2. TableTrue'
    BY <1>7 DEF StoreStatus, TableTrue, InHand, Handled, Settled, Final, ForegroundOnly,
           IndicesOK, Unused, PidsOK, Starting, Newborn, Marked, Unhandled
  <2>3. Promises'
    BY <1>7 DEF StoreStatus, ForegroundOnly, SignalsReachJob, CleanedUp,
           TableTrue, InHand, Handled, Settled, Final, IndicesOK, Unused, PidsOK, Starting, Newborn, Marked, Unhandled
  <2> QED
    BY <2>1, <2>2, <2>3
<1>8. ASSUME WaitReturns PROVE Kept
  <2>1. Shape'
    <3>1. ASSUME NEW j \in Jobs, proc[j] = "born" PROVE FALSE
      <4>1. chosen = j /\ pid[j] /\ chosen # 0
        BY <1>8, <3>1 DEF WaitReturns, PidsOK, Newborn
      <4>2. Meant(chosen) = {j}
        BY <4>1 DEF Meant
      <4> QED
        BY <1>8, <3>1, <4>1, <4>2 DEF WaitReturns, Waited
    <3>2. Newborn'
      <4>1. \A j \in Jobs : proc[j] # "born" => proc'[j] # "born"
        BY <1>8 DEF WaitReturns, Waited, Meant
      <4> QED
        BY <3>1, <4>1 DEF Newborn
    <3>3. (IndicesOK /\ Unused /\ PidsOK /\ Starting /\ Marked /\ Unhandled)'
      BY <1>8 DEF WaitReturns, Waited, Meant, IndicesOK, Unused, PidsOK, Starting, Marked, Unhandled
    <3> QED
      BY <3>2, <3>3
  <2>2. TableTrue'
    BY <1>8 DEF WaitReturns, Waited, Meant, TableTrue, InHand, Handled, Settled, Final, ForegroundOnly,
           IndicesOK, Unused, PidsOK, Starting, Newborn, Marked, Unhandled
  <2>3. Promises'
    BY <1>8 DEF WaitReturns, Waited, Meant, ForegroundOnly, SignalsReachJob, CleanedUp,
           TableTrue, InHand, Handled, Settled, Final, IndicesOK, Unused, PidsOK, Starting, Newborn, Marked, Unhandled
  <2> QED
    BY <2>1, <2>2, <2>3
<1>9. ASSUME Finish PROVE Kept
  <2>1. Shape'
    BY <1>9 DEF Finish, IndicesOK, Unused, PidsOK, Starting, Newborn, Marked, Unhandled
  <2>2. TableTrue'
    BY <1>9 DEF Finish, TableTrue, InHand, Handled, Settled, Final, ForegroundOnly,
           IndicesOK, Unused, PidsOK, Starting, Newborn, Marked, Unhandled
  <2>3. Promises'
    BY <1>9 DEF Finish, ForegroundOnly, SignalsReachJob, CleanedUp,
           TableTrue, InHand, Handled, Settled, Final, IndicesOK, Unused, PidsOK, Starting, Newborn, Marked, Unhandled
  <2> QED
    BY <2>1, <2>2, <2>3
<1>10. ASSUME SetCurrent PROVE Kept
  <2>1. Shape'
    BY <1>10 DEF SetCurrent, IndicesOK, Unused, PidsOK, Starting, Newborn, Marked, Unhandled
  <2>2. TableTrue'
    BY <1>10 DEF SetCurrent, TableTrue, InHand, Handled, Settled, Final, ForegroundOnly,
           IndicesOK, Unused, PidsOK, Starting, Newborn, Marked, Unhandled
  <2>3. Promises'
    BY <1>10 DEF SetCurrent, ForegroundOnly, SignalsReachJob, CleanedUp,
           TableTrue, InHand, Handled, Settled, Final, IndicesOK, Unused, PidsOK, Starting, Newborn, Marked, Unhandled
  <2> QED
    BY <2>1, <2>2, <2>3
<1>11. ASSUME SendCont PROVE Kept
  <2>1. Shape'
    BY <1>11 DEF SendCont, Resume, Meant, IndicesOK, Unused, PidsOK, Starting, Newborn, Marked, Unhandled
  <2>2. TableTrue'
    BY <1>11 DEF SendCont, Resume, Meant, TableTrue, InHand, Handled, Settled, Final, ForegroundOnly,
           IndicesOK, Unused, PidsOK, Starting, Newborn, Marked, Unhandled
  <2>3. Promises'
    BY <1>11 DEF SendCont, Resume, Meant, ForegroundOnly, SignalsReachJob, CleanedUp,
           TableTrue, InHand, Handled, Settled, Final, IndicesOK, Unused, PidsOK, Starting, Newborn, Marked, Unhandled
  <2> QED
    BY <2>1, <2>2, <2>3
<1>12. ASSUME MarkKilled PROVE Kept
  <2>1. Shape'
    BY <1>12 DEF MarkKilled, IndicesOK, Unused, PidsOK, Starting, Newborn, Marked, Unhandled
  <2>2. TableTrue'
    BY <1>12 DEF MarkKilled, TableTrue, InHand, Handled, Settled, Final, ForegroundOnly,
           IndicesOK, Unused, PidsOK, Starting, Newborn, Marked, Unhandled
  <2>3. Promises'
    BY <1>12 DEF MarkKilled, ForegroundOnly, SignalsReachJob, CleanedUp,
           TableTrue, InHand, Handled, Settled, Final, IndicesOK, Unused, PidsOK, Starting, Newborn, Marked, Unhandled
  <2> QED
    BY <2>1, <2>2, <2>3
<1>13. ASSUME KillWaited PROVE Kept
  <2>1. Shape'
    BY <1>13 DEF KillWaited, Waited, Meant, IndicesOK, Unused, PidsOK, Starting, Newborn, Marked, Unhandled
  <2>2. TableTrue'
    BY <1>13 DEF KillWaited, Waited, Meant, TableTrue, InHand, Handled, Settled, Final, ForegroundOnly,
           IndicesOK, Unused, PidsOK, Starting, Newborn, Marked, Unhandled
  <2>3. Promises'
    BY <1>13 DEF KillWaited, Waited, Meant, ForegroundOnly, SignalsReachJob, CleanedUp,
           TableTrue, InHand, Handled, Settled, Final, IndicesOK, Unused, PidsOK, Starting, Newborn, Marked, Unhandled
  <2> QED
    BY <2>1, <2>2, <2>3
<1>14. ASSUME Quit PROVE Kept
  <2>1. Shape'
    BY <1>14 DEF Quit, Slay, ToKill, IndicesOK, Unused, PidsOK, Starting, Newborn, Marked, Unhandled
  <2>2. TableTrue'
    BY <1>14 DEF Quit, Slay, ToKill, TableTrue, InHand, Handled, Settled, Final, ForegroundOnly,
           IndicesOK, Unused, PidsOK, Starting, Newborn, Marked, Unhandled
  <2>3. \A j \in Jobs : proc'[j] = proc[j] \/ proc'[j] = "zombie"
    BY <1>14 DEF Quit, Slay
  <2>4. ForegroundOnly' /\ SignalsReachJob'
    BY <1>14, <2>3 DEF Quit, ForegroundOnly, SignalsReachJob
  <2>5. ASSUME pc' = "left", NEW j \in Jobs \ astray PROVE proc'[j] \in Dead \cup {"none"}
    <3>1. \A n \in ToKill : pid[n]
      BY <1>14, <2>5 DEF Quit
    <3>2. CASE j \in ToKill
      BY <1>14, <3>1, <3>2 DEF Quit, Slay
    <3>3. CASE j \notin ToKill
      BY <2>3, <3>3, <1>14 DEF Quit, ToKill, TableTrue, InHand, Settled, Final, PidsOK, Unused
    <3> QED
      BY <3>2, <3>3
  <2>6. CleanedUp'
    BY <2>5, <1>14 DEF Quit, CleanedUp
  <2> QED
    BY <2>1, <2>2, <2>4, <2>6
<1>15. ASSUME DefaultInterrupt PROVE Kept
  <2>1. Shape'
    BY <1>15 DEF DefaultInterrupt, Interrupt, IndicesOK, Unused, PidsOK, Starting, Newborn, Marked, Unhandled
  <2>2. TableTrue'
    BY <1>15 DEF DefaultInterrupt, Interrupt, TableTrue, InHand, Handled, Settled, Final, ForegroundOnly,
           IndicesOK, Unused, PidsOK, Starting, Newborn, Marked, Unhandled
  <2>3. Promises'
    BY <1>15 DEF DefaultInterrupt, Interrupt, ForegroundOnly, SignalsReachJob, CleanedUp,
           TableTrue, InHand, Handled, Settled, Final, IndicesOK, Unused, PidsOK, Starting, Newborn, Marked, Unhandled
  <2> QED
    BY <2>1, <2>2, <2>3
<1>16. ASSUME NEW e \in Entries, Continue(e) PROVE Kept
  <2>1. Shape'
    BY <1>16 DEF Continue, IndicesOK, Unused, PidsOK, Starting, Newborn, Marked, Unhandled
  <2>2. TableTrue'
    BY <1>16 DEF Continue, TableTrue, InHand, Handled, Settled, Final, ForegroundOnly,
           IndicesOK, Unused, PidsOK, Starting, Newborn, Marked, Unhandled
  <2>3. Promises'
    BY <1>16 DEF Continue, ForegroundOnly, SignalsReachJob, CleanedUp,
           TableTrue, InHand, Handled, Settled, Final, IndicesOK, Unused, PidsOK, Starting, Newborn, Marked, Unhandled
  <2> QED
    BY <2>1, <2>2, <2>3
<1>17. ASSUME NEW e \in Entries, Kill(e) PROVE Kept
  <2>1. Shape'
    BY <1>17 DEF Kill, Slay, Meant, IndicesOK, Unused, PidsOK, Starting, Newborn, Marked, Unhandled
  <2>2. TableTrue'
    BY <1>17 DEF Kill, Slay, Meant, TableTrue, InHand, Handled, Settled, Final, ForegroundOnly,
           IndicesOK, Unused, PidsOK, Starting, Newborn, Marked, Unhandled
  <2>3. Promises'
    BY <1>17 DEF Kill, Slay, Meant, ForegroundOnly, SignalsReachJob, CleanedUp,
           TableTrue, InHand, Handled, Settled, Final, IndicesOK, Unused, PidsOK, Starting, Newborn, Marked, Unhandled
  <2> QED
    BY <2>1, <2>2, <2>3
<1>18. ASSUME NEW sig \in {"SIGINT", "SIGTSTP"}, Terminal(sig) PROVE Kept
  <2>1. Shape'
    BY <1>18 DEF Terminal, Misses, Store, Reached, Signal, Stop, Interrupt, Catches, IndicesOK, Unused, PidsOK, Starting, Newborn, Marked, Unhandled
  <2>2. TableTrue'
    BY <1>18 DEF Terminal, Misses, Store, Reached, Signal, Stop, Interrupt, Catches, TableTrue, InHand, Handled, Settled, Final, ForegroundOnly,
           IndicesOK, Unused, PidsOK, Starting, Newborn, Marked, Unhandled
  <2>3. Promises'
    BY <1>18 DEF Terminal, Misses, Store, Reached, Signal, Stop, Interrupt, Catches, ForegroundOnly, SignalsReachJob, CleanedUp,
           TableTrue, InHand, Handled, Settled, Final, IndicesOK, Unused, PidsOK, Starting, Newborn, Marked, Unhandled
  <2> QED
    BY <2>1, <2>2, <2>3
<1>19. ASSUME NEW j \in Jobs, Ends(j) PROVE Kept
  <2>1. Shape'
    BY <1>19 DEF Ends, IndicesOK, Unused, PidsOK, Starting, Newborn, Marked, Unhandled
  <2>2. TableTrue'
    BY <1>19 DEF Ends, TableTrue, InHand, Handled, Settled, Final, ForegroundOnly,
           IndicesOK, Unused, PidsOK, Starting, Newborn, Marked, Unhandled
  <2>3. Promises'
    BY <1>19 DEF Ends, ForegroundOnly, SignalsReachJob, CleanedUp,
           TableTrue, InHand, Handled, Settled, Final, IndicesOK, Unused, PidsOK, Starting, Newborn, Marked, Unhandled
  <2> QED
    BY <2>1, <2>2, <2>3
<1>25. ASSUME NEW j \in Jobs, Exec(j) PROVE Kept
  <2>1. Shape'
    BY <1>25 DEF Exec, IndicesOK, Unused, PidsOK, Starting, Newborn, Marked, Unhandled
  <2>2. TableTrue'
    BY <1>25 DEF Exec, TableTrue, InHand, Handled, Settled, Final, ForegroundOnly,
           IndicesOK, Unused, PidsOK, Starting, Newborn, Marked, Unhandled
  <2>3. Promises'
    BY <1>25 DEF Exec, ForegroundOnly, SignalsReachJob, CleanedUp,
           TableTrue, InHand, Handled, Settled, Final, IndicesOK, Unused, PidsOK, Starting, Newborn, Marked, Unhandled
  <2> QED
    BY <2>1, <2>2, <2>3
<1>20. ASSUME NEW j \in Jobs, HangUp(j) PROVE Kept
  <2>1. Shape'
    BY <1>20 DEF HangUp, IndicesOK, Unused, PidsOK, Starting, Newborn, Marked, Unhandled
  <2>2. TableTrue'
    BY <1>20 DEF HangUp, TableTrue, InHand, Handled, Settled, Final, ForegroundOnly,
           IndicesOK, Unused, PidsOK, Starting, Newborn, Marked, Unhandled
  <2>3. Promises'
    BY <1>20 DEF HangUp, ForegroundOnly, SignalsReachJob, CleanedUp,
           TableTrue, InHand, Handled, Settled, Final, IndicesOK, Unused, PidsOK, Starting, Newborn, Marked, Unhandled
  <2> QED
    BY <2>1, <2>2, <2>3
<1>21. ASSUME NEW sig \in {"SIGINT", "SIGTSTP"}, Nested(sig) PROVE Kept
  <2>1. Shape'
    BY <1>21 DEF Nested, Misses, Store, Reached, Catches, IndicesOK, Unused, PidsOK, Starting, Newborn, Marked, Unhandled
  <2>2. TableTrue'
    BY <1>21 DEF Nested, Misses, Store, Reached, Catches, TableTrue, InHand, Handled, Settled, Final, ForegroundOnly,
           IndicesOK, Unused, PidsOK, Starting, Newborn, Marked, Unhandled
  <2>3. Promises'
    BY <1>21 DEF Nested, Misses, Store, Reached, Catches, ForegroundOnly, SignalsReachJob, CleanedUp,
           TableTrue, InHand, Handled, Settled, Final, IndicesOK, Unused, PidsOK, Starting, Newborn, Marked, Unhandled
  <2> QED
    BY <2>1, <2>2, <2>3
<1>22. ASSUME UNCHANGED vars PROVE Kept
  BY <1>22 DEF vars, TableTrue, InHand, Handled, Settled, ForegroundOnly, SignalsReachJob,
         CleanedUp, IndicesOK, Unused, PidsOK, Starting, Newborn, Marked, Unhandled
<1>23. Kept
  BY <1>1, <1>2, <1>3, <1>4, <1>5, <1>6, <1>7, <1>8, <1>9, <1>10, <1>11, <1>12, <1>13, <1>14, <1>15, <1>16, <1>17, <1>18, <1>19, <1>20, <1>21, <1>22, <1>24, <1>25
  DEF Next, Manager, User
<1> QED
  BY <1>23

\* The invariant is inductive.
LEMMA InvStep == IInv /\ [Next]_vars => IInv'
BY TypeStep, ConsistentStep DEF IInv

\* The invariant that the theorems below follow from: what the table says of each
\* job at each place of the main loop, whatever the handlers have stored.
THEOREM Invariant == Spec => []IInv
<1> QED
  BY InvInit, InvStep, PTL DEF Spec

\* For a table of any size at most the current job runs at any time, and none while
\* commands are read or when the manager is gone (mgr.c:117, 229), but for jobs that
\* the SIGCONT of an entry without a pid has woken, and the first job of sub_mgr if
\* SIGINT ends the manager before it has handlers.
THEOREM Foreground == Spec => []ForegroundOnly
<1>1. IInv => ForegroundOnly
  BY DEF IInv
<1> QED
  BY <1>1, Invariant, PTL

\* For a table of any size the table is true of every job that has not gone astray,
\* whenever commands are read (mgr.c:120, 233).
THEOREM TableTells == Spec => []StatusTrue
<1>1. IInv => StatusTrue
  BY DEF IInv, TableTrue, InHand, Settled, Final, StatusTrue
<1> QED
  BY <1>1, Invariant, PTL

\* For a table of any size a signal from the terminal finds the job that the manager
\* waits for (mgr.c:184, 194), unless an earlier one was lost on it: undone by the
\* SIGCONT of c, or caught before exec.
THEOREM SignalsFindJob == Spec => []SignalsReachJob
<1>1. IInv => SignalsReachJob
  BY DEF IInv
<1> QED
  BY <1>1, Invariant, PTL

\* For a table of any size q leaves no job alive that has not gone astray
\* (mgr.c:264-274).
THEOREM QuitCleansUp == Spec => []CleanedUp
<1>1. IInv => CleanedUp
  BY DEF IInv
<1> QED
  BY <1>1, Invariant, PTL

=============================================================================
