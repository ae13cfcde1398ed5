------------------------------ MODULE Session ------------------------------
(***************************************************************************)
(* The doctor's session of Assignment_06 (session.c): the assistant's event *)
(* loop, the doctor, and one thread for every visitor that is let in.      *)
(*                                                                         *)
(* A thread that waits on a condition is in asleep[condition] until a      *)
(* signal takes it out; a signal wakes one sleeper of its condition, any   *)
(* one, or is lost.  A critical section whose variables are used under its *)
(* mutex only is one step.  The visitors' tests of current are not: the    *)
(* assistant changes current, and signals, without their mutex.            *)
(***************************************************************************)
EXTENDS Integers, Sequences, FiniteSets, EventQueue

CONSTANTS
    Files,              \* the arrival files
    NUM_PATIENTS, NUM_SALES_REPS

ASSUME SessionAssumption ==
    /\ NUM_PATIENTS \in Nat \ {0} /\ NUM_SALES_REPS \in Nat \ {0}
    /\ Files \subseteq Seq([type : {"R", "P", "S"}, time : Int, duration : Nat \ {0}])

Types == {"R", "P", "S"}
Arrivals(file, x) == Cardinality({j \in DOMAIN file : file[j].type = x})

VARIABLES
    file,           \* the arrival file
    eventQueue, current_time,
    num, current, token,    \* type -> num_X, current_X, token_X
    waiting,        \* type -> what the assistant has noted of each token
    doctor_firstcase, session_done,
    doctor_free, doctor_enter, doctor_met, doctor_done,
    apc, dpc,       \* places of the assistant and the doctor
    temp,           \* the visitor called and the end of the meeting
    vpc,            \* type -> token -> place of the visitor thread
    asleep          \* condition -> the threads that wait on it

book == <<file, eventQueue, current_time, num, current, token, waiting>>
session == <<doctor_firstcase, session_done>>
hands == <<doctor_free, doctor_enter, doctor_met, doctor_done>>
vars == <<book, session, hands, apc, temp, dpc, vpc, asleep>>

Conds == {"cond_doctor", "cond_doctor_meet", "doctor_completed", "doctor_entered"} \cup Types

Init ==
    /\ file \in Files
    /\ eventQueue = addevent(initEQ(file), [type |-> "D", time |-> 0, duration |-> 0])
    /\ current_time = 0
    /\ num = [x \in Types |-> 0] /\ current = num /\ token = num
    /\ waiting = [x \in Types |-> << >>]
    /\ doctor_firstcase = FALSE /\ session_done = FALSE
    /\ doctor_free = FALSE /\ doctor_enter = FALSE
    /\ doctor_met = FALSE /\ doctor_done = FALSE
    /\ apc = "loop" /\ temp = [type |-> "D", time |-> 0] /\ dpc = "test"
    /\ vpc = [x \in Types |-> << >>]
    /\ asleep = [c \in Conds |-> {}]

-----------------------------------------------------------------------------
(* Condition variables                                                     *)

assistantThread == <<"A", 0>>
doctorThread == <<"D", 0>>

Awake(t) == \A c \in Conds : t \notin asleep[c]

Signal(c) ==
    IF asleep[c] = {} THEN UNCHANGED asleep
    ELSE \E t \in asleep[c] : asleep' = [asleep EXCEPT ![c] = @ \ {t}]

Sleep(t, c) == asleep' = [asleep EXCEPT ![c] = @ \cup {t}]

-----------------------------------------------------------------------------
(* The assistant                                                           *)

AssistantGoto(from, to) ==
    /\ Awake(assistantThread) /\ apc = from /\ apc' = to

Quota(x) == IF x = "P" THEN token[x] >= NUM_PATIENTS
            ELSE x = "S" /\ token[x] >= NUM_SALES_REPS

\* A visitor arrives: leaves at once, or gets a thread that may run before the
\* assistant has noted the visitor.
Arrive ==
    /\ AssistantGoto("loop", "loop")
    /\ ~emptyQ(eventQueue) /\ nextevent(eventQueue).type # "D"
    /\ LET e == nextevent(eventQueue)
           x == e.type
       IN  /\ current_time' = e.time
           /\ token' = [token EXCEPT ![x] = @ + 1]
           /\ IF session_done \/ Quota(x) THEN UNCHANGED <<num, waiting, vpc>>
              ELSE /\ num' = [num EXCEPT ![x] = @ + 1]
                   /\ waiting' = [waiting EXCEPT ![x] = Append(@, e)]
                   /\ vpc' = [vpc EXCEPT ![x] = Append(@, "test")]
    /\ eventQueue' = delevent(eventQueue)
    /\ UNCHANGED <<file, current, session, hands, temp, dpc, asleep>>

\* Mutant: a visitor who waits when the quotas are met is overlooked.
SessionOver_Waiting ==
    current["P"] >= NUM_PATIENTS /\ current["S"] >= NUM_SALES_REPS

SessionOver ==
    num["R"] = 0 /\ current["P"] >= NUM_PATIENTS /\ current["S"] >= NUM_SALES_REPS

\* The doctor is free for the next visitor.
Doctor ==
    /\ ~emptyQ(eventQueue) /\ nextevent(eventQueue).type = "D"
    /\ current_time' = nextevent(eventQueue).time
    /\ eventQueue' = delevent(eventQueue)
    /\ session_done' = (session_done \/ SessionOver)
    /\ AssistantGoto("loop", IF ~doctor_firstcase /\ session_done' THEN "last" ELSE "free")
    /\ UNCHANGED <<file, num, current, token, waiting, doctor_firstcase, hands,
                   temp, dpc, vpc, asleep>>

\* The doctor is called to leave.
LastCall ==
    /\ AssistantGoto("last", "lastwait")
    /\ doctor_firstcase' = TRUE /\ doctor_free' = TRUE
    /\ Signal("cond_doctor")
    /\ UNCHANGED <<book, session_done, doctor_enter, doctor_met, doctor_done, temp, dpc, vpc>>

\* while(!doctor_done) pthread_cond_wait(&doctor_completed, ...)
AwaitDone(to) ==
    \/ /\ ~doctor_done /\ AssistantGoto(apc, apc)
       /\ Sleep(assistantThread, "doctor_completed") /\ UNCHANGED doctor_done
    \/ /\ doctor_done /\ AssistantGoto(apc, to)
       /\ doctor_done' = FALSE /\ UNCHANGED asleep

LastWait ==
    /\ apc = "lastwait" /\ AwaitDone("free")
    /\ UNCHANGED <<book, session, doctor_free, doctor_enter, doctor_met, temp, dpc, vpc>>

MakeFree ==
    /\ AssistantGoto("free", "call")
    /\ doctor_free' = (doctor_free \/ \E x \in Types : num[x] > 0)
    /\ UNCHANGED <<book, session, doctor_enter, doctor_met, doctor_done, temp, dpc, vpc, asleep>>

\* Mutant: patients go before reporters.
First_Patient(x) ==
    /\ num[x] > 0
    /\ x # "P" => num["P"] = 0
    /\ x = "S" => num["R"] = 0

\* Reporters go before patients, patients before sales representatives.
First(x) ==
    /\ num[x] > 0
    /\ x = "P" => num["R"] = 0
    /\ x = "S" => num["R"] = 0 /\ num["P"] = 0

\* The next visitor's number is up.
Call ==
    \E x \in Types :
        /\ First(x)
        /\ AssistantGoto("call", "signal")
        /\ temp' = [type |-> x, time |-> current_time + waiting[x][current[x] + 1].duration]
        /\ num' = [num EXCEPT ![x] = @ - 1]
        /\ current' = [current EXCEPT ![x] = @ + 1]
        /\ UNCHANGED <<file, eventQueue, current_time, token, waiting, session, hands,
                       dpc, vpc, asleep>>

\* Nobody waits: the doctor idles until the next event, or there is none.  (The
\* code knows this from temp.time = 0; a meeting never ends at time 0.)
Idle ==
    /\ \A x \in Types : num[x] = 0
    /\ IF emptyQ(eventQueue)
       THEN AssistantGoto("call", "end") /\ UNCHANGED eventQueue
       ELSE /\ AssistantGoto("call", "loop")
            /\ eventQueue' = addevent(eventQueue,
                   [type |-> "D", time |-> nextevent(eventQueue).time, duration |-> 0])
    /\ UNCHANGED <<file, current_time, num, current, token, waiting, session, hands,
                   temp, dpc, vpc, asleep>>

SignalDoctor ==
    /\ AssistantGoto("signal", "signalvisitor")
    /\ Signal("cond_doctor")
    /\ UNCHANGED <<book, session, hands, temp, dpc, vpc>>

SignalVisitor ==
    /\ AssistantGoto("signalvisitor", "wait")
    /\ Signal(temp.type)
    /\ UNCHANGED <<book, session, hands, temp, dpc, vpc>>

\* When the doctor is done the end of the meeting becomes an event.
Wait ==
    /\ apc = "wait" /\ AwaitDone("loop")
    /\ eventQueue' = IF ~doctor_done THEN eventQueue
           ELSE addevent(eventQueue, [type |-> "D", time |-> temp.time, duration |-> 0])
    /\ UNCHANGED <<file, current_time, num, current, token, waiting, session,
                   doctor_free, doctor_enter, doctor_met, temp, dpc, vpc>>

\* There are no more events.  If the doctor has not left he is signalled with
\* doctor_free false, which does not end his wait.
End ==
    /\ AssistantGoto("end", "join")
    /\ session_done' = TRUE
    /\ IF session_done THEN UNCHANGED <<doctor_free, asleep>>
       ELSE doctor_free' = FALSE /\ Signal("cond_doctor")
    /\ UNCHANGED <<book, doctor_firstcase, doctor_enter, doctor_met, doctor_done, temp, dpc, vpc>>

Join ==
    /\ AssistantGoto("join", "over") /\ dpc = "left"
    /\ UNCHANGED <<book, session, hands, temp, dpc, vpc, asleep>>

Assistant ==
    \/ Arrive \/ Doctor \/ LastCall \/ LastWait \/ MakeFree \/ Call \/ Idle
    \/ SignalDoctor \/ SignalVisitor \/ Wait \/ End \/ Join

-----------------------------------------------------------------------------
(* The doctor                                                              *)

DoctorGoto(from, to) ==
    /\ Awake(doctorThread) /\ apc # "over"
    /\ dpc = from /\ dpc' = to

DoctorSleeps ==
    /\ \/ ~doctor_free /\ DoctorGoto("test", "test") /\ Sleep(doctorThread, "cond_doctor")
       \/ ~doctor_met /\ DoctorGoto("meet", "meet") /\ Sleep(doctorThread, "cond_doctor_meet")
    /\ UNCHANGED <<book, session, hands, apc, temp, vpc>>

TakeFree ==
    /\ doctor_free /\ DoctorGoto("test", "enter")
    /\ doctor_free' = FALSE
    /\ UNCHANGED <<book, session, doctor_enter, doctor_met, doctor_done, apc, temp, vpc, asleep>>

\* Mutant: the assistant is not signalled.
Done_Unsaid ==
    /\ doctor_done' = TRUE
    /\ UNCHANGED <<book, session, doctor_free, apc, temp, vpc, asleep>>

Done ==
    /\ doctor_done' = TRUE
    /\ Signal("doctor_completed")
    /\ UNCHANGED <<book, session, doctor_free, apc, temp, vpc>>

Leave ==
    /\ session_done /\ DoctorGoto("enter", "left")
    /\ Done /\ UNCHANGED <<doctor_enter, doctor_met>>

Ready ==
    /\ ~session_done /\ DoctorGoto("enter", "meet")
    /\ doctor_enter' = TRUE /\ Signal("doctor_entered")
    /\ UNCHANGED <<book, session, doctor_free, doctor_met, doctor_done, apc, temp, vpc>>

\* Mutant: doctor_met stays set.
TakeMet_Kept ==
    /\ doctor_met /\ DoctorGoto("meet", "finish")
    /\ UNCHANGED <<book, session, hands, apc, temp, vpc, asleep>>

TakeMet ==
    /\ doctor_met /\ DoctorGoto("meet", "finish")
    /\ doctor_met' = FALSE
    /\ UNCHANGED <<book, session, doctor_free, doctor_enter, doctor_done, apc, temp, vpc, asleep>>

Finish == DoctorGoto("finish", "test") /\ Done /\ UNCHANGED <<doctor_enter, doctor_met>>

DoctorThread == DoctorSleeps \/ TakeFree \/ Leave \/ Ready \/ TakeMet \/ Finish

-----------------------------------------------------------------------------
(* The visitors (reporter, patient, sales_rep)                             *)

VisitorGoto(x, i, from, to) ==
    /\ Awake(<<x, i>>) /\ apc # "over"
    /\ vpc[x][i] = from /\ vpc' = [vpc EXCEPT ![x][i] = to]
    /\ UNCHANGED <<book, session, doctor_free, doctor_done, apc, temp, dpc>>

\* A visitor that has seen another number keeps its mutex until it sleeps.
MutexFree(x) == \A l \in DOMAIN vpc[x] : vpc[x][l] # "sleep"

\* The test of current, which the assistant changes without this mutex.
Seen(x, i) ==
    /\ MutexFree(x)
    /\ VisitorGoto(x, i, "test", IF i = current[x] THEN "enter" ELSE "sleep")
    /\ UNCHANGED <<doctor_enter, doctor_met, asleep>>

VisitorSleeps(x, i) ==
    /\ VisitorGoto(x, i, "sleep", "test")
    /\ Sleep(<<x, i>>, x)
    /\ UNCHANGED <<doctor_enter, doctor_met>>

Enter(x, i) ==
    \/ /\ doctor_enter /\ VisitorGoto(x, i, "enter", "chamber")
       /\ doctor_enter' = FALSE /\ UNCHANGED <<doctor_met, asleep>>
    \/ /\ ~doctor_enter /\ VisitorGoto(x, i, "enter", "enter")
       /\ Sleep(<<x, i>>, "doctor_entered") /\ UNCHANGED <<doctor_enter, doctor_met>>

Meet(x, i) ==
    /\ VisitorGoto(x, i, "chamber", "gone")
    /\ doctor_met' = TRUE /\ Signal("cond_doctor_meet")
    /\ UNCHANGED doctor_enter

Visitor(x, i) == Seen(x, i) \/ VisitorSleeps(x, i) \/ Enter(x, i) \/ Meet(x, i)

Next ==
    \/ Assistant
    \/ DoctorThread
    \/ \E x \in Types : \E i \in DOMAIN vpc[x] : Visitor(x, i)

\* As long as some thread can run, one does: enough here, since no behaviour
\* goes round in circles.
Fairness == WF_vars(Next)

Spec == Init /\ [][Next]_vars /\ Fairness

-----------------------------------------------------------------------------
(* Properties                                                              *)

Threads ==
    {assistantThread, doctorThread} \cup UNION {{x} \X (1 .. Len(vpc[x])) : x \in Types}

\* Every variable keeps its type; a thread sleeps on one condition at most.
TypeOK ==
    /\ file \in Files
    /\ \A j \in DOMAIN eventQueue : eventQueue[j].type \in Types \cup {"D"}
    /\ \A x \in Types : /\ num[x] \in Nat /\ current[x] + num[x] = Len(waiting[x])
                        /\ token[x] \in 0 .. Arrivals(file, x)
                        /\ Len(vpc[x]) = Len(waiting[x])
                        /\ \A i \in DOMAIN vpc[x] :
                              vpc[x][i] \in {"test", "sleep", "enter", "chamber", "gone"}
    /\ \A b \in {doctor_firstcase, session_done, doctor_free, doctor_enter, doctor_met, doctor_done} :
           b \in BOOLEAN
    /\ apc \in {"loop", "last", "lastwait", "free", "call", "signal", "signalvisitor",
               "wait", "end", "join", "over"}
    /\ dpc \in {"test", "enter", "meet", "finish", "left"}
    /\ temp.type \in Types \cup {"D"}
    /\ asleep \in [Conds -> SUBSET Threads]
    /\ \A c, d \in Conds : asleep[c] \cap asleep[d] # {} => c = d

\* Every variable keeps its type, and the heap never loses or invents an event, its first entry is the earliest,
\* with reporters before patients before sales representatives before the
\* doctor at one time, and there is one event of the doctor's at most
\* (event.c: initEQ, addevent, delevent).
QueueIsRight ==
    /\ TypeOK
    /\ \A j \in DOMAIN eventQueue :
          \/ eventQueue[1].time < eventQueue[j].time
          \/ /\ eventQueue[1].time = eventQueue[j].time
             /\ Rank[eventQueue[1].type] <= Rank[eventQueue[j].type]
    /\ \A x \in Types :
          token[x] + Cardinality({j \in DOMAIN eventQueue : eventQueue[j].type = x})
            = Arrivals(file, x)
    /\ Cardinality({j \in DOMAIN eventQueue : eventQueue[j].type = "D"}) <= 1

\* One visitor at a time is with the doctor: the one whose number is up, while
\* the doctor waits for the meeting to end and the assistant for both
\* (session.c:251-294, 336-346, 366-382).  The four flags that hand a visit on
\* are set one at a time, and none is left over when the assistant goes on to
\* the next event, so no thread is let through by a flag of an earlier visit.
OneInChamber ==
    /\ \A x \in Types : \A i \in DOMAIN vpc[x] :
          vpc[x][i] = "chamber" =>
            /\ x = temp.type /\ i = current[x]
            /\ dpc = "meet" /\ apc \in {"signal", "signalvisitor", "wait"}
            /\ \A y \in Types : \A l \in DOMAIN vpc[y] :
                  vpc[y][l] = "chamber" => <<y, l>> = <<x, i>>
    /\ Cardinality({j \in 1 .. 4 : <<doctor_free, doctor_enter, doctor_met, doctor_done>>[j]}) <= 1
    /\ apc = "loop" => ~(doctor_free \/ doctor_enter \/ doctor_met \/ doctor_done)

\* When a visitor is called, everybody who has come by then has been let in or
\* sent away, nobody who goes first waits, and within a type visitors are
\* called in the order of their arrival (session.c:118-120, 251-281).
CallsInOrder ==
    [][\A x \in Types : current'[x] # current[x] =>
          /\ \A j \in DOMAIN eventQueue : eventQueue[j].time > current_time
          /\ \A y \in Types : Rank[y] < Rank[x] => num[y] = 0
          /\ \A i \in 1 .. current[x] : waiting[x][i].time <= waiting[x][current'[x]].time
      ]_vars

\* When the doctor leaves, every visitor who was let in has been with him,
\* reporters who came during the last meeting included (session.c:224).
NobodyForgotten ==
    dpc = "left" =>
        \A x \in Types : num[x] = 0 /\ \A i \in DOMAIN vpc[x] : vpc[x][i] = "gone"

\* The visitor called sleeps after the signal was sent: it went to sleep after
\* it, or the signal woke another one.
MissedCall ==
    /\ apc = "wait" /\ temp.type \in Types
    /\ <<temp.type, current[temp.type]>> \in asleep[temp.type]

\* The visitors were too few for the quotas, and the doctor is not told.
NotTold == apc = "join" /\ doctorThread \in asleep["cond_doctor"]

\* The program ends, except in two cases: a visitor misses its signal
\* (session.c:260, sent without the visitors' mutex), or the quotas are not
\* met when the events run out (session.c:301).
EndsOrMisses == <>(apc = "over" \/ MissedCall \/ NotTold)

=============================================================================
