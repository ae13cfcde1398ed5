--------------------------- MODULE SessionProofs ----------------------------
(***************************************************************************)
(* The session, for any arrival files and quotas.                          *)
(*                                                                         *)
(* First the hand-off between assistant, doctor and visitors.  Whatever    *)
(* event comes next, the visit that has been called is over before the     *)
(* assistant goes on.  The four flags are one baton: Baton says where it   *)
(* is for each place of the assistant, and what the visitors have done.    *)
(*                                                                         *)
(* Then the heap: what its three loops make of any sequence of events.     *)
(* A loop is a recursive function over the states the loop can be in, and  *)
(* is defined and right since a number of its state gets smaller.          *)
(*                                                                         *)
(* Then the queue: no event is lost, and visitors are called in order.     *)
(***************************************************************************)
EXTENDS Session, FiniteSetTheorems, WellFoundedInduction, TLAPS

VisitorPlaces == {"test", "sleep", "enter", "chamber", "gone"}

Typed ==
    /\ vpc \in [Types -> Seq(VisitorPlaces)]
    /\ num \in [Types -> Nat] /\ current \in [Types -> Nat] /\ token \in [Types -> Nat]
    /\ doctor_firstcase \in BOOLEAN /\ session_done \in BOOLEAN
    /\ doctor_free \in BOOLEAN /\ doctor_enter \in BOOLEAN
    /\ doctor_met \in BOOLEAN /\ doctor_done \in BOOLEAN

\* Who has been let in has a thread, and the quotas are respected.
Admitted ==
    /\ \A x \in Types : /\ Len(vpc[x]) = current[x] + num[x]
                        /\ current[x] + num[x] <= token[x]
    /\ current["P"] + num["P"] <= NUM_PATIENTS
    /\ current["S"] + num["S"] <= NUM_SALES_REPS

NoFlag == ~(doctor_free \/ doctor_enter \/ doctor_met \/ doctor_done)
OnlyFree == doctor_free /\ ~(doctor_enter \/ doctor_met \/ doctor_done)
OnlyEnter == doctor_enter /\ ~(doctor_free \/ doctor_met \/ doctor_done)
OnlyMet == doctor_met /\ ~(doctor_free \/ doctor_enter \/ doctor_done)
OnlyDone == doctor_done /\ ~(doctor_free \/ doctor_enter \/ doctor_met)

\* The doctor waits, or has left.
Resting == NoFlag /\ dpc \in {"test", "left"}

\* The doctor has been called and has not met the visitor.
Coming ==
    \/ OnlyFree /\ dpc = "test"
    \/ NoFlag /\ dpc = "enter"
    \/ OnlyEnter /\ dpc = "meet"

\* The meeting has ended and the assistant does not know yet.
Ending ==
    \/ OnlyMet /\ dpc = "meet"
    \/ NoFlag /\ dpc = "finish"
    \/ OnlyDone /\ dpc = "test"

\* The doctor has been called to leave.
Leaving ==
    \/ OnlyFree /\ dpc = "test"
    \/ NoFlag /\ dpc = "enter"
    \/ OnlyDone /\ dpc = "left"

Called(x, i) == x = temp.type /\ i = current[x]

\* Visitor i of type x has been with the doctor if it has been called, and
\* waits if it has not.
Served(x, i) ==
    /\ i <= current[x] => vpc[x][i] = "gone"
    /\ i > current[x] => vpc[x][i] \in {"test", "sleep"}

AllServed == \A x \in Types : \A i \in 1 .. Len(vpc[x]) : Served(x, i)
OthersServed ==
    \A x \in Types : \A i \in 1 .. Len(vpc[x]) : ~Called(x, i) => Served(x, i)

CalledIs(P) ==
    \A x \in Types : \A i \in 1 .. Len(vpc[x]) : Called(x, i) => vpc[x][i] \in P

Baton ==
    /\ apc \in {"loop", "last", "lastwait", "free", "call", "signal", "signalvisitor",
                "wait", "end", "join", "over"}
    /\ apc \in {"loop", "last", "free", "end", "join", "over"} => Resting /\ AllServed
    /\ apc = "call" => /\ AllServed
                       /\ IF \E x \in Types : num[x] > 0 THEN Coming /\ ~session_done ELSE Resting
    /\ apc = "lastwait" => Leaving /\ AllServed /\ session_done
    /\ apc \in {"signal", "signalvisitor", "wait"} =>
          /\ ~session_done /\ OthersServed
          /\ \/ Coming /\ CalledIs({"test", "sleep", "enter"})
             \/ NoFlag /\ dpc = "meet" /\ CalledIs({"chamber"})
             \/ Ending /\ CalledIs({"gone"})

\* The session ends when nobody waits, and the doctor leaves after it.
Over ==
    /\ session_done \/ apc = "end" => \A x \in Types : num[x] = 0
    /\ dpc = "left" => doctor_firstcase /\ session_done
    /\ apc = "last" => ~doctor_firstcase /\ session_done
    /\ apc = "lastwait" => doctor_firstcase

IInv == Typed /\ Admitted /\ Baton /\ Over

-----------------------------------------------------------------------------
(* Steps                                                                   *)

\* A visitor that goes on changes its own place only.
LEMMA Moved ==
  ASSUME Typed, NEW x \in Types, NEW i \in DOMAIN vpc[x], NEW to \in VisitorPlaces,
         vpc' = [vpc EXCEPT ![x][i] = to]
  PROVE  /\ vpc' \in [Types -> Seq(VisitorPlaces)]
         /\ \A y \in Types : Len(vpc'[y]) = Len(vpc[y]) /\ DOMAIN vpc'[y] = DOMAIN vpc[y]
         /\ vpc'[x][i] = to /\ i \in 1 .. Len(vpc[x])
         /\ \A y \in Types : \A l \in 1 .. Len(vpc[y]) : <<y, l>> # <<x, i>> => vpc'[y][l] = vpc[y][l]
<1>1. vpc[x] \in Seq(VisitorPlaces) /\ i \in 1 .. Len(vpc[x])
  BY DEF Typed
<1>2. vpc'[x] = [vpc[x] EXCEPT ![i] = to] /\ \A y \in Types \ {x} : vpc'[y] = vpc[y]
  BY DEF Typed
<1>3. vpc'[x] \in Seq(VisitorPlaces) /\ Len(vpc'[x]) = Len(vpc[x]) /\ DOMAIN vpc'[x] = DOMAIN vpc[x]
  BY <1>1, <1>2
<1>4. vpc' \in [Types -> Seq(VisitorPlaces)]
  BY <1>2, <1>3 DEF Typed
<1> QED
  BY <1>1, <1>2, <1>3, <1>4

\* A visitor's step changes its place, doctor_enter and doctor_met.
LEMMA VisitorKeeps ==
  ASSUME Typed, NEW x \in Types, NEW i \in DOMAIN vpc[x], Visitor(x, i)
  PROVE  /\ UNCHANGED <<num, current, token, doctor_firstcase, session_done, doctor_free,
                        doctor_done, apc, temp, dpc>>
         /\ \E to \in VisitorPlaces : vpc' = [vpc EXCEPT ![x][i] = to]
         /\ \/ UNCHANGED <<doctor_enter, doctor_met>>
            \/ doctor_enter' = FALSE /\ UNCHANGED doctor_met
            \/ doctor_met' = TRUE /\ UNCHANGED doctor_enter
<1>1. CASE Seen(x, i)
  BY <1>1 DEF Seen, VisitorGoto, VisitorPlaces, book, session
<1>2. CASE VisitorSleeps(x, i)
  BY <1>2 DEF VisitorSleeps, VisitorGoto, VisitorPlaces, book, session
<1>3. CASE Enter(x, i)
  BY <1>3 DEF Enter, VisitorGoto, VisitorPlaces, book, session
<1>4. CASE Meet(x, i)
  BY <1>4 DEF Meet, VisitorGoto, VisitorPlaces, book, session
<1> QED
  BY <1>1, <1>2, <1>3, <1>4 DEF Visitor

\* An arrival lets at most one visitor in, and none when the session is over or
\* its quota is full.
LEMMA Arrived ==
  ASSUME Typed, Arrive
  PROVE  /\ UNCHANGED <<current, doctor_firstcase, session_done, doctor_free, doctor_enter,
                        doctor_met, doctor_done, apc, temp, dpc>>
         /\ apc = "loop"
         /\ \/ /\ UNCHANGED <<num, vpc>>
               /\ token' = token \/ \E x \in Types : token' = [token EXCEPT ![x] = @ + 1]
            \/ \E x \in Types :
                 /\ ~session_done /\ ~Quota(x)
                 /\ token' = [token EXCEPT ![x] = @ + 1] /\ num' = [num EXCEPT ![x] = @ + 1]
                 /\ vpc' = [vpc EXCEPT ![x] = Append(@, "test")]
<1> DEFINE x == nextevent(eventQueue).type
<1>1. /\ UNCHANGED <<current, doctor_firstcase, session_done, doctor_free, doctor_enter,
                     doctor_met, doctor_done, apc, temp, dpc>>
      /\ apc = "loop"
      /\ token' = [token EXCEPT ![x] = @ + 1]
      /\ IF session_done \/ Quota(x) THEN UNCHANGED <<num, waiting, vpc>>
         ELSE /\ num' = [num EXCEPT ![x] = @ + 1]
              /\ vpc' = [vpc EXCEPT ![x] = Append(@, "test")]
  BY DEF Arrive, AssistantGoto, session, hands
<1> HIDE DEF x
<1>2. x \notin Types => token' = token /\ UNCHANGED <<num, vpc>>
  BY <1>1 DEF Typed
<1> QED
  BY <1>1, <1>2

-----------------------------------------------------------------------------
(* Types                                                                   *)

\* Every step keeps the types.
LEMMA TypedStep == Typed /\ Admitted /\ [Next]_vars => Typed'
<1> SUFFICES ASSUME Typed, Admitted, [Next]_vars PROVE Typed'
  OBVIOUS
<1>1. ASSUME UNCHANGED vars PROVE Typed'
  BY <1>1 DEF vars, book, session, hands, Typed
<1>2. ASSUME Arrive PROVE Typed'
  <2>1. CASE UNCHANGED <<num, vpc>>
    BY <2>1, <1>2, Arrived DEF Typed
  <2>2. CASE ~UNCHANGED <<num, vpc>>
    <3>1. PICK x \in Types : /\ token' = [token EXCEPT ![x] = @ + 1]
                             /\ num' = [num EXCEPT ![x] = @ + 1]
                             /\ vpc' = [vpc EXCEPT ![x] = Append(@, "test")]
      BY <2>2, <1>2, Arrived
    <3>2. Append(vpc[x], "test") \in Seq(VisitorPlaces)
      BY DEF Typed, VisitorPlaces
    <3> QED
      BY <3>1, <3>2, <1>2, Arrived DEF Typed
  <2> QED
    BY <2>1, <2>2
<1>3. ASSUME Doctor PROVE Typed'
  BY <1>3 DEF Doctor, SessionOver, hands, Typed
<1>4. ASSUME LastCall PROVE Typed'
  BY <1>4 DEF LastCall, book, Typed
<1>5. ASSUME LastWait PROVE Typed'
  BY <1>5 DEF LastWait, AwaitDone, book, session, Typed
<1>6. ASSUME MakeFree PROVE Typed'
  BY <1>6 DEF MakeFree, book, session, Typed
<1>7. ASSUME Call PROVE Typed'
  <2>1. PICK x \in Types : /\ num[x] > 0 /\ num' = [num EXCEPT ![x] = @ - 1]
                           /\ current' = [current EXCEPT ![x] = @ + 1]
                           /\ UNCHANGED <<token, session, hands, dpc, vpc>>
    BY <1>7 DEF Call, First
  <2>2. num[x] - 1 \in Nat /\ current[x] + 1 \in Nat
    BY <2>1 DEF Typed
  <2> QED
    BY <2>1, <2>2 DEF Typed, session, hands
<1>8. ASSUME Idle PROVE Typed'
  BY <1>8 DEF Idle, session, hands, Typed
<1>9. ASSUME SignalDoctor PROVE Typed'
  BY <1>9 DEF SignalDoctor, book, session, hands, Typed
<1>10. ASSUME SignalVisitor PROVE Typed'
  BY <1>10 DEF SignalVisitor, book, session, hands, Typed
<1>11. ASSUME Wait PROVE Typed'
  BY <1>11 DEF Wait, AwaitDone, session, Typed
<1>12. ASSUME End PROVE Typed'
  BY <1>12 DEF End, book, Typed
<1>13. ASSUME Join PROVE Typed'
  BY <1>13 DEF Join, book, session, hands, Typed
<1>14. ASSUME DoctorSleeps PROVE Typed'
  BY <1>14 DEF DoctorSleeps, book, session, hands, Typed
<1>15. ASSUME TakeFree PROVE Typed'
  BY <1>15 DEF TakeFree, book, session, Typed
<1>16. ASSUME Leave PROVE Typed'
  BY <1>16 DEF Leave, Done, book, session, Typed
<1>17. ASSUME Ready PROVE Typed'
  BY <1>17 DEF Ready, book, session, Typed
<1>18. ASSUME TakeMet PROVE Typed'
  BY <1>18 DEF TakeMet, book, session, Typed
<1>19. ASSUME Finish PROVE Typed'
  BY <1>19 DEF Finish, Done, book, session, Typed
<1>20. ASSUME NEW x \in Types, NEW i \in DOMAIN vpc[x], Visitor(x, i) PROVE Typed'
  <2>1. PICK to \in VisitorPlaces : vpc' = [vpc EXCEPT ![x][i] = to]
    BY <1>20, VisitorKeeps
  <2>2. vpc' \in [Types -> Seq(VisitorPlaces)]
    BY <2>1, Moved
  <2> QED
    BY <1>20, <2>2, VisitorKeeps DEF Typed
<1> QED
  BY <1>1, <1>2, <1>3, <1>4, <1>5, <1>6, <1>7, <1>8, <1>9, <1>10, <1>11, <1>12, <1>13,
     <1>14, <1>15, <1>16, <1>17, <1>18, <1>19, <1>20 DEF Next, Assistant, DoctorThread

\* Nobody is let in over the quota.
LEMMA AdmittedStep == Typed /\ Admitted /\ [Next]_vars => Admitted'
<1> SUFFICES ASSUME Typed, Admitted, [Next]_vars PROVE Admitted'
  OBVIOUS
<1>7. NUM_PATIENTS \in Nat /\ NUM_SALES_REPS \in Nat
  BY SessionAssumption
<1>0. num \in [Types -> Nat] /\ current \in [Types -> Nat] /\ token \in [Types -> Nat]
  BY DEF Typed
<1>1. ASSUME UNCHANGED <<num, current, token, vpc>> PROVE Admitted'
  BY <1>1 DEF Admitted
<1>2. ASSUME Arrive PROVE Admitted'
  <2>1. CASE UNCHANGED <<num, vpc>>
    <3>0. UNCHANGED current /\ (token' = token \/ \E x \in Types : token' = [token EXCEPT ![x] = @ + 1])
      BY <2>1, <1>2, Arrived
    <3>1. UNCHANGED current /\ \A x \in Types : token'[x] >= token[x]
      BY <3>0, <1>0
    <3>2. token' \in [Types -> Nat]
      BY <1>2, TypedStep DEF Typed
    <3>3. \A x \in Types : /\ num[x] \in Nat /\ current[x] \in Nat /\ token[x] \in Nat
                           /\ token'[x] \in Nat
      BY <1>0, <3>2
    <3>4. vpc' = vpc /\ num' = num /\ current' = current
      BY <2>1, <3>1
    <3>5. \A x \in Types : current'[x] + num'[x] <= token'[x]
      BY <3>1, <3>3, <3>4 DEF Admitted
    <3> QED
      BY <3>4, <3>5 DEF Admitted
  <2>2. CASE ~UNCHANGED <<num, vpc>>
    <3>1. PICK x \in Types : /\ ~Quota(x)
                             /\ token' = [token EXCEPT ![x] = @ + 1]
                             /\ num' = [num EXCEPT ![x] = @ + 1]
                             /\ vpc' = [vpc EXCEPT ![x] = Append(@, "test")]
      BY <2>2, <1>2, Arrived
    <3>2. /\ UNCHANGED current
          /\ token'[x] = token[x] + 1 /\ num'[x] = num[x] + 1 /\ Len(vpc'[x]) = Len(vpc[x]) + 1
          /\ \A y \in Types \ {x} : token'[y] = token[y] /\ num'[y] = num[y] /\ vpc'[y] = vpc[y]
      BY <3>1, <1>2, Arrived DEF Typed
    <3>8. /\ \A y \in Types : /\ num[y] \in Nat /\ current[y] \in Nat /\ token[y] \in Nat
                             /\ Len(vpc[y]) = current[y] + num[y]
                             /\ current[y] + num[y] <= token[y]
          /\ current["P"] + num["P"] <= NUM_PATIENTS
          /\ current["S"] + num["S"] <= NUM_SALES_REPS
      BY <1>0 DEF Admitted
    <3>3. \A y \in Types : /\ Len(vpc'[y]) = current'[y] + num'[y]
                           /\ current'[y] + num'[y] <= token'[y]
      <4> SUFFICES ASSUME NEW y \in Types
                   PROVE  Len(vpc'[y]) = current'[y] + num'[y] /\ current'[y] + num'[y] <= token'[y]
        OBVIOUS
      <4>1. current'[y] = current[y]
        BY <3>2
      <4>2. CASE y = x
        BY <3>2, <3>8, <4>1, <4>2
      <4>3. CASE y # x
        BY <3>2, <3>8, <4>1, <4>3
      <4> QED
        BY <4>2, <4>3
    <3>4. x = "P" => token["P"] < NUM_PATIENTS
      <4> SUFFICES ASSUME x = "P" PROVE token["P"] < NUM_PATIENTS
        OBVIOUS
      <4>1. ~(token[x] >= NUM_PATIENTS)
        BY <3>1 DEF Quota
      <4> QED
        BY <4>1, <3>8, <1>7 DEF Types
    <3>5. x = "S" => token["S"] < NUM_SALES_REPS
      <4> SUFFICES ASSUME x = "S" PROVE token["S"] < NUM_SALES_REPS
        OBVIOUS
      <4>1. ~(token[x] >= NUM_SALES_REPS)
        BY <3>1 DEF Quota
      <4> QED
        BY <4>1, <3>8, <1>7 DEF Types
    <3>6. current'["P"] + num'["P"] <= NUM_PATIENTS
      <4>1. CASE x = "P"
        <5>1. num["P"] + current["P"] < NUM_PATIENTS
          BY <3>4, <3>8, <1>7, <4>1
        <5> QED
          BY <5>1, <3>2, <3>8, <1>7, <4>1
      <4>2. CASE x # "P"
        <5>1. num'["P"] = num["P"]
          BY <3>2, <4>2 DEF Types
        <5>2. current'["P"] = current["P"]
          BY <3>2
        <5> QED
          BY <5>1, <5>2, <3>8
      <4> QED
        BY <4>1, <4>2
    <3>7. current'["S"] + num'["S"] <= NUM_SALES_REPS
      <4>1. CASE x = "S"
        <5>1. num["S"] + current["S"] < NUM_SALES_REPS
          BY <3>5, <3>8, <1>7, <4>1
        <5> QED
          BY <5>1, <3>2, <3>8, <1>7, <4>1
      <4>2. CASE x # "S"
        <5>1. num'["S"] = num["S"]
          BY <3>2, <4>2 DEF Types
        <5>2. current'["S"] = current["S"]
          BY <3>2
        <5> QED
          BY <5>1, <5>2, <3>8
      <4> QED
        BY <4>1, <4>2
    <3> QED
      BY <3>3, <3>6, <3>7 DEF Admitted
  <2> QED
    BY <2>1, <2>2
<1>3. ASSUME Call PROVE Admitted'
  <2>1. PICK x \in Types : /\ num[x] > 0 /\ num' = [num EXCEPT ![x] = @ - 1]
                           /\ current' = [current EXCEPT ![x] = @ + 1]
                           /\ UNCHANGED <<token, vpc>>
    BY <1>3 DEF Call, First
  <2>2. \A y \in Types : current'[y] + num'[y] = current[y] + num[y]
    BY <2>1 DEF Typed
  <2> QED
    BY <2>1, <2>2 DEF Admitted, Types
<1>4. ASSUME NEW x \in Types, NEW i \in DOMAIN vpc[x], Visitor(x, i) PROVE Admitted'
  <2>1. PICK to \in VisitorPlaces : vpc' = [vpc EXCEPT ![x][i] = to]
    BY <1>4, VisitorKeeps
  <2>2. \A y \in Types : Len(vpc'[y]) = Len(vpc[y])
    BY <2>1, Moved
  <2> QED
    BY <1>4, <2>2, VisitorKeeps DEF Admitted
<1>5. ASSUME \/ Doctor \/ LastCall \/ LastWait \/ MakeFree \/ Idle \/ SignalDoctor
             \/ SignalVisitor \/ Wait \/ End \/ Join \/ DoctorThread
      PROVE  UNCHANGED <<num, current, token, vpc>>
  <2>1. Doctor \/ LastCall \/ LastWait \/ MakeFree => UNCHANGED <<num, current, token, vpc>>
    BY DEF Doctor, LastCall, LastWait, MakeFree, book
  <2>2. Idle \/ SignalDoctor \/ SignalVisitor \/ Wait \/ End \/ Join => UNCHANGED <<num, current, token, vpc>>
    BY DEF Idle, SignalDoctor, SignalVisitor, Wait, End, Join, book
  <2>3. DoctorThread => UNCHANGED <<num, current, token, vpc>>
    BY DEF DoctorThread, DoctorSleeps, TakeFree, Leave, Ready, TakeMet, Finish, Done, book
  <2> QED
    BY <1>5, <2>1, <2>2, <2>3
<1>6. UNCHANGED vars => UNCHANGED <<num, current, token, vpc>>
  BY DEF vars, book
<1> QED
  BY <1>1, <1>2, <1>3, <1>4, <1>5, <1>6 DEF Next, Assistant

-----------------------------------------------------------------------------
(* The baton                                                               *)

\* What the visitors have done depends on their places, on the numbers called
\* and on the visitor called last.
LEMMA ServedFrame ==
  ASSUME UNCHANGED <<vpc, current>>
  PROVE  /\ AllServed' <=> AllServed
         /\ UNCHANGED temp => (OthersServed' <=> OthersServed)
         /\ UNCHANGED temp => /\ CalledIs({"test", "sleep", "enter"})' <=> CalledIs({"test", "sleep", "enter"})
                              /\ CalledIs({"chamber"})' <=> CalledIs({"chamber"})
                              /\ CalledIs({"gone"})' <=> CalledIs({"gone"})
BY DEF AllServed, OthersServed, CalledIs, Served, Called

\* When the visitor called is gone too, everybody called so far is.
LEMMA ServedTogether ==
  ASSUME Typed, Admitted, OthersServed, CalledIs({"gone"})
  PROVE  AllServed
<1> SUFFICES ASSUME NEW x \in Types, NEW i \in 1 .. Len(vpc[x]) PROVE Served(x, i)
  BY DEF AllServed
<1>1. CASE Called(x, i)
  <2>1. vpc[x][i] = "gone"
    BY <1>1 DEF CalledIs
  <2>2. i = current[x] /\ current[x] \in Nat
    BY <1>1 DEF Called, Typed
  <2> QED
    BY <2>1, <2>2 DEF Served
<1>2. CASE ~Called(x, i)
  BY <1>2 DEF OthersServed
<1> QED
  BY <1>1, <1>2

\* A call: the next visitor of its type, who waits, is the one called.
LEMMA Calling ==
  ASSUME Typed, Admitted, AllServed, Call
  PROVE  OthersServed' /\ CalledIs({"test", "sleep", "enter"})'
<1>1. PICK x \in Types : /\ num[x] > 0 /\ temp'.type = x
                         /\ current' = [current EXCEPT ![x] = @ + 1] /\ UNCHANGED vpc
  <2>1. PICK x \in Types :
          /\ num[x] > 0 /\ current' = [current EXCEPT ![x] = @ + 1] /\ UNCHANGED vpc
          /\ temp' = [type |-> x, time |-> current_time + waiting[x][current[x] + 1].duration]
    BY DEF Call, First
  <2>2. temp'.type = x
    BY <2>1
  <2> QED
    BY <2>1, <2>2
<1>2. /\ \A y \in Types : current[y] \in Nat
      /\ current'[x] = current[x] + 1 /\ \A y \in Types \ {x} : current'[y] = current[y]
  BY <1>1 DEF Typed
<1>3. ASSUME NEW y \in Types, NEW i \in 1 .. Len(vpc'[y])
      PROVE  /\ ~(y = x /\ i = current'[x]) => Served(y, i)'
             /\ (y = x /\ i = current'[x]) => vpc'[y][i] \in {"test", "sleep", "enter"}
  <2>1. vpc' = vpc /\ i \in 1 .. Len(vpc[y]) /\ i \in Int
    BY <1>1, <1>3
  <2>2. Served(y, i)
    BY <2>1 DEF AllServed
  <2>3. CASE y # x
    BY <2>1, <2>2, <2>3, <1>2 DEF Served
  <2>4. CASE y = x /\ i # current'[x]
    <3>1. (i <= current'[y] <=> i <= current[y]) /\ (i > current'[y] <=> i > current[y])
      BY <2>1, <2>4, <1>2
    <3> QED
      BY <3>1, <2>1, <2>2, <2>4 DEF Served
  <2>5. CASE y = x /\ i = current'[x]
    <3>1. i > current[y]
      BY <2>1, <2>5, <1>2
    <3> QED
      BY <3>1, <2>1, <2>2, <2>5 DEF Served
  <2> QED
    BY <2>3, <2>4, <2>5
<1>4. OthersServed'
  BY <1>1, <1>3 DEF OthersServed, Called
<1>5. CalledIs({"test", "sleep", "enter"})'
  BY <1>1, <1>3 DEF CalledIs, Called
<1> QED
  BY <1>4, <1>5

\* A visitor let in waits: its number has not been called.
LEMMA Welcome ==
  ASSUME Typed, Admitted, AllServed, Arrive
  PROVE  AllServed'
<1>1. UNCHANGED current
  BY Arrived
<1>2. CASE UNCHANGED vpc
  BY <1>1, <1>2, ServedFrame
<1>3. CASE ~UNCHANGED vpc
  <2>1. PICK x \in Types : vpc' = [vpc EXCEPT ![x] = Append(@, "test")]
    BY <1>3, Arrived
  <2>2. /\ vpc[x] \in Seq(VisitorPlaces) /\ Len(vpc[x]) >= current[x]
        /\ num[x] \in Nat /\ current[x] \in Nat
    BY DEF Typed, Admitted
  <2>3. vpc'[x] = Append(vpc[x], "test") /\ \A y \in Types \ {x} : vpc'[y] = vpc[y]
    BY <2>1 DEF Typed
  <2>4. ASSUME NEW y \in Types, NEW i \in 1 .. Len(vpc'[y]) PROVE Served(y, i)'
    <3>1. CASE y # x
      BY <2>3, <2>4, <3>1, <1>1 DEF AllServed, Served
    <3>2. CASE y = x /\ i \in 1 .. Len(vpc[x])
      <4>1. vpc'[x][i] = vpc[x][i]
        BY <2>2, <2>3, <3>2
      <4>2. Served(x, i)
        BY <3>2 DEF AllServed
      <4> QED
        BY <4>1, <4>2, <3>2, <1>1 DEF Served
    <3>3. CASE y = x /\ i \notin 1 .. Len(vpc[x])
      <4>1. i = Len(vpc[x]) + 1 /\ vpc'[x][i] = "test"
        BY <2>2, <2>3, <2>4, <3>3
      <4>2. i > current'[x] /\ ~(i <= current'[x])
        BY <4>1, <2>2, <1>1
      <4> QED
        BY <4>1, <4>2, <3>3 DEF Served
    <3> QED
      BY <3>1, <3>2, <3>3
  <2> QED
    BY <2>4 DEF AllServed
<1> QED
  BY <1>2, <1>3

\* Where a visitor goes from each place.
LEMMA VisitorGoes ==
  ASSUME Typed, NEW x \in Types, NEW i \in DOMAIN vpc[x], Visitor(x, i)
  PROVE  \/ /\ vpc[x][i] = "test" /\ vpc'[x][i] = IF i = current[x] THEN "enter" ELSE "sleep"
            /\ UNCHANGED <<doctor_enter, doctor_met>>
         \/ /\ vpc[x][i] = "sleep" /\ vpc'[x][i] = "test" /\ UNCHANGED <<doctor_enter, doctor_met>>
         \/ /\ vpc[x][i] = "enter" /\ vpc'[x][i] = "enter" /\ UNCHANGED <<doctor_enter, doctor_met>>
         \/ /\ vpc[x][i] = "enter" /\ vpc'[x][i] = "chamber"
            /\ doctor_enter /\ ~doctor_enter' /\ UNCHANGED doctor_met
         \/ /\ vpc[x][i] = "chamber" /\ vpc'[x][i] = "gone"
            /\ doctor_met' /\ UNCHANGED doctor_enter
<1>1. ASSUME NEW from, NEW to \in VisitorPlaces, VisitorGoto(x, i, from, to)
      PROVE  vpc[x][i] = from /\ vpc'[x][i] = to
  <2>1. vpc[x][i] = from /\ vpc' = [vpc EXCEPT ![x][i] = to]
    BY <1>1 DEF VisitorGoto
  <2> QED
    BY <2>1, Moved
<1>2. CASE Seen(x, i)
  <2>1. (IF i = current[x] THEN "enter" ELSE "sleep") \in VisitorPlaces
    BY DEF VisitorPlaces
  <2> QED
    BY <1>1, <1>2, <2>1 DEF Seen
<1>3. CASE VisitorSleeps(x, i)
  BY <1>1, <1>3 DEF VisitorSleeps, VisitorPlaces
<1>4. CASE Enter(x, i)
  BY <1>1, <1>4 DEF Enter, VisitorPlaces
<1>5. CASE Meet(x, i)
  BY <1>1, <1>5 DEF Meet, VisitorPlaces
<1> QED
  BY <1>2, <1>3, <1>4, <1>5 DEF Visitor

\* The visitor called is the one whose step the doctor waits for, so a visitor
\* who goes on is the one called, or goes from one test to the next.
LEMMA VisitorStep ==
  ASSUME Typed, Baton, NEW x \in Types, NEW i \in DOMAIN vpc[x], Visitor(x, i)
  PROVE  Baton'
<1>0. PICK to \in VisitorPlaces : vpc' = [vpc EXCEPT ![x][i] = to]
  BY VisitorKeeps
<1>1. /\ \A y \in Types : Len(vpc'[y]) = Len(vpc[y]) /\ DOMAIN vpc'[y] = DOMAIN vpc[y]
      /\ vpc'[x][i] = to /\ i \in 1 .. Len(vpc[x])
      /\ \A y \in Types : \A l \in 1 .. Len(vpc[y]) : <<y, l>> # <<x, i>> => vpc'[y][l] = vpc[y][l]
  BY <1>0, Moved
<1>2. UNCHANGED <<num, current, session_done, doctor_free, doctor_done, apc, temp, dpc>>
  BY VisitorKeeps
<1>3. /\ vpc[x][i] # "gone" /\ current[x] \in Nat /\ i \in Nat
      /\ apc \in {"signal", "signalvisitor", "wait", "loop", "last", "lastwait", "free", "call", "end", "join"}
  <2>1. vpc[x][i] # "gone" /\ apc # "over"
    BY VisitorGoes DEF Visitor, Seen, VisitorSleeps, Enter, Meet, VisitorGoto
  <2> QED
    BY <2>1, <1>1 DEF Baton, Typed
<1>4. ASSUME Served(x, i)
      PROVE  /\ to \in {"test", "sleep"} \/ i = current[x]
             /\ i > current[x]
             /\ UNCHANGED <<doctor_enter, doctor_met>>
  <2>1. i > current[x] /\ vpc[x][i] \in {"test", "sleep"}
    BY <1>3, <1>4 DEF Served
  <2> QED
    BY <2>1, <1>1, <1>3, VisitorGoes
<1>5. ASSUME Served(x, i) PROVE Served(x, i)' /\ vpc'[x][i] \in {"test", "sleep"}
  <2>1. i > current[x] /\ i # current[x] /\ vpc'[x][i] \in {"test", "sleep"}
    BY <1>1, <1>3, <1>4, <1>5
  <2>2. i > current'[x] /\ ~(i <= current'[x])
    BY <2>1, <1>2, <1>3
  <2> QED
    BY <2>1, <2>2 DEF Served
<1>6. ASSUME NEW y \in Types, NEW l \in 1 .. Len(vpc'[y]), Served(y, l) PROVE Served(y, l)'
  <2>1. CASE <<y, l>> = <<x, i>>
    BY <2>1, <1>5, <1>6
  <2>2. CASE <<y, l>> # <<x, i>>
    <3>1. vpc'[y][l] = vpc[y][l] /\ current' = current
      BY <2>2, <1>1, <1>2, <1>6
    <3> QED
      BY <3>1, <1>6 DEF Served
  <2> QED
    BY <2>1, <2>2
<1>7. ASSUME AllServed PROVE AllServed' /\ UNCHANGED <<doctor_enter, doctor_met>>
  <2>1. Served(x, i)
    BY <1>1, <1>7 DEF AllServed
  <2>2. \A y \in Types : \A l \in 1 .. Len(vpc'[y]) : Served(y, l)
    BY <1>1, <1>7 DEF AllServed
  <2> QED
    BY <2>1, <2>2, <1>4, <1>6 DEF AllServed
<1>8. CASE apc \in {"loop", "last", "lastwait", "free", "call", "end", "join"}
  <2>1. AllServed
    BY <1>8 DEF Baton
  <2>2. AllServed' /\ UNCHANGED <<doctor_enter, doctor_met>>
    BY <2>1, <1>7
  <2> QED
    BY <2>2, <1>2, <1>8 DEF Baton, Resting, Coming, Leaving, NoFlag, OnlyFree, OnlyEnter, OnlyDone
<1>9. CASE apc \in {"signal", "signalvisitor", "wait"}
  <2>0. OthersServed /\ ~session_done
    BY <1>9 DEF Baton
  <2>1. \A y \in Types : \A l \in 1 .. Len(vpc'[y]) : Called(y, l)' <=> Called(y, l)
    BY <1>2 DEF Called
  <2>2. OthersServed'
    BY <2>0, <2>1, <1>1, <1>6 DEF OthersServed
  <2>3. CASE ~Called(x, i)
    <3>1. UNCHANGED <<doctor_enter, doctor_met>>
      BY <2>0, <2>3, <1>1, <1>4 DEF OthersServed
    <3>2. \A y \in Types : \A l \in 1 .. Len(vpc'[y]) : Called(y, l) => vpc'[y][l] = vpc[y][l]
      BY <2>3, <1>1
    <3>3. /\ CalledIs({"test", "sleep", "enter"}) => CalledIs({"test", "sleep", "enter"})'
          /\ CalledIs({"chamber"}) => CalledIs({"chamber"})'
          /\ CalledIs({"gone"}) => CalledIs({"gone"})'
      BY <3>2, <2>1, <1>1 DEF CalledIs
    <3> QED
      BY <3>1, <3>3, <2>0, <2>2, <1>2, <1>9
      DEF Baton, Coming, Ending, NoFlag, OnlyFree, OnlyEnter, OnlyMet, OnlyDone
  <2>4. CASE Called(x, i)
    <3>1. ASSUME NEW P, to \in P PROVE CalledIs(P)'
      <4>1. \A y \in Types : \A l \in 1 .. Len(vpc'[y]) : Called(y, l)' => y = x /\ l = i
        BY <2>4, <1>2 DEF Called
      <4> QED
        BY <4>1, <3>1, <1>1 DEF CalledIs
    <3>2. ASSUME NEW P, CalledIs(P) PROVE vpc[x][i] \in P
      BY <2>4, <3>2, <1>1 DEF CalledIs
    <3>3. CASE Coming /\ CalledIs({"test", "sleep", "enter"})
      <4>1. vpc[x][i] \in {"test", "sleep", "enter"}
        BY <3>2, <3>3
      <4>2. CASE UNCHANGED <<doctor_enter, doctor_met>>
        <5>1. to \in {"test", "sleep", "enter"}
          BY <4>1, <4>2, <1>1, VisitorGoes
        <5>2. CalledIs({"test", "sleep", "enter"})'
          BY <5>1, <3>1
        <5>3. Coming'
          BY <4>2, <3>3, <1>2 DEF Coming, NoFlag, OnlyFree, OnlyEnter
        <5> QED
          BY <5>2, <5>3, <2>0, <2>2, <1>2, <1>9 DEF Baton
      <4>3. CASE ~UNCHANGED <<doctor_enter, doctor_met>>
        <5>1. doctor_enter /\ ~doctor_enter' /\ UNCHANGED doctor_met /\ to = "chamber"
          BY <4>1, <4>3, <1>1, VisitorGoes
        <5>2. CalledIs({"chamber"})'
          BY <5>1, <3>1
        <5>3. NoFlag' /\ dpc' = "meet"
          BY <5>1, <3>3, <1>2 DEF Coming, NoFlag, OnlyFree, OnlyEnter
        <5> QED
          BY <5>2, <5>3, <2>0, <2>2, <1>2, <1>9 DEF Baton
      <4> QED
        BY <4>2, <4>3
    <3>4. CASE NoFlag /\ dpc = "meet" /\ CalledIs({"chamber"})
      <4>1. vpc[x][i] = "chamber"
        BY <3>2, <3>4
      <4>2. doctor_met' /\ UNCHANGED doctor_enter /\ to = "gone"
        BY <4>1, <1>1, VisitorGoes
      <4>3. CalledIs({"gone"})'
        BY <4>2, <3>1
      <4>4. Ending'
        BY <4>2, <3>4, <1>2 DEF Ending, NoFlag, OnlyMet
      <4> QED
        BY <4>3, <4>4, <2>0, <2>2, <1>2, <1>9 DEF Baton
    <3>5. CASE Ending /\ CalledIs({"gone"})
      BY <3>2, <3>5, <1>3
    <3> QED
      BY <3>3, <3>4, <3>5, <1>9 DEF Baton
  <2> QED
    BY <2>3, <2>4
<1> QED
  BY <1>3, <1>8, <1>9

\* The four flags are one baton.
LEMMA BatonStep == Typed /\ Admitted /\ Baton /\ Over /\ [Next]_vars => Baton'
<1> SUFFICES ASSUME Typed, Admitted, Baton, Over, [Next]_vars PROVE Baton'
  OBVIOUS
<1> USE DEF Resting, Coming, Ending, Leaving, NoFlag, OnlyFree, OnlyEnter, OnlyMet, OnlyDone
<1>0. /\ doctor_free \in BOOLEAN /\ doctor_enter \in BOOLEAN
      /\ doctor_met \in BOOLEAN /\ doctor_done \in BOOLEAN
  BY DEF Typed
<1>1. ASSUME UNCHANGED vars PROVE Baton'
  <2>1. UNCHANGED <<num, current, session_done, doctor_free, doctor_enter, doctor_met,
                    doctor_done, apc, temp, dpc, vpc>>
    BY <1>1 DEF vars, book, session, hands
  <2> QED
    BY <2>1, ServedFrame DEF Baton
<1>2. ASSUME Arrive PROVE Baton'
  <2>1. Resting /\ AllServed /\ apc = "loop" /\ apc' = "loop"
    BY <1>2, Arrived DEF Baton
  <2>2. AllServed' /\ UNCHANGED <<doctor_free, doctor_enter, doctor_met, doctor_done, dpc>>
    BY <2>1, <1>2, Welcome, Arrived
  <2> QED
    BY <2>1, <2>2 DEF Baton
<1>3. ASSUME Doctor PROVE Baton'
  <2>1. /\ apc = "loop" /\ apc' \in {"last", "free"}
        /\ UNCHANGED <<doctor_free, doctor_enter, doctor_met, doctor_done, dpc, vpc, current>>
    BY <1>3 DEF Doctor, AssistantGoto, hands
  <2> QED
    BY <2>1, ServedFrame DEF Baton
<1>4. ASSUME LastCall PROVE Baton'
  <2>1. /\ apc = "last" /\ apc' = "lastwait" /\ doctor_free' = TRUE
        /\ UNCHANGED <<session_done, doctor_enter, doctor_met, doctor_done, dpc, vpc, current>>
    BY <1>4 DEF LastCall, AssistantGoto, book
  <2>2. Resting /\ AllServed /\ session_done /\ ~doctor_firstcase /\ dpc # "left"
    BY <2>1 DEF Baton, Over
  <2>3. AllServed'
    BY <2>1, <2>2, ServedFrame
  <2> QED
    BY <2>1, <2>2, <2>3 DEF Baton
<1>5. ASSUME LastWait PROVE Baton'
  <2>1. /\ apc = "lastwait"
        /\ UNCHANGED <<session_done, doctor_free, doctor_enter, doctor_met, dpc, vpc, current>>
        /\ \/ ~doctor_done /\ apc' = apc /\ UNCHANGED doctor_done
           \/ doctor_done /\ apc' = "free" /\ doctor_done' = FALSE
    BY <1>5 DEF LastWait, AwaitDone, AssistantGoto, book, session
  <2>2. Leaving /\ AllServed' /\ session_done
    BY <2>1, ServedFrame DEF Baton
  <2> QED
    BY <2>1, <2>2 DEF Baton
<1>6. ASSUME MakeFree PROVE Baton'
  <2>1. /\ apc = "free" /\ apc' = "call"
        /\ doctor_free' = (doctor_free \/ \E x \in Types : num[x] > 0)
        /\ UNCHANGED <<num, doctor_firstcase, session_done, doctor_enter, doctor_met, doctor_done, dpc,
                       vpc, current>>
    BY <1>6 DEF MakeFree, AssistantGoto, book, session
  <2>2. Resting /\ AllServed'
    BY <2>1, ServedFrame DEF Baton
  <2>3. CASE \E x \in Types : num[x] > 0
    <3>1. ~session_done /\ dpc # "left"
      BY <2>3 DEF Over, Typed
    <3>2. doctor_free'
      BY <2>1, <2>3
    <3>3. Coming'
      BY <2>1, <2>2, <3>1, <3>2
    <3> QED
      BY <2>1, <2>2, <2>3, <3>1, <3>3 DEF Baton
  <2>4. CASE ~\E x \in Types : num[x] > 0
    <3>1. ~doctor_free'
      BY <2>1, <2>2, <2>4
    <3>2. Resting' /\ ~(\E x \in Types : num[x] > 0)'
      BY <2>1, <2>2, <2>4, <3>1
    <3> QED
      BY <2>1, <2>2, <3>2 DEF Baton
  <2> QED
    BY <2>3, <2>4
<1>7. ASSUME Call PROVE Baton'
  <2>1. /\ apc = "call" /\ apc' = "signal" /\ \E x \in Types : num[x] > 0
        /\ UNCHANGED <<session_done, doctor_free, doctor_enter, doctor_met, doctor_done, dpc>>
    BY <1>7 DEF Call, First, AssistantGoto, session, hands
  <2>2. AllServed /\ Coming /\ ~session_done
    BY <2>1 DEF Baton
  <2>3. OthersServed' /\ CalledIs({"test", "sleep", "enter"})'
    BY <1>7, <2>2, Calling
  <2> QED
    BY <2>1, <2>2, <2>3 DEF Baton
<1>8. ASSUME Idle PROVE Baton'
  <2>1. /\ apc = "call" /\ apc' \in {"end", "loop"} /\ \A x \in Types : num[x] = 0
        /\ UNCHANGED <<doctor_free, doctor_enter, doctor_met, doctor_done, dpc, vpc, current>>
    BY <1>8 DEF Idle, AssistantGoto, session, hands
  <2>2. ~\E x \in Types : num[x] > 0
    BY <2>1
  <2>3. Resting /\ AllServed'
    BY <2>1, <2>2, ServedFrame DEF Baton
  <2> QED
    BY <2>1, <2>3 DEF Baton
<1>9. ASSUME SignalDoctor \/ SignalVisitor PROVE Baton'
  <2>1. /\ apc \in {"signal", "signalvisitor"} /\ apc' \in {"signalvisitor", "wait"}
        /\ UNCHANGED <<session_done, doctor_free, doctor_enter, doctor_met, doctor_done, temp, dpc,
                       vpc, current>>
    BY <1>9 DEF SignalDoctor, SignalVisitor, AssistantGoto, book, session, hands
  <2> QED
    BY <2>1, ServedFrame DEF Baton
<1>10. ASSUME Wait PROVE Baton'
  <2>1. /\ apc = "wait"
        /\ UNCHANGED <<session_done, doctor_free, doctor_enter, doctor_met, temp, dpc, vpc, current>>
        /\ \/ ~doctor_done /\ apc' = apc /\ UNCHANGED doctor_done
           \/ doctor_done /\ apc' = "loop" /\ doctor_done' = FALSE
    BY <1>10 DEF Wait, AwaitDone, AssistantGoto, session
  <2>2. CASE ~doctor_done
    BY <2>1, <2>2, ServedFrame DEF Baton
  <2>3. CASE doctor_done
    <3>1. OnlyDone /\ dpc = "test" /\ OthersServed /\ CalledIs({"gone"})
      BY <2>1, <2>3 DEF Baton
    <3>2. AllServed'
      BY <2>1, <3>1, ServedTogether, ServedFrame
    <3> QED
      BY <2>1, <2>3, <3>1, <3>2 DEF Baton
  <2> QED
    BY <2>2, <2>3
<1>11. ASSUME End PROVE Baton'
  <2>1. /\ apc = "end" /\ apc' = "join"
        /\ doctor_free' = doctor_free \/ doctor_free' = FALSE
        /\ UNCHANGED <<doctor_enter, doctor_met, doctor_done, dpc, vpc, current>>
    BY <1>11 DEF End, AssistantGoto, book
  <2>2. Resting /\ AllServed'
    BY <2>1, ServedFrame DEF Baton
  <2> QED
    BY <2>1, <2>2 DEF Baton
<1>12. ASSUME Join PROVE Baton'
  <2>1. /\ apc = "join" /\ apc' = "over"
        /\ UNCHANGED <<doctor_free, doctor_enter, doctor_met, doctor_done, dpc, vpc, current>>
    BY <1>12 DEF Join, AssistantGoto, book, session, hands
  <2> QED
    BY <2>1, ServedFrame DEF Baton
<1>13. ASSUME DoctorThread PROVE Baton'
  <2>1. UNCHANGED <<num, session_done, apc, temp, vpc, current>>
    BY <1>13 DEF DoctorThread, DoctorSleeps, TakeFree, Leave, Ready, TakeMet, Finish, Done,
                 book, session, hands
  <2>2. /\ AllServed' <=> AllServed
        /\ OthersServed' <=> OthersServed
        /\ CalledIs({"test", "sleep", "enter"})' <=> CalledIs({"test", "sleep", "enter"})
        /\ CalledIs({"chamber"})' <=> CalledIs({"chamber"})
        /\ CalledIs({"gone"})' <=> CalledIs({"gone"})
    BY <2>1, ServedFrame
  <2>3. CASE DoctorSleeps
    <3>1. UNCHANGED <<doctor_free, doctor_enter, doctor_met, doctor_done, dpc>>
      BY <2>3 DEF DoctorSleeps, DoctorGoto, hands
    <3> QED
      BY <3>1, <2>1, <2>2 DEF Baton
  <2>4. CASE TakeFree
    <3>1. /\ doctor_free /\ dpc = "test" /\ dpc' = "enter" /\ doctor_free' = FALSE
          /\ UNCHANGED <<doctor_enter, doctor_met, doctor_done>>
      BY <2>4 DEF TakeFree, DoctorGoto
    <3> QED
      BY <3>1, <2>1, <2>2 DEF Baton
  <2>5. CASE Leave
    <3>1. /\ session_done /\ dpc = "enter" /\ dpc' = "left" /\ doctor_done' = TRUE
          /\ UNCHANGED <<doctor_free, doctor_enter, doctor_met>>
      BY <2>5 DEF Leave, Done, DoctorGoto
    <3> QED
      BY <3>1, <2>1, <2>2 DEF Baton
  <2>6. CASE Ready
    <3>1. /\ ~session_done /\ dpc = "enter" /\ dpc' = "meet" /\ doctor_enter' = TRUE
          /\ UNCHANGED <<doctor_free, doctor_met, doctor_done>>
      BY <2>6 DEF Ready, DoctorGoto
    <3> QED
      BY <3>1, <2>1, <2>2 DEF Baton
  <2>7. CASE TakeMet
    <3>1. /\ doctor_met /\ dpc = "meet" /\ dpc' = "finish" /\ doctor_met' = FALSE
          /\ UNCHANGED <<doctor_free, doctor_enter, doctor_done>>
      BY <2>7 DEF TakeMet, DoctorGoto
    <3> QED
      BY <3>1, <2>1, <2>2 DEF Baton
  <2>8. CASE Finish
    <3>1. /\ dpc = "finish" /\ dpc' = "test" /\ doctor_done' = TRUE
          /\ UNCHANGED <<doctor_free, doctor_enter, doctor_met>>
      BY <2>8 DEF Finish, Done, DoctorGoto
    <3> QED
      BY <3>1, <2>1, <2>2 DEF Baton
  <2> QED
    BY <1>13, <2>3, <2>4, <2>5, <2>6, <2>7, <2>8 DEF DoctorThread
<1>14. ASSUME NEW x \in Types, NEW i \in DOMAIN vpc[x], Visitor(x, i) PROVE Baton'
  BY <1>14, VisitorStep
<1> QED
  BY <1>1, <1>2, <1>3, <1>4, <1>5, <1>6, <1>7, <1>8, <1>9, <1>10, <1>11, <1>12, <1>13, <1>14
  DEF Next, Assistant

-----------------------------------------------------------------------------
(* The end of the session                                                  *)

\* The session ends when nobody waits, and the doctor leaves after it.
LEMMA OverStep == Typed /\ Admitted /\ Baton /\ Over /\ [Next]_vars => Over'
<1> SUFFICES ASSUME Typed, Admitted, Baton, Over, [Next]_vars PROVE Over'
  OBVIOUS
<1>1. ASSUME UNCHANGED vars PROVE Over'
  BY <1>1 DEF vars, book, session, Over
<1>2. ASSUME Arrive PROVE Over'
  <2>1. apc = "loop" /\ apc' = "loop" /\ UNCHANGED <<doctor_firstcase, session_done, dpc>>
    BY <1>2, Arrived
  <2>2. UNCHANGED num \/ ~session_done
    BY <1>2, Arrived
  <2> QED
    BY <2>1, <2>2 DEF Over
<1>3. ASSUME Doctor PROVE Over'
  <2>1. /\ UNCHANGED <<num, current, doctor_firstcase, dpc>>
        /\ session_done' = (session_done \/ SessionOver)
        /\ apc' = IF ~doctor_firstcase /\ session_done' THEN "last" ELSE "free"
    BY <1>3 DEF Doctor, AssistantGoto
  <2>2. ASSUME SessionOver PROVE \A x \in Types : num[x] = 0
    <3>1. /\ num["R"] = 0 /\ current["P"] >= NUM_PATIENTS /\ current["S"] >= NUM_SALES_REPS
          /\ current["P"] + num["P"] <= NUM_PATIENTS /\ current["S"] + num["S"] <= NUM_SALES_REPS
      BY <2>2 DEF SessionOver, Admitted
    <3>2. /\ num["P"] \in Nat /\ num["S"] \in Nat /\ current["P"] \in Nat /\ current["S"] \in Nat
          /\ NUM_PATIENTS \in Nat /\ NUM_SALES_REPS \in Nat
      BY SessionAssumption DEF Typed, Types
    <3>3. num["P"] = 0 /\ num["S"] = 0
      BY <3>1, <3>2
    <3> QED
      BY <3>1, <3>3 DEF Types
  <2>3. session_done' => \A x \in Types : num[x] = 0
    BY <2>1, <2>2 DEF Over
  <2>4. apc' # "end" /\ (apc' = "last" => ~doctor_firstcase /\ session_done')
    BY <2>1
  <2>5. dpc' = "left" => doctor_firstcase' /\ session_done'
    BY <2>1 DEF Over
  <2> QED
    BY <2>1, <2>3, <2>4, <2>5 DEF Over
<1>4. ASSUME LastCall PROVE Over'
  BY <1>4 DEF LastCall, AssistantGoto, book, Over
<1>5. ASSUME LastWait PROVE Over'
  BY <1>5 DEF LastWait, AwaitDone, AssistantGoto, book, session, Over
<1>6. ASSUME MakeFree PROVE Over'
  BY <1>6 DEF MakeFree, AssistantGoto, book, session, Over
<1>7. ASSUME Call PROVE Over'
  <2>1. /\ apc' = "signal" /\ apc = "call" /\ \E x \in Types : num[x] > 0
        /\ UNCHANGED <<doctor_firstcase, session_done, dpc>>
    BY <1>7 DEF Call, First, AssistantGoto, session
  <2>2. ~session_done
    BY <2>1 DEF Baton
  <2> QED
    BY <2>1, <2>2 DEF Over
<1>8. ASSUME Idle PROVE Over'
  <2>1. /\ \A x \in Types : num'[x] = 0 /\ apc' \in {"end", "loop"}
        /\ UNCHANGED <<doctor_firstcase, session_done, dpc>>
    BY <1>8 DEF Idle, AssistantGoto, session
  <2> QED
    BY <2>1 DEF Over, Types
<1>9. ASSUME SignalDoctor \/ SignalVisitor PROVE Over'
  BY <1>9 DEF SignalDoctor, SignalVisitor, AssistantGoto, book, session, Over
<1>10. ASSUME Wait PROVE Over'
  BY <1>10 DEF Wait, AwaitDone, AssistantGoto, session, Over
<1>11. ASSUME End PROVE Over'
  BY <1>11 DEF End, AssistantGoto, book, Over
<1>12. ASSUME Join PROVE Over'
  BY <1>12 DEF Join, AssistantGoto, book, session, Over
<1>13. ASSUME DoctorThread PROVE Over'
  <2>1. UNCHANGED <<num, doctor_firstcase, session_done, apc>>
    BY <1>13 DEF DoctorThread, DoctorSleeps, TakeFree, Leave, Ready, TakeMet, Finish, Done, book, session
  <2>2. dpc' = "left" => dpc = "left" \/ (session_done /\ dpc = "enter")
    BY <1>13 DEF DoctorThread, DoctorSleeps, TakeFree, Leave, Ready, TakeMet, Finish, DoctorGoto
  <2>3. session_done /\ dpc = "enter" => apc = "lastwait"
    BY DEF Baton, Resting, Coming, Ending, OnlyEnter, OnlyMet, OnlyFree, NoFlag, OnlyDone
  <2> QED
    BY <2>1, <2>2, <2>3 DEF Over
<1>14. ASSUME NEW x \in Types, NEW i \in DOMAIN vpc[x], Visitor(x, i) PROVE Over'
  BY <1>14, VisitorKeeps DEF Over
<1> QED
  BY <1>1, <1>2, <1>3, <1>4, <1>5, <1>6, <1>7, <1>8, <1>9, <1>10, <1>11, <1>12, <1>13, <1>14
  DEF Next, Assistant

-----------------------------------------------------------------------------
(* The hand-off                                                            *)

\* In the beginning everybody is at the first place and no flag is set.
LEMMA InitIInv == Init => IInv
<1> SUFFICES ASSUME Init PROVE IInv
  OBVIOUS
<1> USE SessionAssumption
<1>1. Typed
  <2>1. << >> \in Seq(VisitorPlaces)
    OBVIOUS
  <2>2. vpc = [x \in Types |-> << >>] /\ num = [x \in Types |-> 0] /\ current = num /\ token = num
    BY DEF Init
  <2>3. /\ vpc \in [Types -> Seq(VisitorPlaces)]
        /\ num \in [Types -> Nat] /\ current \in [Types -> Nat] /\ token \in [Types -> Nat]
    BY <2>1, <2>2
  <2> QED
    BY <2>3 DEF Init, Typed
<1>2. Admitted
  <2>1. /\ \A x \in Types : num[x] = 0 /\ current[x] = 0 /\ token[x] = 0 /\ Len(vpc[x]) = 0
        /\ "P" \in Types /\ "S" \in Types /\ NUM_PATIENTS \in Nat /\ NUM_SALES_REPS \in Nat
    BY DEF Init, Types
  <2> QED
    BY <2>1 DEF Admitted
<1>3. Baton
  <2>1. AllServed
    BY DEF Init, AllServed
  <2> QED
    BY <2>1 DEF Init, Baton, Resting, NoFlag
<1>4. Over
  BY DEF Init, Over
<1> QED
  BY <1>1, <1>2, <1>3, <1>4 DEF IInv

\* Every step keeps the invariant.
LEMMA NextIInv == IInv /\ [Next]_vars => IInv'
BY TypedStep, AdmittedStep, BatonStep, OverStep DEF IInv

\* The invariant the other theorems are read off from.
THEOREM Invariant == Spec => []IInv
BY InitIInv, NextIInv, PTL DEF Spec

\* One visitor at a time is with the doctor, the one whose number is up, and no
\* flag outlives the visit it was set for (session.c:251-294, 336-346, 366-382),
\* for any arrivals and quotas and in every order of the threads' steps.
THEOREM HandedOver == Spec => []OneInChamber
<1>1. ASSUME IInv PROVE OneInChamber
  <2>1. Baton /\ Typed
    BY <1>1 DEF IInv
  <2>2. ASSUME NEW x \in Types, NEW i \in DOMAIN vpc[x], vpc[x][i] = "chamber"
        PROVE  x = temp.type /\ i = current[x] /\ dpc = "meet" /\ apc \in {"signal", "signalvisitor", "wait"}
    <3>1. i \in 1 .. Len(vpc[x])
      BY <2>1, <2>2 DEF Typed
    <3>2. ~Served(x, i)
      BY <2>1, <2>2, <3>1 DEF Served, Typed
    <3>3. ~AllServed
      BY <3>1, <3>2 DEF AllServed
    <3>4. apc \in {"signal", "signalvisitor", "wait"} /\ OthersServed
      BY <2>1, <3>3 DEF Baton
    <3>5. Called(x, i)
      BY <3>1, <3>2, <3>4 DEF OthersServed
    <3>6. \A P : CalledIs(P) => "chamber" \in P
      BY <2>2, <3>1, <3>5 DEF CalledIs
    <3>7. ~CalledIs({"test", "sleep", "enter"}) /\ ~CalledIs({"gone"})
      BY <3>6
    <3>8. dpc = "meet"
      BY <2>1, <3>4, <3>7 DEF Baton
    <3> QED
      BY <3>4, <3>5, <3>8 DEF Called
  <2>3. NoFlag \/ OnlyFree \/ OnlyEnter \/ OnlyMet \/ OnlyDone
    BY <2>1 DEF Baton, Resting, Coming, Ending, Leaving
  <2>4. Cardinality({j \in 1 .. 4 : <<doctor_free, doctor_enter, doctor_met, doctor_done>>[j]}) <= 1
    <3> DEFINE flag == <<doctor_free, doctor_enter, doctor_met, doctor_done>>
               up == {j \in 1 .. 4 : flag[j]}
    <3>1. /\ flag[1] = doctor_free /\ flag[2] = doctor_enter
          /\ flag[3] = doctor_met /\ flag[4] = doctor_done
      OBVIOUS
    <3> HIDE DEF flag
    <3>2. /\ \A j \in up : j = 1 \/ j = 2 \/ j = 3 \/ j = 4
          /\ 1 \in up <=> doctor_free
          /\ 2 \in up <=> doctor_enter
          /\ 3 \in up <=> doctor_met
          /\ 4 \in up <=> doctor_done
      BY <3>1
    <3> HIDE DEF up
    <3>3. up = {} \/ \E j \in 1 .. 4 : up = {j}
      <4>1. CASE NoFlag
        BY <4>1, <3>2 DEF NoFlag
      <4>2. CASE OnlyFree
        <5>1. up = {1}
          BY <4>2, <3>2 DEF OnlyFree
        <5> QED
          BY <5>1
      <4>3. CASE OnlyEnter
        <5>1. up = {2}
          BY <4>3, <3>2 DEF OnlyEnter
        <5> QED
          BY <5>1
      <4>4. CASE OnlyMet
        <5>1. up = {3}
          BY <4>4, <3>2 DEF OnlyMet
        <5> QED
          BY <5>1
      <4>5. CASE OnlyDone
        <5>1. up = {4}
          BY <4>5, <3>2 DEF OnlyDone
        <5> QED
          BY <5>1
      <4> QED
        BY <2>3, <4>1, <4>2, <4>3, <4>4, <4>5
    <3>4. Cardinality(up) = 0 \/ Cardinality(up) = 1
      BY <3>3, FS_EmptySet, FS_Singleton
    <3> QED
      BY <3>4 DEF up, flag
  <2>5. apc = "loop" => ~(doctor_free \/ doctor_enter \/ doctor_met \/ doctor_done)
    BY <2>1 DEF Baton, Resting, NoFlag
  <2>6. ASSUME NEW x \in Types, NEW i \in DOMAIN vpc[x], vpc[x][i] = "chamber",
               NEW y \in Types, NEW l \in DOMAIN vpc[y], vpc[y][l] = "chamber"
        PROVE  <<y, l>> = <<x, i>>
    <3>1. x = temp.type /\ i = current[x]
      BY <2>2, <2>6
    <3>2. y = temp.type /\ l = current[y]
      BY <2>2, <2>6
    <3> QED
      BY <3>1, <3>2
  <2> QED
    BY <2>2, <2>4, <2>5, <2>6 DEF OneInChamber
<1> QED
  BY <1>1, Invariant, PTL

\* When the doctor leaves, every visitor who was let in has been with him
\* (session.c:224).
THEOREM AllSeen == Spec => []NobodyForgotten
<1>1. ASSUME IInv PROVE NobodyForgotten
  <2>1. Typed /\ Admitted /\ Baton /\ Over
    BY <1>1 DEF IInv
  <2> SUFFICES ASSUME dpc = "left", NEW x \in Types
               PROVE  num[x] = 0 /\ \A i \in DOMAIN vpc[x] : vpc[x][i] = "gone"
    BY DEF NobodyForgotten
  <2>2. num[x] = 0
    BY <2>1 DEF Over
  <2>3. AllServed
    BY <2>1 DEF Baton, Resting, Coming, Ending, Leaving, Over
  <2>4. ASSUME NEW i \in DOMAIN vpc[x] PROVE vpc[x][i] = "gone"
    <3>1. i \in 1 .. Len(vpc[x]) /\ Len(vpc[x]) = current[x] /\ current[x] \in Nat
      BY <2>1, <2>2 DEF Typed, Admitted
    <3>2. i <= current[x]
      BY <3>1
    <3> QED
      BY <3>1, <3>2, <2>3 DEF AllServed, Served
  <2> QED
    BY <2>2, <2>4
<1> QED
  BY <1>1, Invariant, PTL

-----------------------------------------------------------------------------
(* Loops                                                                   *)

\* A set of numbers that is not empty has a least one.
LEMMA LeastNumber ==
  ASSUME NEW T, T \subseteq Nat, T # {}
  PROVE  \E x \in T : \A y \in T : ~(y < x)
<1> DEFINE Less == {ss \in Nat \X Nat : ss[1] < ss[2]}
<1>1. IsWellFoundedOn(Less, Nat)
  BY NatLessThanWellFounded DEF OpToRel
<1>2. \A x, y \in Nat : x < y => <<x, y>> \in Less
  OBVIOUS
<1> HIDE DEF Less
<1>3. PICK x \in T : \A y \in T : <<y, x>> \notin Less
  BY <1>1, WFMin
<1> QED
  BY <1>2, <1>3

\* A set with 0 and all successors has all numbers.
LEMMA AllNumbers ==
  ASSUME NEW T, 0 \in T, \A x \in Nat : x \in T => x + 1 \in T
  PROVE  Nat \subseteq T
<1> SUFFICES ASSUME Nat \ T # {} PROVE FALSE
  OBVIOUS
<1>1. PICK x \in Nat \ T : \A y \in Nat \ T : ~(y < x)
  BY LeastNumber
<1>2. x - 1 \in Nat /\ x - 1 < x /\ (x - 1) + 1 = x
  BY <1>1
<1> QED
  BY <1>1, <1>2

\* A loop over the states St that ends in the states of Ends and goes to nx[s] from another
\* state s, where m[s] gets smaller.
LoopEnds(St, Ends, nx, m, z) ==
    /\ \A s \in St : m[s] \in Nat /\ m[s] <= z
    /\ \A s \in St : s \notin Ends => nx[s] \in St /\ m[nx[s]] < m[s]

\* The function of its results exists ...
LEMMA LoopDefined ==
  ASSUME NEW St, NEW Ends, NEW nx, NEW m, NEW z \in Nat, LoopEnds(St, Ends, nx, m, z)
  PROVE  \E g : g = [s \in St |-> IF s \in Ends THEN s.Q ELSE g[nx[s]]]
<1> USE DEF LoopEnds
<1> DEFINE At(g, s) == g[s] = IF s \in Ends THEN s.Q ELSE g[nx[s]]
           Good == {x \in Nat : \E g : \A s \in St : m[s] <= x => At(g, s)}
<1>1. 0 \in Good
  <2> DEFINE g == [s \in St |-> s.Q]
  <2>1. \A s \in St : m[s] <= 0 => At(g, s)
    OBVIOUS
  <2> HIDE DEF g, At
  <2> QED
    BY <2>1
<1>2. ASSUME NEW x \in Nat, x \in Good PROVE x + 1 \in Good
  <2> HIDE DEF At
  <2>1. PICK g : \A s \in St : m[s] <= x => At(g, s)
    BY <1>2
  <2> DEFINE h == [s \in St |-> IF m[s] <= x THEN g[s]
                                ELSE IF s \in Ends THEN s.Q ELSE g[nx[s]]]
  <2>2. ASSUME NEW s \in St, m[s] <= x + 1 PROVE At(h, s)
    <3>1. s \notin Ends => h[nx[s]] = g[nx[s]]
      <4>1. s \notin Ends => nx[s] \in St /\ m[nx[s]] <= x
        BY <2>2
      <4> QED
        BY <4>1
    <3>2. h[s] = IF m[s] <= x THEN g[s] ELSE IF s \in Ends THEN s.Q ELSE g[nx[s]]
      OBVIOUS
    <3>3. m[s] <= x => g[s] = IF s \in Ends THEN s.Q ELSE g[nx[s]]
      BY <2>1 DEF At
    <3> HIDE DEF h
    <3> QED
      BY <3>1, <3>2, <3>3 DEF At
  <2> HIDE DEF h
  <2> QED
    BY <2>2
<1>3. z \in Good
  <2> HIDE DEF Good
  <2> QED
    BY <1>1, <1>2, AllNumbers
<1>4. PICK g : \A s \in St : At(g, s)
  BY <1>3
<1> DEFINE h == [s \in St |-> g[s]]
<1>5. \A s \in St : h[s] = IF s \in Ends THEN s.Q ELSE h[nx[s]]
  BY <1>4
<1>6. h = [s \in St |-> IF s \in Ends THEN s.Q ELSE h[nx[s]]]
  BY <1>5
<1> QED
  BY <1>6

\* ... and what holds where it ends, and where it holds in the next state, holds everywhere.
LEMMA LoopInduction ==
  ASSUME NEW St, NEW Ends, NEW nx, NEW m, NEW z, LoopEnds(St, Ends, nx, m, z),
         NEW T, \A s \in St : s \in Ends \/ nx[s] \in T => s \in T
  PROVE  St \subseteq T
<1> USE DEF LoopEnds
<1> SUFFICES ASSUME NEW s0 \in St, s0 \notin T PROVE FALSE
  OBVIOUS
<1> DEFINE M == {m[s] : s \in St \ T}
<1>1. M \subseteq Nat /\ M # {}
  OBVIOUS
<1>2. PICK x \in M : \A y \in M : ~(y < x)
  BY <1>1, LeastNumber
<1>3. PICK s \in St \ T : x = m[s]
  BY <1>2
<1>4. nx[s] \in St \ T /\ m[nx[s]] < m[s]
  BY <1>3
<1> QED
  BY <1>2, <1>3, <1>4

-----------------------------------------------------------------------------
(* The heap                                                                *)

Event == [type : Types \cup {"D"}, time : Int, duration : Nat]

\* The first entry is to come out before the other, or may.
NotAfter(a, b) == a.time < b.time \/ (a.time = b.time /\ Rank[a.type] <= Rank[b.type])

\* How many entries of Q are in P.
NumIn(Q, P) == Cardinality({j \in 1 .. Len(Q) : Q[j] \in P})

\* The same entries in another order.
Same(Q, K) == Len(K) = Len(Q) /\ \A P : NumIn(K, P) = NumIn(Q, P)

\* c is a child of p.
Child(p, c) == c = 2 * p \/ c = 2 * p + 1

\* From index a on no child goes before its parent.
HeapFrom(Q, a) ==
    \A p, c \in 1 .. Len(Q) : Child(p, c) /\ a <= p => NotAfter(Q[p], Q[c])

\* The entry of index i need not be where it belongs; those around it are.
Sinking(Q, a, i) ==
    /\ \A p, c \in 1 .. Len(Q) : Child(p, c) /\ a <= p /\ p # i => NotAfter(Q[p], Q[c])
    /\ \A p, c \in 1 .. Len(Q) : Child(p, i) /\ Child(i, c) /\ a <= p => NotAfter(Q[p], Q[c])

Rising(Q, i) ==
    /\ \A p, c \in 1 .. Len(Q) : Child(p, c) /\ c # i => NotAfter(Q[p], Q[c])
    /\ \A p, c \in 1 .. Len(Q) : Child(p, i) /\ Child(i, c) => NotAfter(Q[p], Q[c])

\* Whether eventcmp says that one event is before the other or not, one of the two orders is
\* right; and the order is transitive.
LEMMA Ordering ==
  /\ \A a, b \in Event : Before(a, b) => NotAfter(a, b)
  /\ \A a, b \in Event : ~Before(a, b) => NotAfter(b, a)
  /\ \A a, b, c \in Event : NotAfter(a, b) /\ NotAfter(b, c) => NotAfter(a, c)
  /\ \A a \in Event : NotAfter(a, a)
<1>1. \A a \in Event : a.time \in Int /\ a.type \in {"R", "P", "S", "D"} /\ Rank[a.type] \in Nat
  BY DEF Event, Types, Rank
<1>2. \A a, b \in Event : ~Before(a, b) => NotAfter(b, a)
  <2> SUFFICES ASSUME NEW a \in Event, NEW b \in Event, ~Before(a, b) PROVE NotAfter(b, a)
    OBVIOUS
  <2>1. ~(a.time < b.time)
    BY DEF Before
  <2>2. a.time = b.time => ~(Rank[a.type] < Rank[b.type])
    BY DEF Before
  <2> QED
    BY <1>1, <2>1, <2>2 DEF NotAfter
<1>3. \A a, b \in Event : Before(a, b) => NotAfter(a, b)
  BY <1>1 DEF Before, NotAfter
<1>4. \A a, b, c \in Event : NotAfter(a, b) /\ NotAfter(b, c) => NotAfter(a, c)
  BY <1>1 DEF NotAfter
<1>5. \A a \in Event : NotAfter(a, a)
  BY <1>1 DEF NotAfter
<1> QED
  BY <1>2, <1>3, <1>4, <1>5

\* Exchanging two entries keeps what is in the sequence.
LEMMA Swapping ==
  ASSUME NEW Q \in Seq(Event), NEW i \in 1 .. Len(Q), NEW l \in 1 .. Len(Q)
  PROVE  /\ Swap(Q, i, l) \in Seq(Event) /\ Len(Swap(Q, i, l)) = Len(Q)
         /\ Swap(Q, i, l)[i] = Q[l] /\ Swap(Q, i, l)[l] = Q[i]
         /\ \A j \in 1 .. Len(Q) : j # i /\ j # l => Swap(Q, i, l)[j] = Q[j]
         /\ Same(Q, Swap(Q, i, l))
         /\ Swap(Q, i, l) \in [DOMAIN Q -> Range(Q)]
<1> DEFINE K == Swap(Q, i, l)
<1>1. /\ K \in Seq(Event) /\ Len(K) = Len(Q) /\ K[i] = Q[l] /\ K[l] = Q[i]
      /\ \A j \in 1 .. Len(Q) : j # i /\ j # l => K[j] = Q[j]
  BY DEF Swap
<1>2. K \in [DOMAIN Q -> Range(Q)]
  <2>1. DOMAIN Q = 1 .. Len(Q) /\ DOMAIN K = 1 .. Len(Q)
    BY <1>1
  <2>2. \A j \in 1 .. Len(Q) : K[j] \in Range(Q)
    BY <1>1, <2>1 DEF Range
  <2>3. K = [j \in DOMAIN K |-> K[j]]
    BY <1>1
  <2> QED
    BY <2>1, <2>2, <2>3
<1> HIDE DEF K
<1>3. ASSUME NEW P PROVE NumIn(K, P) = NumIn(Q, P)
  <2> DEFINE A == {j \in 1 .. Len(Q) : Q[j] \in P}
             B == {j \in 1 .. Len(K) : K[j] \in P}
  <2>1. IsFiniteSet(A) /\ IsFiniteSet(B) /\ Cardinality(A) \in Nat /\ Cardinality(B) \in Nat
    <3>1. IsFiniteSet(1 .. Len(Q)) /\ A \subseteq 1 .. Len(Q) /\ B \subseteq 1 .. Len(Q)
      <4>1. Len(Q) \in Nat
        OBVIOUS
      <4>2. IsFiniteSet(1 .. Len(Q))
        BY <4>1, FS_Interval
      <4> QED
        BY <1>1, <4>2
    <3> QED
      BY <3>1, FS_Subset, FS_CardinalityType
  <2>2. CASE Q[i] \in P <=> Q[l] \in P
    <3>1. A = B
      BY <1>1, <2>2
    <3> QED
      BY <3>1 DEF NumIn
  <2>3. CASE Q[i] \in P /\ Q[l] \notin P
    <3>1. i \in A /\ l \notin A /\ l \in B /\ i \notin B /\ A \ {i} = B \ {l}
      BY <1>1, <2>3
    <3>2. Cardinality(A \ {i}) = Cardinality(A) - 1 /\ Cardinality(B \ {l}) = Cardinality(B) - 1
      BY <2>1, <3>1, FS_RemoveElement
    <3> HIDE DEF A, B
    <3>3. Cardinality(A \ {i}) = Cardinality(B \ {l})
      BY <3>1
    <3>4. Cardinality(A) = Cardinality(B)
      BY <2>1, <3>2, <3>3
    <3> QED
      BY <3>4 DEF NumIn, A, B
  <2>4. CASE Q[i] \notin P /\ Q[l] \in P
    <3>1. l \in A /\ i \notin A /\ i \in B /\ l \notin B /\ A \ {l} = B \ {i}
      BY <1>1, <2>4
    <3>2. Cardinality(A \ {l}) = Cardinality(A) - 1 /\ Cardinality(B \ {i}) = Cardinality(B) - 1
      BY <2>1, <3>1, FS_RemoveElement
    <3> HIDE DEF A, B
    <3>3. Cardinality(A \ {l}) = Cardinality(B \ {i})
      BY <3>1
    <3>4. Cardinality(A) = Cardinality(B)
      BY <2>1, <3>2, <3>3
    <3> QED
      BY <3>4 DEF NumIn, A, B
  <2> QED
    BY <2>2, <2>3, <2>4
<1> QED
  BY <1>1, <1>2, <1>3 DEF Same, K

\* The child that MinChild names goes first.
LEMMA FirstChild ==
  ASSUME NEW Q \in Seq(Event), NEW i \in 1 .. Len(Q), 2 * i <= Len(Q)
  PROVE  /\ MinChild(Q, i) \in 1 .. Len(Q) /\ Child(i, MinChild(Q, i)) /\ MinChild(Q, i) > i
         /\ \A c \in 1 .. Len(Q) : Child(i, c) => NotAfter(Q[MinChild(Q, i)], Q[c])
<1>0. i \in Nat /\ i > 0 /\ Len(Q) \in Nat /\ \A j \in 1 .. Len(Q) : Q[j] \in Event
  OBVIOUS
<1>1. 2 * i \in 1 .. Len(Q)
  BY <1>0
<1>2. CASE 2 * i + 1 > Len(Q)
  <2>1. MinChild(Q, i) = 2 * i
    BY <1>2 DEF MinChild
  <2>2. \A c \in 1 .. Len(Q) : Child(i, c) => c = 2 * i
    BY <1>0, <1>2 DEF Child
  <2> QED
    BY <1>0, <1>1, <2>1, <2>2, Ordering DEF Child
<1>3. CASE ~(2 * i + 1 > Len(Q))
  <2>1. 2 * i + 1 \in 1 .. Len(Q)
    BY <1>0, <1>3
  <2>2. Q[2 * i] \in Event /\ Q[2 * i + 1] \in Event
    BY <1>0, <1>1, <2>1
  <2>3. CASE Before(Q[2 * i], Q[2 * i + 1])
    <3>1. MinChild(Q, i) = 2 * i
      BY <2>3 DEF MinChild
    <3>2. NotAfter(Q[2 * i], Q[2 * i + 1]) /\ NotAfter(Q[2 * i], Q[2 * i])
      BY <2>2, <2>3, Ordering
    <3> QED
      BY <1>0, <1>1, <3>1, <3>2 DEF Child
  <2>4. CASE ~Before(Q[2 * i], Q[2 * i + 1])
    <3>1. MinChild(Q, i) = 2 * i + 1
      BY <1>3, <2>4 DEF MinChild
    <3>2. NotAfter(Q[2 * i + 1], Q[2 * i]) /\ NotAfter(Q[2 * i + 1], Q[2 * i + 1])
      BY <2>2, <2>4, Ordering
    <3> QED
      BY <1>0, <2>1, <3>1, <3>2 DEF Child
  <2> QED
    BY <2>3, <2>4
<1> QED
  BY <1>2, <1>3

\* Parents and children.
LEMMA Family ==
  /\ \A p, q, c \in Nat : Child(p, c) /\ Child(q, c) => p = q
  /\ \A p, c \in Nat : Child(p, c) /\ p > 0 => c > p
BY DEF Child

\* An entry that does not go after its children is where it belongs.
LEMMA DownStops ==
  ASSUME NEW Q \in Seq(Event), NEW i \in 1 .. Len(Q), NEW a \in Nat, Sinking(Q, a, i),
         DownEnds(Q, i)
  PROVE  HeapFrom(Q, a)
<1>0. i \in Nat /\ i > 0 /\ Len(Q) \in Nat /\ \A j \in 1 .. Len(Q) : Q[j] \in Event
  OBVIOUS
<1>1. \A c \in 1 .. Len(Q) : Child(i, c) => NotAfter(Q[i], Q[c])
  <2>1. CASE 2 * i > Len(Q)
    BY <1>0, <2>1 DEF Child
  <2>2. CASE 2 * i <= Len(Q)
    <3>1. Before(Q[i], Q[MinChild(Q, i)])
      BY <1>0, <2>2 DEF DownEnds
    <3>2. /\ MinChild(Q, i) \in 1 .. Len(Q)
          /\ \A c \in 1 .. Len(Q) : Child(i, c) => NotAfter(Q[MinChild(Q, i)], Q[c])
      BY <2>2, FirstChild
    <3>3. NotAfter(Q[i], Q[MinChild(Q, i)])
      BY <1>0, <3>1, <3>2, Ordering
    <3> QED
      BY <1>0, <3>2, <3>3, Ordering
  <2> QED
    BY <1>0, <2>1, <2>2
<1> QED
  BY <1>1 DEF Sinking, HeapFrom

\* An entry that changes places with the first of its children leaves a heap above it.
LEMMA DownMoves ==
  ASSUME NEW Q \in Seq(Event), NEW i \in 1 .. Len(Q), NEW a \in Nat, Sinking(Q, a, i),
         ~DownEnds(Q, i)
  PROVE  /\ MinChild(Q, i) \in 1 .. Len(Q) /\ MinChild(Q, i) > i
         /\ Sinking(Swap(Q, i, MinChild(Q, i)), a, MinChild(Q, i))
<1> DEFINE l == MinChild(Q, i)
           K == Swap(Q, i, l)
<1>0. i \in Nat /\ i > 0 /\ Len(Q) \in Nat /\ \A j \in 1 .. Len(Q) : Q[j] \in Event
  OBVIOUS
<1>1. 2 * i <= Len(Q) /\ ~Before(Q[i], Q[l])
  BY <1>0 DEF DownEnds
<1>2. /\ l \in 1 .. Len(Q) /\ Child(i, l) /\ l > i
      /\ \A c \in 1 .. Len(Q) : Child(i, c) => NotAfter(Q[l], Q[c])
  BY <1>1, FirstChild
<1>3. NotAfter(Q[l], Q[i])
  BY <1>0, <1>1, <1>2, Ordering
<1> HIDE DEF l
<1>4. /\ Len(K) = Len(Q) /\ K[i] = Q[l] /\ K[l] = Q[i]
      /\ \A j \in 1 .. Len(Q) : j # i /\ j # l => K[j] = Q[j]
  BY <1>2, Swapping
<1> HIDE DEF K
<1>5. \A p, c \in 1 .. Len(Q) : Child(p, c) => p \in Nat /\ c \in Nat /\ c > p
  BY <1>0, Family
<1>6. ASSUME NEW p \in 1 .. Len(Q), NEW c \in 1 .. Len(Q), Child(p, c), a <= p, p # l
      PROVE  NotAfter(K[p], K[c])
  <2>1. CASE p = i
    <3>1. CASE c = l
      BY <1>3, <1>4, <2>1, <3>1
    <3>2. CASE c # l
      <4>1. c # i
        BY <1>5, <1>6, <2>1
      <4> QED
        BY <1>2, <1>4, <1>6, <2>1, <3>2, <4>1
    <3> QED
      BY <3>1, <3>2
  <2>2. CASE p # i /\ c = i
    <3>1. NotAfter(Q[p], Q[l])
      BY <1>2, <1>6, <2>2 DEF Sinking
    <3> QED
      BY <1>4, <1>6, <2>2, <3>1
  <2>3. CASE p # i /\ c # i
    <3>1. c # l
      BY <1>0, <1>2, <1>6, <2>3, Family
    <3>2. NotAfter(Q[p], Q[c])
      BY <1>6, <2>3 DEF Sinking
    <3> QED
      BY <1>4, <1>6, <2>3, <3>1, <3>2
  <2> QED
    BY <2>1, <2>2, <2>3
<1>7. ASSUME NEW p \in 1 .. Len(Q), NEW c \in 1 .. Len(Q), Child(p, l), Child(l, c), a <= p
      PROVE  NotAfter(K[p], K[c])
  <2>1. p = i
    BY <1>0, <1>2, <1>7, Family
  <2>2. c # l /\ c # i
    BY <1>2, <1>5, <1>7
  <2>3. NotAfter(Q[l], Q[c])
    BY <1>2, <1>5, <1>7, <2>1 DEF Sinking
  <2> QED
    BY <1>4, <2>1, <2>2, <2>3
<1>8. Sinking(K, a, l)
  BY <1>4, <1>6, <1>7 DEF Sinking
<1> QED
  BY <1>2, <1>8 DEF K, l

\* The sequences a loop over Q passes through.
LEMMA LoopStates ==
  ASSUME NEW Q \in Seq(Event)
  PROVE  /\ Q \in [DOMAIN Q -> Range(Q)]
         /\ \A K \in [DOMAIN Q -> Range(Q)] :
               /\ K \in Seq(Event) /\ Len(K) = Len(Q) /\ DOMAIN K = 1 .. Len(Q)
               /\ \A L \in [DOMAIN K -> Range(K)] : L \in [DOMAIN Q -> Range(Q)]
<1>1. DOMAIN Q = 1 .. Len(Q) /\ Len(Q) \in Nat
  OBVIOUS
<1>2. Range(Q) \subseteq Event
  BY <1>1 DEF Range
<1>3. Q \in [DOMAIN Q -> Range(Q)]
  <2>1. \A j \in DOMAIN Q : Q[j] \in Range(Q)
    BY DEF Range
  <2>2. Q = [j \in DOMAIN Q |-> Q[j]]
    OBVIOUS
  <2> QED
    BY <2>1, <2>2
<1>4. ASSUME NEW K \in [DOMAIN Q -> Range(Q)]
      PROVE  /\ K \in Seq(Event) /\ Len(K) = Len(Q) /\ DOMAIN K = 1 .. Len(Q)
             /\ \A L \in [DOMAIN K -> Range(K)] : L \in [DOMAIN Q -> Range(Q)]
  <2>1. K \in [1 .. Len(Q) -> Event] /\ DOMAIN K = 1 .. Len(Q)
    BY <1>1, <1>2
  <2>2. K \in Seq(Event)
    BY <1>1, <2>1
  <2>3. Len(K) = Len(Q)
    BY <1>1, <2>1, <2>2
  <2>4. Range(K) \subseteq Range(Q)
    BY DEF Range
  <2>5. \A L \in [DOMAIN K -> Range(K)] : L \in [DOMAIN Q -> Range(Q)]
    BY <1>1, <2>1, <2>4
  <2> QED
    BY <2>1, <2>2, <2>3, <2>5
<1> QED
  BY <1>3, <1>4

\* What is the same in another order twice is the same in another order.
LEMMA SameTwice ==
  ASSUME NEW Q, NEW K, NEW L, Same(Q, K), Same(K, L)
  PROVE  Same(Q, L)
BY DEF Same

\* What the loop of Down makes of a sequence in which one entry may be too high.
LEMMA DownRight ==
  ASSUME NEW Q \in Seq(Event), NEW i \in 1 .. Len(Q), NEW a \in Nat
  PROVE  /\ Down(Q, i) \in [DOMAIN Q -> Range(Q)] /\ Same(Q, Down(Q, i))
         /\ Sinking(Q, a, i) => HeapFrom(Down(Q, i), a)
<1> DEFINE St == Loop(Q, DOMAIN Q)
           Ends == {s \in St : DownEnds(s.Q, s.i)}
           Goes(s) == [Q |-> Swap(s.Q, s.i, MinChild(s.Q, s.i)), i |-> MinChild(s.Q, s.i)]
           nx == [s \in St |-> Goes(s)]
           m == [s \in St |-> Len(Q) - s.i]
           Is(g) == g = [s \in St |-> IF DownEnds(s.Q, s.i) THEN s.Q
                            ELSE g[[Q |-> Swap(s.Q, s.i, MinChild(s.Q, s.i)),
                                    i |-> MinChild(s.Q, s.i)]]]
<1>0. DOMAIN Q = 1 .. Len(Q) /\ Len(Q) \in Nat
  OBVIOUS
<1>1. \A s \in St : /\ s.Q \in [DOMAIN Q -> Range(Q)] /\ s.i \in 1 .. Len(Q)
                    /\ s.Q \in Seq(Event) /\ Len(s.Q) = Len(Q) /\ s.i \in 1 .. Len(s.Q)
  BY <1>0, LoopStates DEF Loop
<1>2. \A s \in St : m[s] \in Nat /\ m[s] <= Len(Q)
  BY <1>0, <1>1
<1>3. ASSUME NEW s \in St, s \notin Ends
      PROVE  /\ Goes(s) \in St /\ m[Goes(s)] < m[s] /\ Same(s.Q, Goes(s).Q)
             /\ Sinking(s.Q, a, s.i) => Sinking(Goes(s).Q, a, Goes(s).i)
  <2>1. ~DownEnds(s.Q, s.i)
    BY <1>3
  <2>2. MinChild(s.Q, s.i) \in 1 .. Len(s.Q) /\ MinChild(s.Q, s.i) > s.i
    <3>1. 2 * s.i <= Len(s.Q)
      BY <1>1, <2>1 DEF DownEnds
    <3> QED
      BY <1>1, <3>1, FirstChild
  <2>3. /\ Goes(s).Q \in [DOMAIN s.Q -> Range(s.Q)] /\ Same(s.Q, Goes(s).Q)
        /\ Goes(s).i = MinChild(s.Q, s.i)
    BY <1>1, <2>2, Swapping
  <2>4. Goes(s).Q \in [DOMAIN Q -> Range(Q)] /\ Goes(s).i \in DOMAIN Q
    BY <1>0, <1>1, <2>2, <2>3, LoopStates
  <2>5. Goes(s) \in St
    <3>1. Goes(s) = [Q |-> Goes(s).Q, i |-> Goes(s).i]
      OBVIOUS
    <3> QED
      BY <2>4, <3>1 DEF Loop
  <2>6. Sinking(s.Q, a, s.i) => Sinking(Goes(s).Q, a, Goes(s).i)
    BY <1>1, <2>1, DownMoves
  <2>7. m[Goes(s)] < m[s]
    BY <1>1, <1>2, <2>2, <2>3, <2>5
  <2> QED
    BY <2>3, <2>5, <2>6, <2>7
<1> HIDE DEF Goes
<1>4. LoopEnds(St, Ends, nx, m, Len(Q))
  BY <1>2, <1>3 DEF LoopEnds
<1>5. PICK g0 : g0 = [s \in St |-> IF s \in Ends THEN s.Q ELSE g0[nx[s]]]
  <2>1. Len(Q) \in Nat
    OBVIOUS
  <2> HIDE DEF St, Ends, nx, m
  <2> QED
    BY <2>1, <1>4, LoopDefined
<1>6. Is(g0)
  <2>1. [s \in St |-> IF s \in Ends THEN s.Q ELSE g0[nx[s]]]
        = [s \in St |-> IF DownEnds(s.Q, s.i) THEN s.Q
                            ELSE g0[[Q |-> Swap(s.Q, s.i, MinChild(s.Q, s.i)),
                                    i |-> MinChild(s.Q, s.i)]]]
    BY DEF Goes
  <2> QED
    BY <1>5, <2>1
<1> DEFINE g == CHOOSE g : Is(g)
<1>7. Is(g)
  <2> HIDE DEF Is
  <2> QED
    BY <1>6
<1>8. Down(Q, i) = g[[Q |-> Q, i |-> i]]
  BY DEF Down
<1> HIDE DEF g
<1>9. \A s \in St : g[s] = IF s \in Ends THEN s.Q ELSE g[nx[s]]
  BY <1>7 DEF Goes
<1> DEFINE T == {s \in St : /\ g[s] \in [DOMAIN Q -> Range(Q)] /\ Same(s.Q, g[s])
                            /\ Sinking(s.Q, a, s.i) => HeapFrom(g[s], a)}
<1>10. \A s \in St : s \in Ends \/ nx[s] \in T => s \in T
  <2> SUFFICES ASSUME NEW s \in St, s \in Ends \/ nx[s] \in T PROVE s \in T
    OBVIOUS
  <2>1. CASE s \in Ends
    <3>1. g[s] = s.Q /\ DownEnds(s.Q, s.i)
      BY <1>9, <2>1
    <3>2. Sinking(s.Q, a, s.i) => HeapFrom(s.Q, a)
      BY <1>1, <3>1, DownStops
    <3>3. Same(s.Q, s.Q)
      BY DEF Same
    <3> QED
      BY <1>1, <3>1, <3>2, <3>3
  <2>2. CASE s \notin Ends
    <3>1. g[s] = g[nx[s]] /\ nx[s] = Goes(s) /\ nx[s] \in T
      BY <1>9, <2>2
    <3>2. /\ g[s] \in [DOMAIN Q -> Range(Q)] /\ Same(Goes(s).Q, g[s])
          /\ Sinking(Goes(s).Q, a, Goes(s).i) => HeapFrom(g[s], a)
      BY <3>1
    <3>3. /\ Same(s.Q, Goes(s).Q)
          /\ Sinking(s.Q, a, s.i) => Sinking(Goes(s).Q, a, Goes(s).i)
      BY <1>3, <2>2
    <3>4. Same(s.Q, g[s])
      BY <3>2, <3>3, SameTwice
    <3> QED
      BY <3>2, <3>3, <3>4
  <2> QED
    BY <2>1, <2>2
<1>11. St \subseteq T
  <2> HIDE DEF St, Ends, nx, m, T
  <2> QED
    BY <1>4, <1>10, LoopInduction
<1>12. [Q |-> Q, i |-> i] \in St
  BY <1>0, LoopStates DEF Loop
<1>13. [Q |-> Q, i |-> i] \in T
  BY <1>11, <1>12
<1> QED
  BY <1>8, <1>13

\* The parent of an entry that is not the first.
LEMMA Parent ==
  ASSUME NEW i \in Nat, i > 1
  PROVE  i \div 2 \in Nat /\ 1 <= i \div 2 /\ i \div 2 < i /\ Child(i \div 2, i)
<1>1. i \div 2 \in Nat /\ 2 * (i \div 2) <= i /\ i <= 2 * (i \div 2) + 1
  OBVIOUS
<1> QED
  BY <1>1 DEF Child

\* An entry that does not go before its parent is where it belongs.
LEMMA UpStops ==
  ASSUME NEW Q \in Seq(Event), NEW i \in 1 .. Len(Q), Rising(Q, i),
         i = 1 \/ Before(Q[i \div 2], Q[i])
  PROVE  HeapFrom(Q, 1)
<1>0. i \in Nat /\ i > 0 /\ Len(Q) \in Nat /\ \A j \in 1 .. Len(Q) : Q[j] \in Event
  OBVIOUS
<1>1. \A p \in 1 .. Len(Q) : Child(p, i) => NotAfter(Q[p], Q[i])
  <2> SUFFICES ASSUME NEW p \in 1 .. Len(Q), Child(p, i) PROVE NotAfter(Q[p], Q[i])
    OBVIOUS
  <2>1. p \in Nat /\ i > p /\ i > 1 /\ i # 1
    BY <1>0, Family
  <2>2. p = i \div 2
    BY <1>0, <2>1, Parent, Family
  <2> QED
    BY <1>0, <2>1, <2>2, Ordering
<1> QED
  BY <1>1 DEF Rising, HeapFrom

\* An entry that changes places with its parent leaves a heap below it.
LEMMA UpMoves ==
  ASSUME NEW Q \in Seq(Event), NEW i \in 1 .. Len(Q), Rising(Q, i),
         ~(i = 1 \/ Before(Q[i \div 2], Q[i]))
  PROVE  /\ i \div 2 \in 1 .. Len(Q) /\ i \div 2 < i
         /\ Rising(Swap(Q, i, i \div 2), i \div 2)
<1> DEFINE l == i \div 2
           K == Swap(Q, i, l)
<1>0. i \in Nat /\ i > 1 /\ Len(Q) \in Nat /\ \A j \in 1 .. Len(Q) : Q[j] \in Event
  OBVIOUS
<1>1. l \in Nat /\ 1 <= l /\ l < i /\ Child(l, i)
  BY <1>0, Parent
<1> HIDE DEF l
<1>2. l \in 1 .. Len(Q) /\ Child(l, i) /\ l # i
  BY <1>0, <1>1
<1>3. NotAfter(Q[i], Q[l])
  BY <1>0, <1>2, Ordering DEF l
<1>4. /\ Len(K) = Len(Q) /\ K[i] = Q[l] /\ K[l] = Q[i]
      /\ \A j \in 1 .. Len(Q) : j # i /\ j # l => K[j] = Q[j]
  BY <1>2, Swapping
<1> HIDE DEF K
<1>5. \A p, c \in 1 .. Len(Q) : Child(p, c) => p \in Nat /\ c \in Nat /\ c > p
  BY <1>0, Family
<1>6. ASSUME NEW p \in 1 .. Len(Q), NEW c \in 1 .. Len(Q), Child(p, c), c # l
      PROVE  NotAfter(K[p], K[c])
  <2>1. CASE c = i
    <3>1. p = l
      BY <1>1, <1>5, <1>6, <2>1, Family
    <3> QED
      BY <1>3, <1>4, <2>1, <3>1
  <2>2. CASE c # i /\ p = i
    <3>1. NotAfter(Q[l], Q[c])
      BY <1>2, <1>6, <2>2 DEF Rising
    <3> QED
      BY <1>4, <1>6, <2>2, <3>1
  <2>3. CASE c # i /\ p = l
    <3>1. NotAfter(Q[l], Q[c])
      BY <1>6, <2>3 DEF Rising
    <3>2. NotAfter(Q[i], Q[c])
      BY <1>0, <1>2, <1>3, <3>1, Ordering
    <3> QED
      BY <1>4, <1>6, <2>3, <3>2
  <2>4. CASE c # i /\ p # i /\ p # l
    <3>1. NotAfter(Q[p], Q[c])
      BY <1>6, <2>4 DEF Rising
    <3> QED
      BY <1>4, <1>6, <2>4, <3>1
  <2> QED
    BY <2>1, <2>2, <2>3, <2>4
<1>7. ASSUME NEW p \in 1 .. Len(Q), NEW c \in 1 .. Len(Q), Child(p, l), Child(l, c)
      PROVE  NotAfter(K[p], K[c])
  <2>1. p # l /\ p # i /\ c # l
    BY <1>1, <1>2, <1>5, <1>7
  <2>2. NotAfter(Q[p], Q[l])
    BY <1>2, <1>7 DEF Rising
  <2>3. CASE c = i
    BY <1>4, <2>1, <2>2, <2>3
  <2>4. CASE c # i
    <3>1. NotAfter(Q[l], Q[c])
      BY <1>2, <1>7, <2>4 DEF Rising
    <3>2. NotAfter(Q[p], Q[c])
      BY <1>0, <1>2, <2>2, <3>1, Ordering
    <3> QED
      BY <1>4, <2>1, <2>4, <3>2
  <2> QED
    BY <2>3, <2>4
<1>8. Rising(K, l)
  BY <1>4, <1>6, <1>7 DEF Rising
<1> QED
  BY <1>1, <1>2, <1>8 DEF K, l

\* What the loop of Up makes of a sequence whose last entry may be too low.
LEMMA UpRight ==
  ASSUME NEW Q \in Seq(Event), Q # << >>, Rising(Q, Len(Q))
  PROVE  /\ Up(Q) \in [DOMAIN Q -> Range(Q)]
         /\ HeapFrom(Up(Q), 1) /\ Same(Q, Up(Q))
<1> DEFINE St == Loop(Q, DOMAIN Q)
           Ends == {s \in St : s.i = 1 \/ Before(s.Q[s.i \div 2], s.Q[s.i])}
           Goes(s) == [Q |-> Swap(s.Q, s.i, s.i \div 2), i |-> s.i \div 2]
           nx == [s \in St |-> Goes(s)]
           m == [s \in St |-> s.i]
           Is(g) == g = [s \in St |-> IF s.i = 1 \/ Before(s.Q[s.i \div 2], s.Q[s.i]) THEN s.Q
                            ELSE g[[Q |-> Swap(s.Q, s.i, s.i \div 2), i |-> s.i \div 2]]]
<1>0. DOMAIN Q = 1 .. Len(Q) /\ Len(Q) \in Nat /\ Len(Q) \in 1 .. Len(Q)
  OBVIOUS
<1>1. \A s \in St : /\ s.Q \in [DOMAIN Q -> Range(Q)] /\ s.i \in 1 .. Len(Q)
                    /\ s.Q \in Seq(Event) /\ Len(s.Q) = Len(Q) /\ s.i \in 1 .. Len(s.Q)
  BY <1>0, LoopStates DEF Loop
<1>2. \A s \in St : m[s] \in Nat /\ m[s] <= Len(Q)
  BY <1>0, <1>1
<1>3. ASSUME NEW s \in St, s \notin Ends
      PROVE  /\ Goes(s) \in St /\ m[Goes(s)] < m[s] /\ Same(s.Q, Goes(s).Q)
             /\ Rising(s.Q, s.i) => Rising(Goes(s).Q, Goes(s).i)
  <2>1. ~(s.i = 1 \/ Before(s.Q[s.i \div 2], s.Q[s.i]))
    BY <1>3
  <2>2. s.i \div 2 \in 1 .. Len(s.Q) /\ s.i \div 2 < s.i
    <3>1. s.i \in Nat /\ s.i > 1
      BY <1>1, <2>1
    <3> QED
      BY <1>1, <3>1, Parent
  <2>3. /\ Goes(s).Q \in [DOMAIN s.Q -> Range(s.Q)] /\ Same(s.Q, Goes(s).Q)
        /\ Goes(s).i = s.i \div 2
    BY <1>1, <2>2, Swapping
  <2>4. Goes(s).Q \in [DOMAIN Q -> Range(Q)] /\ Goes(s).i \in DOMAIN Q
    BY <1>0, <1>1, <2>2, <2>3, LoopStates
  <2>5. Goes(s) \in St
    <3>1. Goes(s) = [Q |-> Goes(s).Q, i |-> Goes(s).i]
      OBVIOUS
    <3> QED
      BY <2>4, <3>1 DEF Loop
  <2>6. Rising(s.Q, s.i) => Rising(Goes(s).Q, Goes(s).i)
    BY <1>1, <2>1, UpMoves
  <2>7. m[Goes(s)] < m[s]
    BY <1>1, <1>2, <2>2, <2>3, <2>5
  <2> QED
    BY <2>3, <2>5, <2>6, <2>7
<1> HIDE DEF Goes
<1>4. LoopEnds(St, Ends, nx, m, Len(Q))
  BY <1>2, <1>3 DEF LoopEnds
<1>5. PICK g0 : g0 = [s \in St |-> IF s \in Ends THEN s.Q ELSE g0[nx[s]]]
  <2>1. Len(Q) \in Nat
    OBVIOUS
  <2> HIDE DEF St, Ends, nx, m
  <2> QED
    BY <2>1, <1>4, LoopDefined
<1>6. Is(g0)
  <2>1. [s \in St |-> IF s \in Ends THEN s.Q ELSE g0[nx[s]]]
        = [s \in St |-> IF s.i = 1 \/ Before(s.Q[s.i \div 2], s.Q[s.i]) THEN s.Q
                            ELSE g0[[Q |-> Swap(s.Q, s.i, s.i \div 2), i |-> s.i \div 2]]]
    BY DEF Goes
  <2> QED
    BY <1>5, <2>1
<1> DEFINE g == CHOOSE g : Is(g)
<1>7. Is(g)
  <2> HIDE DEF Is
  <2> QED
    BY <1>6
<1>8. Up(Q) = g[[Q |-> Q, i |-> Len(Q)]]
  BY DEF Up
<1> HIDE DEF g
<1>9. \A s \in St : g[s] = IF s \in Ends THEN s.Q ELSE g[nx[s]]
  BY <1>7 DEF Goes
<1> DEFINE T == {s \in St : /\ g[s] \in [DOMAIN Q -> Range(Q)] /\ Same(s.Q, g[s])
                            /\ Rising(s.Q, s.i) => HeapFrom(g[s], 1)}
<1>10. \A s \in St : s \in Ends \/ nx[s] \in T => s \in T
  <2> SUFFICES ASSUME NEW s \in St, s \in Ends \/ nx[s] \in T PROVE s \in T
    OBVIOUS
  <2>1. CASE s \in Ends
    <3>1. g[s] = s.Q /\ (s.i = 1 \/ Before(s.Q[s.i \div 2], s.Q[s.i]))
      BY <1>9, <2>1
    <3>2. Rising(s.Q, s.i) => HeapFrom(s.Q, 1)
      BY <1>1, <3>1, UpStops
    <3>3. Same(s.Q, s.Q)
      BY DEF Same
    <3> QED
      BY <1>1, <3>1, <3>2, <3>3
  <2>2. CASE s \notin Ends
    <3>1. g[s] = g[nx[s]] /\ nx[s] = Goes(s) /\ nx[s] \in T
      BY <1>9, <2>2
    <3>2. /\ g[s] \in [DOMAIN Q -> Range(Q)] /\ Same(Goes(s).Q, g[s])
          /\ Rising(Goes(s).Q, Goes(s).i) => HeapFrom(g[s], 1)
      BY <3>1
    <3>3. /\ Same(s.Q, Goes(s).Q)
          /\ Rising(s.Q, s.i) => Rising(Goes(s).Q, Goes(s).i)
      BY <1>3, <2>2
    <3>4. Same(s.Q, g[s])
      BY <3>2, <3>3, SameTwice
    <3> QED
      BY <3>2, <3>3, <3>4
  <2> QED
    BY <2>1, <2>2
<1>11. St \subseteq T
  <2> HIDE DEF St, Ends, nx, m, T
  <2> QED
    BY <1>4, <1>10, LoopInduction
<1>12. [Q |-> Q, i |-> Len(Q)] \in St
  BY <1>0, LoopStates DEF Loop
<1>13. [Q |-> Q, i |-> Len(Q)] \in T
  BY <1>11, <1>12
<1> QED
  BY <1>8, <1>13

\* The first entry of a heap comes out first.
LEMMA HeapFirst ==
  ASSUME NEW Q \in Seq(Event), HeapFrom(Q, 1)
  PROVE  \A j \in 1 .. Len(Q) : NotAfter(Q[1], Q[j])
<1> DEFINE T == {j \in 1 .. Len(Q) : ~NotAfter(Q[1], Q[j])}
<1> SUFFICES ASSUME T # {} PROVE FALSE
  OBVIOUS
<1>0. Len(Q) \in Nat /\ \A j \in 1 .. Len(Q) : Q[j] \in Event
  OBVIOUS
<1>1. PICK j \in T : \A y \in T : ~(y < j)
  <2>1. T \subseteq Nat
    OBVIOUS
  <2> HIDE DEF T
  <2> QED
    BY <2>1, LeastNumber
<1>2. j \in Nat /\ j > 1
  BY <1>0, <1>1, Ordering
<1>3. j \div 2 \in 1 .. Len(Q) /\ j \div 2 < j /\ Child(j \div 2, j)
  BY <1>0, <1>1, <1>2, Parent
<1>4. NotAfter(Q[1], Q[j \div 2]) /\ NotAfter(Q[j \div 2], Q[j])
  BY <1>1, <1>3 DEF HeapFrom
<1>5. NotAfter(Q[1], Q[j])
  <2>1. 1 \in 1 .. Len(Q) /\ j \in 1 .. Len(Q)
    BY <1>0, <1>1
  <2> QED
    BY <1>0, <1>3, <1>4, <2>1, Ordering
<1> QED
  BY <1>1, <1>5

\* One entry more is counted once, where it belongs.
LEMMA Appended ==
  ASSUME NEW Q \in Seq(Event), NEW e \in Event, NEW P
  PROVE  /\ NumIn(Q, P) \in Nat
         /\ NumIn(Append(Q, e), P) = NumIn(Q, P) + IF e \in P THEN 1 ELSE 0
<1> DEFINE K == Append(Q, e)
           A == {j \in 1 .. Len(Q) : Q[j] \in P}
           B == {j \in 1 .. Len(K) : K[j] \in P}
           n == Len(Q) + 1
<1>1. /\ Len(Q) \in Nat /\ n \in Nat /\ Len(K) = n /\ K[n] = e /\ n \notin 1 .. Len(Q)
      /\ 1 .. n = (1 .. Len(Q)) \cup {n}
      /\ \A j \in 1 .. Len(Q) : K[j] = Q[j]
  OBVIOUS
<1>2. IsFiniteSet(A) /\ Cardinality(A) \in Nat
  <2>1. IsFiniteSet(1 .. Len(Q)) /\ A \subseteq 1 .. Len(Q)
    BY <1>1, FS_Interval
  <2> QED
    BY <2>1, FS_Subset, FS_CardinalityType
<1>3. n \notin A /\ B = IF e \in P THEN A \cup {n} ELSE A
  <2> HIDE DEF K, n
  <2> QED
    BY <1>1
<1> HIDE DEF A, B, K, n
<1>4. Cardinality(B) = Cardinality(A) + IF e \in P THEN 1 ELSE 0
  <2>1. Cardinality(A \cup {n}) = Cardinality(A) + 1
    BY <1>2, <1>3, FS_AddElement
  <2> QED
    BY <1>2, <1>3, <2>1
<1> QED
  BY <1>2, <1>4 DEF NumIn, A, B, K

\* addevent keeps the heap and puts one entry more into it.
LEMMA Added ==
  ASSUME NEW Q \in Seq(Event), HeapFrom(Q, 1), NEW e \in Event
  PROVE  /\ addevent(Q, e) \in Seq(Event) /\ Len(addevent(Q, e)) = Len(Q) + 1
         /\ HeapFrom(addevent(Q, e), 1)
         /\ \A P : NumIn(addevent(Q, e), P) = NumIn(Q, P) + IF e \in P THEN 1 ELSE 0
         /\ \A j \in 1 .. Len(addevent(Q, e)) :
               addevent(Q, e)[j] = e \/ \E l \in 1 .. Len(Q) : addevent(Q, e)[j] = Q[l]
<1> DEFINE K == Append(Q, e)
<1>1. /\ Len(Q) \in Nat /\ K \in Seq(Event) /\ Len(K) = Len(Q) + 1 /\ K[Len(K)] = e /\ K # << >>
      /\ \A j \in 1 .. Len(K) : j # Len(K) => j \in 1 .. Len(Q) /\ K[j] = Q[j]
  OBVIOUS
<1>2. \A P : NumIn(K, P) = NumIn(Q, P) + IF e \in P THEN 1 ELSE 0
  BY Appended
<1> HIDE DEF K
<1>3. \A p, c \in 1 .. Len(K) : Child(p, c) => p \in Nat /\ c \in Nat /\ c > p /\ p # Len(K) /\ 1 <= p
  <2>1. \A p, c \in 1 .. Len(K) : p \in Nat /\ c \in Nat /\ 1 <= p /\ c <= Len(K)
    BY <1>1
  <2>2. Len(K) \in Nat
    BY <1>1
  <2> QED
    BY <2>1, <2>2, Family
<1>4. Rising(K, Len(K))
  <2>1. ASSUME NEW p \in 1 .. Len(K), NEW c \in 1 .. Len(K), Child(p, c), c # Len(K)
        PROVE  NotAfter(K[p], K[c])
    <3>1. p # Len(K) /\ 1 <= p
      BY <1>3, <2>1
    <3>2. p \in 1 .. Len(Q) /\ K[p] = Q[p] /\ c \in 1 .. Len(Q) /\ K[c] = Q[c]
      BY <1>1, <2>1, <3>1
    <3> QED
      BY <2>1, <3>1, <3>2 DEF HeapFrom
  <2>2. \A c \in 1 .. Len(K) : ~Child(Len(K), c)
    <3>1. Len(K) \in 1 .. Len(K)
      BY <1>1
    <3> QED
      BY <1>3, <3>1
  <2> QED
    BY <2>1, <2>2 DEF Rising
<1>5. Up(K) \in [DOMAIN K -> Range(K)] /\ HeapFrom(Up(K), 1) /\ Same(K, Up(K))
  BY <1>1, <1>4, UpRight
<1>6. Up(K) \in Seq(Event) /\ Len(Up(K)) = Len(K) /\ DOMAIN K = 1 .. Len(K)
  BY <1>1, <1>5, LoopStates
<1>7. \A P : NumIn(Up(K), P) = NumIn(Q, P) + IF e \in P THEN 1 ELSE 0
  BY <1>2, <1>5 DEF Same
<1>8. \A j \in 1 .. Len(Up(K)) : Up(K)[j] = e \/ \E l \in 1 .. Len(Q) : Up(K)[j] = Q[l]
  <2> SUFFICES ASSUME NEW j \in 1 .. Len(Up(K))
               PROVE  Up(K)[j] = e \/ \E l \in 1 .. Len(Q) : Up(K)[j] = Q[l]
    OBVIOUS
  <2>1. PICK l \in 1 .. Len(K) : Up(K)[j] = K[l]
    BY <1>5, <1>6 DEF Range
  <2> QED
    BY <1>1, <2>1
<1> QED
  BY <1>1, <1>5, <1>6, <1>7, <1>8 DEF addevent, K

\* delevent keeps the heap and takes the first entry out of it.
LEMMA Deleted ==
  ASSUME NEW Q \in Seq(Event), HeapFrom(Q, 1), Q # << >>
  PROVE  /\ delevent(Q) \in Seq(Event) /\ Len(delevent(Q)) = Len(Q) - 1
         /\ HeapFrom(delevent(Q), 1)
         /\ \A P : NumIn(delevent(Q), P) = NumIn(Q, P) - IF Q[1] \in P THEN 1 ELSE 0
         /\ \A j \in 1 .. Len(delevent(Q)) : \E l \in 1 .. Len(Q) : delevent(Q)[j] = Q[l]
<1> DEFINE n == Len(Q)
           F == Front([Q EXCEPT ![1] = Last(Q)])
           S == Swap(Q, 1, n)
<1>0. n \in Nat /\ n >= 1 /\ 1 \in 1 .. n /\ n \in 1 .. n /\ \A j \in 1 .. n : Q[j] \in Event
  OBVIOUS
<1>1. CASE n < 2
  <2>1. n = 1 /\ delevent(Q) = << >>
    <3>0. n \in Nat /\ n >= 1
      BY <1>0
    <3> HIDE DEF n
    <3>1. n = 1
      BY <1>1, <3>0
    <3>2. delevent(Q) = << >>
      BY <1>1 DEF delevent, n
    <3> QED
      BY <3>1, <3>2
  <2>2. Append(<< >>, Q[1]) = Q
    BY <2>1
  <2>3. << >> \in Seq(Event)
    OBVIOUS
  <2>4. \A P : /\ NumIn(Q, P) = NumIn(<< >>, P) + IF Q[1] \in P THEN 1 ELSE 0
               /\ NumIn(<< >>, P) \in Nat
    <3> DEFINE Z == << >>
    <3>1. Q[1] \in Event /\ Z \in Seq(Event) /\ Append(Z, Q[1]) = Q
      BY <1>0, <2>2, <2>3
    <3> HIDE DEF Z
    <3>2. \A P : /\ NumIn(Append(Z, Q[1]), P) = NumIn(Z, P) + IF Q[1] \in P THEN 1 ELSE 0
                 /\ NumIn(Z, P) \in Nat
      <4> SUFFICES ASSUME NEW P
                   PROVE  /\ NumIn(Append(Z, Q[1]), P) = NumIn(Z, P) + IF Q[1] \in P THEN 1 ELSE 0
                          /\ NumIn(Z, P) \in Nat
        OBVIOUS
      <4> DEFINE e == Q[1]
      <4>1. e \in Event /\ Z \in Seq(Event)
        BY <3>1
      <4> HIDE DEF e
      <4>2. NumIn(Append(Z, e), P) = NumIn(Z, P) + IF e \in P THEN 1 ELSE 0
        BY <4>1, Appended
      <4>3. NumIn(Z, P) \in Nat
        BY <4>1, Appended
      <4> QED
        BY <4>2, <4>3 DEF e
    <3> QED
      BY <3>1, <3>2 DEF Z
  <2>5. \A P : NumIn(delevent(Q), P) = NumIn(Q, P) - IF Q[1] \in P THEN 1 ELSE 0
    BY <2>1, <2>4
  <2>6. Len(delevent(Q)) = 0
    BY <2>1
  <2> QED
    BY <2>1, <2>3, <2>5, <2>6 DEF HeapFrom
<1>2. CASE ~(n < 2)
  <2>1. /\ S \in Seq(Event) /\ Len(S) = n /\ S[1] = Q[n] /\ S[n] = Q[1]
        /\ \A j \in 1 .. n : j # 1 /\ j # n => S[j] = Q[j]
        /\ Same(Q, S)
    BY <1>0, Swapping
  <2>2. F = [j \in 1 .. n - 1 |-> IF j = 1 THEN Q[n] ELSE Q[j]]
    BY <1>0, <1>2 DEF Front, Last
  <2>3. F \in Seq(Event) /\ Len(F) = n - 1
    BY <1>0, <1>2, <2>2
  <2> HIDE DEF S, F
  <2>4. \A j \in 1 .. n - 1 : F[j] = S[j] /\ (j # 1 => F[j] = Q[j])
    BY <1>0, <1>2, <2>1, <2>2
  <2>5. S = Append(F, Q[1])
    <3> DEFINE A == Append(F, Q[1])
    <3>1. A \in Seq(Event) /\ Len(A) = n /\ A[n] = Q[1] /\ \A j \in 1 .. n - 1 : A[j] = F[j]
      BY <1>0, <2>3
    <3> HIDE DEF A
    <3>2. \A j \in 1 .. n : j = n \/ j \in 1 .. n - 1
      BY <1>0
    <3>3. \A j \in 1 .. n : S[j] = A[j]
      BY <2>1, <2>4, <3>1, <3>2
    <3>4. S = A
      BY <2>1, <3>1, <3>3
    <3> QED
      BY <3>4 DEF A
  <2>6. \A P : /\ NumIn(Q, P) = NumIn(F, P) + IF Q[1] \in P THEN 1 ELSE 0
               /\ NumIn(F, P) \in Nat
    <3>1. \A P : NumIn(S, P) = NumIn(Q, P)
      BY <2>1 DEF Same
    <3> QED
      BY <1>0, <2>3, <2>5, <3>1, Appended
  <2>7. Sinking(F, 1, 1)
    <3>1. \A p, c \in 1 .. Len(F) : Child(p, c) => p \in Nat /\ c \in Nat /\ c > p /\ p >= 1 /\ c # 1
      <4>1. \A p \in 1 .. Len(F) : p \in Nat /\ p >= 1
        BY <1>0, <2>3
      <4> QED
        BY <4>1, Family
    <3>2. ASSUME NEW p \in 1 .. Len(F), NEW c \in 1 .. Len(F), Child(p, c), p # 1
          PROVE  NotAfter(F[p], F[c])
      <4>1. F[p] = Q[p] /\ F[c] = Q[c] /\ p \in 1 .. Len(Q) /\ c \in 1 .. Len(Q) /\ 1 <= p
        BY <1>0, <2>3, <2>4, <3>1, <3>2
      <4> QED
        BY <3>2, <4>1 DEF HeapFrom
    <3> QED
      BY <3>1, <3>2 DEF Sinking
  <2>8. 1 \in 1 .. Len(F)
    BY <1>0, <1>2, <2>3
  <2>9. /\ Down(F, 1) \in [DOMAIN F -> Range(F)]
        /\ HeapFrom(Down(F, 1), 1) /\ Same(F, Down(F, 1))
    BY <2>3, <2>7, <2>8, DownRight
  <2>10. Down(F, 1) \in Seq(Event) /\ Len(Down(F, 1)) = Len(F) /\ DOMAIN F = 1 .. Len(F)
    BY <2>3, <2>9, LoopStates
  <2>11. \A P : NumIn(Down(F, 1), P) = NumIn(Q, P) - IF Q[1] \in P THEN 1 ELSE 0
    BY <2>6, <2>9 DEF Same
  <2>12. \A j \in 1 .. Len(Down(F, 1)) : \E l \in 1 .. Len(Q) : Down(F, 1)[j] = Q[l]
    <3> SUFFICES ASSUME NEW j \in 1 .. Len(Down(F, 1))
                 PROVE  \E l \in 1 .. Len(Q) : Down(F, 1)[j] = Q[l]
      OBVIOUS
    <3>1. PICK l \in 1 .. Len(F) : Down(F, 1)[j] = F[l]
      BY <2>9, <2>10 DEF Range
    <3>2. F[l] = Q[n] \/ F[l] = Q[l]
      BY <2>2, <2>3, <3>1
    <3>3. l \in 1 .. Len(Q)
      BY <1>0, <2>3
    <3> QED
      BY <1>0, <3>1, <3>2, <3>3
  <2>13. delevent(Q) = Down(F, 1)
    BY <1>2 DEF delevent, F
  <2> QED
    BY <2>3, <2>9, <2>10, <2>11, <2>12, <2>13
<1> QED
  BY <1>1, <1>2

\* initEQ makes a heap of the arrival file.
LEMMA Inited ==
  ASSUME NEW Q \in Seq(Event)
  PROVE  initEQ(Q) \in Seq(Event) /\ HeapFrom(initEQ(Q), 1) /\ Same(Q, initEQ(Q))
<1> DEFINE St == Loop(Q, 0 .. Len(Q))
           Ends == {s \in St : s.i = 0}
           Goes(s) == [Q |-> Down(s.Q, s.i), i |-> s.i - 1]
           nx == [s \in St |-> Goes(s)]
           m == [s \in St |-> s.i]
           Is(g) == g = [s \in St |-> IF s.i = 0 THEN s.Q
                            ELSE g[[Q |-> Down(s.Q, s.i), i |-> s.i - 1]]]
<1>0. DOMAIN Q = 1 .. Len(Q) /\ Len(Q) \in Nat
  OBVIOUS
<1>1. \A s \in St : /\ s.Q \in [DOMAIN Q -> Range(Q)] /\ s.i \in 0 .. Len(Q)
                    /\ s.Q \in Seq(Event) /\ Len(s.Q) = Len(Q)
  BY <1>0, LoopStates DEF Loop
<1>2. \A s \in St : m[s] \in Nat /\ m[s] <= Len(Q)
  BY <1>0, <1>1
<1>3. ASSUME NEW s \in St, s \notin Ends
      PROVE  /\ Goes(s) \in St /\ m[Goes(s)] < m[s] /\ Same(s.Q, Goes(s).Q)
             /\ HeapFrom(s.Q, s.i + 1) => HeapFrom(Goes(s).Q, Goes(s).i + 1)
  <2>1. s.i \in 1 .. Len(s.Q) /\ s.i \in Nat /\ s.i - 1 \in 0 .. Len(Q)
    BY <1>0, <1>1, <1>3
  <2>2. HeapFrom(s.Q, s.i + 1) => Sinking(s.Q, s.i, s.i)
    <3>1. \A p, c \in 1 .. Len(s.Q) : p \in Nat /\ c \in Nat /\ p > 0
      BY <1>0, <1>1
    <3>2. ASSUME HeapFrom(s.Q, s.i + 1)
          PROVE  \A p, c \in 1 .. Len(s.Q) : Child(p, c) /\ s.i <= p /\ p # s.i => NotAfter(s.Q[p], s.Q[c])
      BY <2>1, <3>1, <3>2 DEF HeapFrom
    <3>3. \A p \in 1 .. Len(s.Q) : Child(p, s.i) => ~(s.i <= p)
      BY <2>1, <3>1, Family
    <3> QED
      BY <3>2, <3>3 DEF Sinking
  <2>3. /\ Down(s.Q, s.i) \in [DOMAIN s.Q -> Range(s.Q)] /\ Same(s.Q, Down(s.Q, s.i))
        /\ HeapFrom(s.Q, s.i + 1) => HeapFrom(Down(s.Q, s.i), s.i)
    BY <1>1, <2>1, <2>2, DownRight
  <2>4. Down(s.Q, s.i) \in [DOMAIN Q -> Range(Q)]
    BY <1>1, <2>3, LoopStates
  <2>5. Goes(s) \in St
    BY <2>1, <2>4 DEF Loop
  <2>6. m[Goes(s)] < m[s]
    BY <2>1, <2>5
  <2>7. Goes(s).Q = Down(s.Q, s.i) /\ Goes(s).i + 1 = s.i
    BY <2>1
  <2> QED
    BY <2>3, <2>5, <2>6, <2>7
<1> HIDE DEF Goes
<1>4. LoopEnds(St, Ends, nx, m, Len(Q))
  BY <1>2, <1>3 DEF LoopEnds
<1>5. PICK g0 : g0 = [s \in St |-> IF s \in Ends THEN s.Q ELSE g0[nx[s]]]
  <2>1. Len(Q) \in Nat
    OBVIOUS
  <2> HIDE DEF St, Ends, nx, m
  <2> QED
    BY <2>1, <1>4, LoopDefined
<1>6. Is(g0)
  <2>1. [s \in St |-> IF s \in Ends THEN s.Q ELSE g0[nx[s]]]
        = [s \in St |-> IF s.i = 0 THEN s.Q ELSE g0[[Q |-> Down(s.Q, s.i), i |-> s.i - 1]]]
    BY DEF Goes
  <2> QED
    BY <1>5, <2>1
<1> DEFINE g == CHOOSE g : Is(g)
<1>7. Is(g)
  <2> HIDE DEF Is
  <2> QED
    BY <1>6
<1>8. initEQ(Q) = g[[Q |-> Q, i |-> Len(Q) \div 2]]
  BY DEF initEQ
<1> HIDE DEF g
<1>9. \A s \in St : g[s] = IF s \in Ends THEN s.Q ELSE g[nx[s]]
  BY <1>7 DEF Goes
<1> DEFINE T == {s \in St : /\ g[s] \in [DOMAIN Q -> Range(Q)] /\ Same(s.Q, g[s])
                            /\ HeapFrom(s.Q, s.i + 1) => HeapFrom(g[s], 1)}
<1>10. \A s \in St : s \in Ends \/ nx[s] \in T => s \in T
  <2> SUFFICES ASSUME NEW s \in St, s \in Ends \/ nx[s] \in T PROVE s \in T
    OBVIOUS
  <2>1. CASE s \in Ends
    <3>1. g[s] = s.Q /\ s.i + 1 = 1
      BY <1>9, <2>1
    <3>2. Same(s.Q, s.Q)
      BY DEF Same
    <3> QED
      BY <1>1, <3>1, <3>2
  <2>2. CASE s \notin Ends
    <3>1. g[s] = g[nx[s]] /\ nx[s] = Goes(s) /\ nx[s] \in T
      BY <1>9, <2>2
    <3>2. /\ g[s] \in [DOMAIN Q -> Range(Q)] /\ Same(Goes(s).Q, g[s])
          /\ HeapFrom(Goes(s).Q, Goes(s).i + 1) => HeapFrom(g[s], 1)
      BY <3>1
    <3>3. /\ Same(s.Q, Goes(s).Q)
          /\ HeapFrom(s.Q, s.i + 1) => HeapFrom(Goes(s).Q, Goes(s).i + 1)
      BY <1>3, <2>2
    <3>4. Same(s.Q, g[s])
      BY <3>2, <3>3, SameTwice
    <3> QED
      BY <3>2, <3>3, <3>4
  <2> QED
    BY <2>1, <2>2
<1>11. St \subseteq T
  <2> HIDE DEF St, Ends, nx, m, T
  <2> QED
    BY <1>4, <1>10, LoopInduction
<1> DEFINE h == Len(Q) \div 2
<1>12. h \in 0 .. Len(Q) /\ 2 * (h + 1) > Len(Q)
  BY <1>0
<1> HIDE DEF h
<1>13. [Q |-> Q, i |-> h] \in St
  BY <1>12, LoopStates DEF Loop
<1>14. [Q |-> Q, i |-> h] \in T
  BY <1>11, <1>13
<1>15. HeapFrom(Q, h + 1)
  <2>1. \A p, c \in 1 .. Len(Q) : p \in Nat /\ c \in Nat /\ c <= Len(Q)
    BY <1>0
  <2>2. \A p, c \in 1 .. Len(Q) : ~(Child(p, c) /\ h + 1 <= p)
    BY <1>0, <1>12, <2>1 DEF Child
  <2> QED
    BY <2>2 DEF HeapFrom
<1>16. g[[Q |-> Q, i |-> h]] = initEQ(Q)
  BY <1>8 DEF h
<1>17. /\ initEQ(Q) \in [DOMAIN Q -> Range(Q)] /\ Same(Q, initEQ(Q))
       /\ HeapFrom(initEQ(Q), 1)
  BY <1>14, <1>15, <1>16
<1> QED
  BY <1>17, LoopStates

-----------------------------------------------------------------------------
(* The queue's invariant                                                   *)

OfType(x) == {e \in Event : e.type = x}

BookTyped ==
    /\ file \in Files /\ eventQueue \in Seq(Event) /\ current_time \in Int
    /\ waiting \in [Types -> Seq(Event)]
    /\ \A x \in Types : Len(waiting[x]) = Len(vpc[x])
    /\ temp \in [type : Types \cup {"D"}, time : Int]

\* No event is lost or invented, and the doctor's is queued in the loop only.
Counted ==
    /\ \A x \in Types : token[x] + NumIn(eventQueue, OfType(x)) = Arrivals(file, x)
    /\ NumIn(eventQueue, OfType("D")) <= IF apc = "loop" THEN 1 ELSE 0

\* Visitors wait in the order of their arrival, before those who have not come.
Lined ==
    /\ \A x \in Types : \A i, l \in 1 .. Len(waiting[x]) :
           i <= l => waiting[x][i].time <= waiting[x][l].time
    /\ \A x \in Types : \A i \in 1 .. Len(waiting[x]) : \A j \in 1 .. Len(eventQueue) :
           eventQueue[j].type # "D" => waiting[x][i].time <= eventQueue[j].time

\* Between an event of the doctor's and the call, all that is queued is later.
AllCome ==
    apc \in {"last", "lastwait", "free", "call"} =>
        \A j \in 1 .. Len(eventQueue) : eventQueue[j].time > current_time

Slept ==
    /\ asleep \in [Conds -> SUBSET Threads]
    /\ \A c, d \in Conds : asleep[c] \cap asleep[d] # {} => c = d

QInv == BookTyped /\ HeapFrom(eventQueue, 1) /\ Counted /\ Lined /\ AllCome /\ Slept

Late == {"last", "lastwait", "free", "call"}

\* What a step does that handles no event.
Unheard ==
    /\ UNCHANGED <<book, temp>>
    /\ \A x \in Types : Len(vpc'[x]) = Len(vpc[x])
    /\ apc' \in Late => apc \in Late
    /\ apc = "loop" => apc' = "loop"

-----------------------------------------------------------------------------
(* Steps of the queue                                                      *)

\* The steps that handle an event, and the others.
LEMMA Handlers ==
  ASSUME Typed, [Next]_vars
  PROVE  Arrive \/ Doctor \/ Call \/ Idle \/ Wait \/ Unheard
<1>1. ASSUME UNCHANGED vars PROVE Unheard
  BY <1>1 DEF vars, Unheard, Late
<1>2. ASSUME LastCall PROVE Unheard
  BY <1>2 DEF LastCall, AssistantGoto, Unheard, Late
<1>3. ASSUME LastWait PROVE Unheard
  BY <1>3 DEF LastWait, AwaitDone, AssistantGoto, Unheard, Late
<1>4. ASSUME MakeFree PROVE Unheard
  BY <1>4 DEF MakeFree, AssistantGoto, Unheard, Late
<1>5. ASSUME SignalDoctor \/ SignalVisitor PROVE Unheard
  BY <1>5 DEF SignalDoctor, SignalVisitor, AssistantGoto, Unheard, Late
<1>6. ASSUME End \/ Join PROVE Unheard
  BY <1>6 DEF End, Join, AssistantGoto, Unheard, Late
<1>7. ASSUME DoctorThread PROVE Unheard
  <2>1. UNCHANGED <<book, apc, temp, vpc>>
    BY <1>7 DEF DoctorThread, DoctorSleeps, TakeFree, Leave, Ready, TakeMet, Finish, Done
  <2> QED
    BY <2>1 DEF Unheard, Late
<1>8. ASSUME NEW x \in Types, NEW i \in DOMAIN vpc[x], Visitor(x, i) PROVE Unheard
  <2>1. UNCHANGED <<book, apc, temp>>
    BY <1>8 DEF Visitor, Seen, VisitorSleeps, Enter, Meet, VisitorGoto
  <2>2. \A y \in Types : Len(vpc'[y]) = Len(vpc[y])
    <3>1. PICK to \in VisitorPlaces : vpc' = [vpc EXCEPT ![x][i] = to]
      BY <1>8, VisitorKeeps
    <3> QED
      BY <3>1, Moved
  <2> QED
    BY <2>1, <2>2 DEF Unheard, Late
<1> QED
  BY <1>1, <1>2, <1>3, <1>4, <1>5, <1>6, <1>7, <1>8 DEF Next, Assistant

\* What an arrival does to the queue and to who waits.
LEMMA Arrives ==
  ASSUME Typed, BookTyped, Arrive
  PROVE  /\ eventQueue # << >> /\ eventQueue[1] \in Event /\ eventQueue[1].type \in Types
         /\ eventQueue' = delevent(eventQueue) /\ apc = "loop" /\ apc' = "loop"
         /\ current_time' = eventQueue[1].time
         /\ token' = [token EXCEPT ![eventQueue[1].type] = @ + 1]
         /\ UNCHANGED <<file, current, temp, asleep>>
         /\ \/ UNCHANGED <<waiting, vpc>>
            \/ /\ waiting' = [waiting EXCEPT ![eventQueue[1].type] = Append(@, eventQueue[1])]
               /\ vpc' = [vpc EXCEPT ![eventQueue[1].type] = Append(@, "test")]
<1>1. eventQueue # << >> /\ eventQueue[1].type # "D"
  BY DEF Arrive, emptyQ, nextevent
<1>2. eventQueue[1] \in Event
  BY <1>1 DEF BookTyped
<1>3. eventQueue[1].type \in Types
  BY <1>1, <1>2 DEF Event
<1>4. /\ eventQueue' = delevent(eventQueue) /\ apc = "loop" /\ apc' = "loop"
      /\ current_time' = eventQueue[1].time
      /\ token' = [token EXCEPT ![eventQueue[1].type] = @ + 1]
      /\ UNCHANGED <<file, current, temp, asleep>>
      /\ \/ UNCHANGED <<waiting, vpc>>
         \/ /\ waiting' = [waiting EXCEPT ![eventQueue[1].type] = Append(@, eventQueue[1])]
            /\ vpc' = [vpc EXCEPT ![eventQueue[1].type] = Append(@, "test")]
  BY DEF Arrive, AssistantGoto, nextevent
<1> QED
  BY <1>1, <1>2, <1>3, <1>4

\* What an event of the doctor's does to the queue.
LEMMA DoctorComes ==
  ASSUME BookTyped, Doctor
  PROVE  /\ eventQueue # << >> /\ eventQueue[1] \in Event /\ eventQueue[1].type = "D"
         /\ eventQueue' = delevent(eventQueue) /\ apc = "loop" /\ apc' \in Late
         /\ current_time' = eventQueue[1].time
         /\ UNCHANGED <<file, token, current, waiting, vpc, temp, asleep>>
<1>1. eventQueue # << >> /\ eventQueue[1].type = "D"
  BY DEF Doctor, emptyQ, nextevent
<1>2. eventQueue[1] \in Event
  BY <1>1 DEF BookTyped
<1> QED
  BY <1>1, <1>2 DEF Doctor, AssistantGoto, nextevent, Late

\* A call takes nothing from the queue.
LEMMA Calls ==
  ASSUME Typed, Admitted, BookTyped, Call
  PROVE  \E x \in Types :
           /\ num[x] > 0 /\ current[x] + 1 \in 1 .. Len(waiting[x])
           /\ x = "P" => num["R"] = 0
           /\ x = "S" => num["R"] = 0 /\ num["P"] = 0
           /\ temp' = [type |-> x, time |-> current_time + waiting[x][current[x] + 1].duration]
           /\ current' = [current EXCEPT ![x] = @ + 1]
           /\ apc = "call" /\ apc' = "signal"
           /\ UNCHANGED <<file, eventQueue, current_time, token, waiting, vpc, asleep>>
<1>1. PICK x \in Types :
           /\ First(x)
           /\ temp' = [type |-> x, time |-> current_time + waiting[x][current[x] + 1].duration]
           /\ current' = [current EXCEPT ![x] = @ + 1]
           /\ apc = "call" /\ apc' = "signal"
           /\ UNCHANGED <<file, eventQueue, current_time, token, waiting, vpc, asleep>>
  BY DEF Call, AssistantGoto
<1>2. num[x] > 0 /\ (x = "P" => num["R"] = 0) /\ (x = "S" => num["R"] = 0 /\ num["P"] = 0)
  BY <1>1 DEF First
<1>3. /\ num[x] \in Nat /\ current[x] \in Nat /\ Len(waiting[x]) = current[x] + num[x]
  BY DEF Typed, Admitted, BookTyped
<1>4. current[x] + 1 \in 1 .. Len(waiting[x])
  BY <1>2, <1>3
<1> QED
  BY <1>1, <1>2, <1>4

\* The event of the doctor's that a pause or the end of a meeting adds.
LEMMA Requeues ==
  ASSUME BookTyped, Idle \/ Wait
  PROVE  /\ UNCHANGED <<file, current_time, token, current, waiting, vpc, temp>>
         /\ apc' \notin Late /\ apc # "loop"
         /\ \/ UNCHANGED eventQueue
            \/ /\ apc' = "loop"
               /\ \E e \in Event : e.type = "D" /\ eventQueue' = addevent(eventQueue, e)
<1>1. CASE Idle
  <2>1. CASE emptyQ(eventQueue)
    BY <1>1, <2>1 DEF Idle, AssistantGoto, Late
  <2>2. CASE ~emptyQ(eventQueue)
    <3> DEFINE e == [type |-> "D", time |-> nextevent(eventQueue).time, duration |-> 0]
    <3>1. eventQueue[1] \in Event
      BY <2>2 DEF BookTyped, emptyQ
    <3>2. e \in Event /\ e.type = "D"
      BY <3>1 DEF Event, nextevent
    <3>3. /\ UNCHANGED <<file, current_time, token, current, waiting, vpc, temp>>
          /\ apc = "call" /\ apc' = "loop" /\ eventQueue' = addevent(eventQueue, e)
      BY <1>1, <2>2 DEF Idle, AssistantGoto
    <3> QED
      BY <3>2, <3>3 DEF Late
  <2> QED
    BY <2>1, <2>2
<1>2. CASE Wait
  <2>1. CASE ~doctor_done
    BY <1>2, <2>1 DEF Wait, AwaitDone, AssistantGoto, Late
  <2>2. CASE doctor_done
    <3> DEFINE e == [type |-> "D", time |-> temp.time, duration |-> 0]
    <3>1. e \in Event /\ e.type = "D"
      BY DEF Event, BookTyped
    <3>2. /\ UNCHANGED <<file, current_time, token, current, waiting, vpc, temp>>
          /\ apc = "wait" /\ apc' = "loop" /\ eventQueue' = addevent(eventQueue, e)
      BY <1>2, <2>2 DEF Wait, AwaitDone, AssistantGoto
    <3> QED
      BY <3>1, <3>2 DEF Late
  <2> QED
    BY <2>1, <2>2
<1> QED
  BY <1>1, <1>2

\* The assistant's book keeps its types.
LEMMA BookStep ==
  ASSUME Typed, Admitted, BookTyped, HeapFrom(eventQueue, 1), [Next]_vars
  PROVE  BookTyped' /\ HeapFrom(eventQueue, 1)'
<1>0. eventQueue \in Seq(Event) /\ waiting \in [Types -> Seq(Event)] /\ vpc \in [Types -> Seq(VisitorPlaces)]
  BY DEF BookTyped, Typed
<1>1. CASE Arrive
  <2>1. /\ eventQueue # << >> /\ eventQueue[1] \in Event /\ eventQueue[1].type \in Types
        /\ eventQueue' = delevent(eventQueue) /\ current_time' = eventQueue[1].time
        /\ UNCHANGED <<file, temp>>
        /\ \/ UNCHANGED <<waiting, vpc>>
           \/ /\ waiting' = [waiting EXCEPT ![eventQueue[1].type] = Append(@, eventQueue[1])]
              /\ vpc' = [vpc EXCEPT ![eventQueue[1].type] = Append(@, "test")]
    BY <1>1, Arrives
  <2>2. delevent(eventQueue) \in Seq(Event) /\ HeapFrom(delevent(eventQueue), 1)
    BY <1>0, <2>1, Deleted
  <2>3. current_time' \in Int
    BY <2>1 DEF Event
  <2>4. waiting' \in [Types -> Seq(Event)] /\ \A x \in Types : Len(waiting'[x]) = Len(vpc'[x])
    <3> DEFINE e == eventQueue[1]
               x == eventQueue[1].type
    <3>1. CASE UNCHANGED <<waiting, vpc>>
      BY <1>0, <3>1 DEF BookTyped
    <3>2. CASE /\ waiting' = [waiting EXCEPT ![x] = Append(@, e)]
               /\ vpc' = [vpc EXCEPT ![x] = Append(@, "test")]
      <4>1. e \in Event /\ x \in Types
        BY <2>1
      <4> HIDE DEF e, x
      <4>2. /\ waiting[x] \in Seq(Event) /\ vpc[x] \in Seq(VisitorPlaces)
            /\ waiting'[x] = Append(waiting[x], e) /\ vpc'[x] = Append(vpc[x], "test")
            /\ \A y \in Types \ {x} : waiting'[y] = waiting[y] /\ vpc'[y] = vpc[y]
        BY <1>0, <3>2, <4>1
      <4>3. Append(waiting[x], e) \in Seq(Event) /\ Len(waiting'[x]) = Len(vpc'[x])
        BY <4>1, <4>2 DEF BookTyped
      <4> QED
        BY <1>0, <3>2, <4>1, <4>2, <4>3 DEF BookTyped
    <3> QED
      BY <2>1, <3>1, <3>2
  <2> QED
    BY <2>1, <2>2, <2>3, <2>4 DEF BookTyped
<1>2. CASE Doctor
  <2>1. /\ eventQueue # << >> /\ eventQueue[1] \in Event
        /\ eventQueue' = delevent(eventQueue) /\ current_time' = eventQueue[1].time
        /\ UNCHANGED <<file, waiting, vpc, temp>>
    BY <1>2, DoctorComes
  <2>2. delevent(eventQueue) \in Seq(Event) /\ HeapFrom(delevent(eventQueue), 1)
    BY <1>0, <2>1, Deleted
  <2>3. current_time' \in Int
    BY <2>1 DEF Event
  <2> QED
    BY <2>1, <2>2, <2>3 DEF BookTyped
<1>3. CASE Call
  <2>1. PICK x \in Types :
           /\ current[x] + 1 \in 1 .. Len(waiting[x])
           /\ temp' = [type |-> x, time |-> current_time + waiting[x][current[x] + 1].duration]
           /\ UNCHANGED <<file, eventQueue, current_time, waiting, vpc>>
    BY <1>3, Calls
  <2>2. waiting[x][current[x] + 1] \in Event
    BY <1>0, <2>1
  <2>3. temp' \in [type : Types \cup {"D"}, time : Int]
    BY <2>1, <2>2 DEF Event, BookTyped
  <2> QED
    BY <2>1, <2>3 DEF BookTyped
<1>4. CASE Idle \/ Wait
  <2>1. /\ UNCHANGED <<file, current_time, waiting, vpc, temp>>
        /\ \/ UNCHANGED eventQueue
           \/ \E e \in Event : eventQueue' = addevent(eventQueue, e)
    BY <1>4, Requeues
  <2>2. eventQueue' \in Seq(Event) /\ HeapFrom(eventQueue', 1)
    BY <1>0, <2>1, Added
  <2> QED
    BY <2>1, <2>2 DEF BookTyped
<1>5. CASE Unheard
  BY <1>5 DEF Unheard, book, BookTyped
<1> QED
  BY <1>1, <1>2, <1>3, <1>4, <1>5, Handlers

\* No event is lost or invented.
LEMMA CountedStep ==
  ASSUME Typed, Admitted, BookTyped, HeapFrom(eventQueue, 1), Counted, [Next]_vars
  PROVE  Counted'
<1>0. eventQueue \in Seq(Event) /\ token \in [Types -> Nat]
  BY DEF BookTyped, Typed
<1>1. \A P : NumIn(eventQueue, P) \in Nat
  <2> SUFFICES ASSUME NEW P PROVE NumIn(eventQueue, P) \in Nat
    OBVIOUS
  <2> DEFINE e == [type |-> "D", time |-> 0, duration |-> 0]
  <2>1. e \in Event
    BY DEF Event
  <2> HIDE DEF e
  <2> QED
    BY <1>0, <2>1, Appended
<1>2. \A x, y \in Types \cup {"D"}, e \in Event : e.type = x => (e \in OfType(y) <=> x = y)
  BY DEF OfType
<1>3. "D" \notin Types
  BY DEF Types
<1>4. CASE Arrive
  <2> DEFINE e == eventQueue[1]
             x == e.type
  <2>1. /\ eventQueue # << >> /\ e \in Event /\ x \in Types
        /\ eventQueue' = delevent(eventQueue) /\ apc = "loop" /\ apc' = "loop"
        /\ token' = [token EXCEPT ![x] = @ + 1] /\ file' = file
    BY <1>4, Arrives
  <2>2. \A P : NumIn(eventQueue', P) = NumIn(eventQueue, P) - IF e \in P THEN 1 ELSE 0
    BY <1>0, <2>1, Deleted
  <2>3. /\ \A y \in Types : e \in OfType(y) <=> y = x
        /\ e \notin OfType("D")
    BY <2>1, <1>2, <1>3
  <2> HIDE DEF e, x
  <2>4. \A y \in Types : token'[y] = IF y = x THEN token[y] + 1 ELSE token[y]
    BY <1>0, <2>1
  <2>5. \A y \in Types : token'[y] + NumIn(eventQueue', OfType(y)) = Arrivals(file', y)
    <3> SUFFICES ASSUME NEW y \in Types
                 PROVE  token'[y] + NumIn(eventQueue', OfType(y)) = Arrivals(file', y)
      OBVIOUS
    <3>1. NumIn(eventQueue', OfType(y)) = NumIn(eventQueue, OfType(y)) - IF y = x THEN 1 ELSE 0
      BY <2>2, <2>3
    <3>2. /\ token[y] + NumIn(eventQueue, OfType(y)) = Arrivals(file, y) /\ file' = file
          /\ token[y] \in Nat /\ NumIn(eventQueue, OfType(y)) \in Nat
      BY <1>0, <1>1, <2>1 DEF Counted
    <3> QED
      BY <2>4, <3>1, <3>2
  <2>6. NumIn(eventQueue', OfType("D")) <= 1
    <3>1. NumIn(eventQueue', OfType("D")) = NumIn(eventQueue, OfType("D")) - 0
      BY <2>2, <2>3
    <3> QED
      BY <1>1, <2>1, <3>1 DEF Counted
  <2> QED
    BY <2>1, <2>5, <2>6 DEF Counted
<1>5. CASE Doctor
  <2> DEFINE e == eventQueue[1]
  <2>1. /\ eventQueue # << >> /\ e \in Event /\ e.type = "D"
        /\ eventQueue' = delevent(eventQueue) /\ apc = "loop" /\ apc' \in Late
        /\ UNCHANGED <<token, file>>
    BY <1>5, DoctorComes
  <2>2. \A P : NumIn(eventQueue', P) = NumIn(eventQueue, P) - IF e \in P THEN 1 ELSE 0
    BY <1>0, <2>1, Deleted
  <2>3. (\A y \in Types : e \notin OfType(y)) /\ e \in OfType("D")
    BY <2>1, <1>2, <1>3
  <2> HIDE DEF e
  <2>4. \A y \in Types : NumIn(eventQueue', OfType(y)) = NumIn(eventQueue, OfType(y))
    BY <1>1, <2>2, <2>3
  <2>5. NumIn(eventQueue', OfType("D")) = NumIn(eventQueue, OfType("D")) - 1
    BY <2>2, <2>3
  <2>6. NumIn(eventQueue', OfType("D")) <= 0
    BY <1>1, <2>1, <2>5 DEF Counted
  <2> QED
    BY <2>1, <2>4, <2>6 DEF Counted, Late
<1>6. CASE Call
  <2>1. apc # "loop" /\ apc' # "loop" /\ UNCHANGED <<token, file, eventQueue>>
    BY <1>6, Calls
  <2> QED
    BY <2>1 DEF Counted
<1>7. CASE Idle \/ Wait
  <2>1. CASE UNCHANGED eventQueue
    <3>1. UNCHANGED <<token, file>> /\ apc # "loop"
      BY <1>7, Requeues
    <3> QED
      BY <1>1, <2>1, <3>1 DEF Counted
  <2>2. CASE ~UNCHANGED eventQueue
    <3>1. UNCHANGED <<token, file>> /\ apc # "loop" /\ apc' = "loop"
      BY <1>7, <2>2, Requeues
    <3>2. PICK e \in Event : e.type = "D" /\ eventQueue' = addevent(eventQueue, e)
      BY <1>7, <2>2, Requeues
    <3>3. \A P : NumIn(eventQueue', P) = NumIn(eventQueue, P) + IF e \in P THEN 1 ELSE 0
      BY <1>0, <3>2, Added
    <3>4. (\A y \in Types : e \notin OfType(y)) /\ e \in OfType("D")
      BY <3>2, <1>2, <1>3
    <3>5. \A y \in Types : NumIn(eventQueue', OfType(y)) = NumIn(eventQueue, OfType(y))
      BY <1>1, <3>3, <3>4
    <3>6. NumIn(eventQueue', OfType("D")) = NumIn(eventQueue, OfType("D")) + 1
      BY <3>3, <3>4
    <3>7. NumIn(eventQueue', OfType("D")) <= 1
      BY <1>1, <3>1, <3>6 DEF Counted
    <3> QED
      BY <3>1, <3>5, <3>7 DEF Counted
  <2> QED
    BY <2>1, <2>2
<1>8. CASE Unheard
  BY <1>1, <1>8 DEF Unheard, book, Counted
<1> QED
  BY <1>4, <1>5, <1>6, <1>7, <1>8, Handlers

\* Where nothing of P is counted there is nothing of P.
LEMMA NoneIn ==
  ASSUME NEW Q \in Seq(Event), NEW P, NumIn(Q, P) = 0
  PROVE  \A j \in 1 .. Len(Q) : Q[j] \notin P
<1> DEFINE A == {j \in 1 .. Len(Q) : Q[j] \in P}
<1>1. IsFiniteSet(A)
  <2>1. Len(Q) \in Nat
    OBVIOUS
  <2>2. IsFiniteSet(1 .. Len(Q)) /\ A \subseteq 1 .. Len(Q)
    BY <2>1, FS_Interval
  <2> QED
    BY <2>2, FS_Subset
<1>2. Cardinality(A) = 0
  BY DEF NumIn
<1>3. A = {}
  <2> HIDE DEF A
  <2> QED
    BY <1>1, <1>2, FS_EmptySet
<1> QED
  BY <1>3

\* Visitors wait in the order of their arrival.
LEMMA LinedStep ==
  ASSUME Typed, Admitted, BookTyped, HeapFrom(eventQueue, 1), Lined, [Next]_vars
  PROVE  Lined'
<1>0. eventQueue \in Seq(Event) /\ waiting \in [Types -> Seq(Event)] /\ Len(eventQueue) \in Nat
  BY DEF BookTyped
<1>1. /\ \A e \in Event : e.time \in Int
      /\ \A j \in 1 .. Len(eventQueue) : eventQueue[j] \in Event
      /\ \A x \in Types : \A i \in 1 .. Len(waiting[x]) : waiting[x][i] \in Event
  <2>1. \A e \in Event : e.time \in Int
    BY DEF Event
  <2>2. ASSUME NEW x \in Types, NEW i \in 1 .. Len(waiting[x]) PROVE waiting[x][i] \in Event
    <3>1. waiting[x] \in Seq(Event)
      BY <1>0
    <3> QED
      BY <3>1
  <2> QED
    BY <1>0, <2>1, <2>2
<1>2. ASSUME UNCHANGED waiting,
             \A j \in 1 .. Len(eventQueue') :
                \/ eventQueue'[j].type = "D"
                \/ \E l \in 1 .. Len(eventQueue) : eventQueue'[j] = eventQueue[l]
      PROVE  Lined'
  BY <1>2 DEF Lined
<1>3. CASE Arrive
  <2> DEFINE e == eventQueue[1]
             x == e.type
  <2>1. /\ eventQueue # << >> /\ e \in Event /\ x \in Types /\ x # "D"
        /\ eventQueue' = delevent(eventQueue)
    BY <1>3, Arrives DEF Types
  <2>2. \A j \in 1 .. Len(eventQueue') : \E l \in 1 .. Len(eventQueue) : eventQueue'[j] = eventQueue[l]
    BY <1>0, <2>1, Deleted
  <2>3. CASE UNCHANGED waiting
    BY <1>2, <2>2, <2>3
  <2>4. CASE ~UNCHANGED waiting
    <3> DEFINE w == waiting[x]
               n == Len(w) + 1
    <3>1. waiting' = [waiting EXCEPT ![x] = Append(@, e)]
      BY <1>3, <2>4, Arrives
    <3>2. /\ w \in Seq(Event) /\ waiting'[x] = Append(w, e)
          /\ \A y \in Types : y # x => waiting'[y] = waiting[y]
      BY <1>0, <2>1, <3>1
    <3>3. /\ Len(waiting'[x]) = n /\ Len(w) \in Nat /\ waiting'[x][n] = e
          /\ \A i \in 1 .. n : i # n => i \in 1 .. Len(w) /\ waiting'[x][i] = w[i]
      BY <2>1, <3>2
    <3>4. \A l \in 1 .. Len(eventQueue) : e.time <= eventQueue[l].time
      <4>1. \A l \in 1 .. Len(eventQueue) : NotAfter(e, eventQueue[l])
        BY <1>0, HeapFirst DEF BookTyped
      <4>2. e.time \in Int /\ \A l \in 1 .. Len(eventQueue) : eventQueue[l].time \in Int
        BY <1>1, <2>1
      <4> HIDE DEF e
      <4> QED
        BY <4>1, <4>2 DEF NotAfter
    <3>5. \A i \in 1 .. Len(w) : w[i].time <= e.time
      <4>1. 1 \in 1 .. Len(eventQueue)
        BY <1>0, <2>1
      <4> QED
        BY <2>1, <4>1 DEF Lined
    <3>6. e.time \in Int /\ \A i \in 1 .. Len(w) : w[i].time \in Int
      BY <1>1, <2>1
    <3> HIDE DEF e, x, w, n
    <3>7. ASSUME NEW i \in 1 .. n, NEW l \in 1 .. n, i <= l
          PROVE  waiting'[x][i].time <= waiting'[x][l].time
      <4>0. n \in Nat /\ n = Len(w) + 1
        BY <3>3 DEF n
      <4>1. CASE l # n
        <5>1. i # n
          BY <3>7, <4>0, <4>1
        <5>2. /\ i \in 1 .. Len(w) /\ l \in 1 .. Len(w)
              /\ waiting'[x][i] = w[i] /\ waiting'[x][l] = w[l]
          BY <3>3, <4>1, <5>1
        <5>3. w[i].time <= w[l].time
          BY <2>1, <3>7, <5>2 DEF Lined, w
        <5> QED
          BY <5>2, <5>3
      <4>2. CASE l = n /\ i # n
        BY <3>3, <3>5, <4>2
      <4>3. CASE l = n /\ i = n
        BY <3>3, <3>6, <4>3
      <4> QED
        BY <4>1, <4>2, <4>3
    <3>8. ASSUME NEW i \in 1 .. n, NEW j \in 1 .. Len(eventQueue'), eventQueue'[j].type # "D"
          PROVE  waiting'[x][i].time <= eventQueue'[j].time
      <4>1. PICK l \in 1 .. Len(eventQueue) : eventQueue'[j] = eventQueue[l]
        BY <2>2
      <4>2. CASE i = n
        BY <3>3, <3>4, <4>1, <4>2
      <4>3. CASE i # n
        <5>1. i \in 1 .. Len(w) /\ waiting'[x][i] = w[i]
          BY <3>3, <4>3
        <5>2. w[i].time <= eventQueue[l].time
          BY <2>1, <3>8, <4>1, <5>1 DEF Lined, w
        <5> QED
          BY <4>1, <5>1, <5>2
      <4> QED
        BY <4>2, <4>3
    <3>9. ASSUME NEW y \in Types, y # x
          PROVE  /\ \A i, l \in 1 .. Len(waiting'[y]) :
                        i <= l => waiting'[y][i].time <= waiting'[y][l].time
                 /\ \A i \in 1 .. Len(waiting'[y]) : \A j \in 1 .. Len(eventQueue') :
                        eventQueue'[j].type # "D" => waiting'[y][i].time <= eventQueue'[j].time
      <4>1. waiting'[y] = waiting[y]
        BY <3>2, <3>9
      <4> QED
        BY <2>2, <4>1 DEF Lined
    <3>10. ASSUME NEW y \in Types, y = x
           PROVE  /\ \A i, l \in 1 .. Len(waiting'[y]) :
                         i <= l => waiting'[y][i].time <= waiting'[y][l].time
                  /\ \A i \in 1 .. Len(waiting'[y]) : \A j \in 1 .. Len(eventQueue') :
                         eventQueue'[j].type # "D" => waiting'[y][i].time <= eventQueue'[j].time
      BY <3>3, <3>7, <3>8, <3>10
    <3> QED
      BY <3>9, <3>10 DEF Lined
  <2> QED
    BY <2>3, <2>4
<1>4. CASE Doctor
  <2>1. eventQueue # << >> /\ eventQueue' = delevent(eventQueue) /\ UNCHANGED waiting
    BY <1>4, DoctorComes
  <2> QED
    BY <1>0, <1>2, <2>1, Deleted
<1>5. CASE Call
  <2>1. UNCHANGED <<waiting, eventQueue>>
    BY <1>5, Calls
  <2> QED
    BY <2>1 DEF Lined
<1>6. CASE Idle \/ Wait
  <2>1. UNCHANGED waiting
    BY <1>6, Requeues
  <2>2. CASE UNCHANGED eventQueue
    BY <2>1, <2>2 DEF Lined
  <2>3. CASE ~UNCHANGED eventQueue
    <3>1. PICK e \in Event : e.type = "D" /\ eventQueue' = addevent(eventQueue, e)
      BY <1>6, <2>3, Requeues
    <3>2. \A j \in 1 .. Len(eventQueue') :
             eventQueue'[j] = e \/ \E l \in 1 .. Len(eventQueue) : eventQueue'[j] = eventQueue[l]
      <4> DEFINE K == addevent(eventQueue, e)
      <4>1. \A j \in 1 .. Len(K) : K[j] = e \/ \E l \in 1 .. Len(eventQueue) : K[j] = eventQueue[l]
        BY <1>0, Added
      <4>2. eventQueue' = K
        BY <3>1
      <4> HIDE DEF K
      <4> QED
        BY <4>1, <4>2
    <3> QED
      BY <1>2, <2>1, <3>1, <3>2
  <2> QED
    BY <2>2, <2>3
<1>7. CASE Unheard
  BY <1>7 DEF Unheard, book, Lined
<1> QED
  BY <1>3, <1>4, <1>5, <1>6, <1>7, Handlers

\* When a visitor is called, all that is still to come is later.
LEMMA AllComeStep ==
  ASSUME Typed, Admitted, BookTyped, HeapFrom(eventQueue, 1), Counted, AllCome, [Next]_vars
  PROVE  AllCome'
<1>0. eventQueue \in Seq(Event) /\ \A j \in 1 .. Len(eventQueue) : eventQueue[j] \in Event
  BY DEF BookTyped
<1>1. CASE Arrive
  BY <1>1, Arrives DEF AllCome
<1>2. CASE Doctor
  <2> DEFINE e == eventQueue[1]
             K == delevent(eventQueue)
  <2>1. /\ eventQueue # << >> /\ e \in Event /\ e.type = "D" /\ apc = "loop"
        /\ eventQueue' = K /\ current_time' = e.time
    BY <1>2, DoctorComes
  <2>2. /\ K \in Seq(Event)
        /\ \A P : NumIn(K, P) = NumIn(eventQueue, P) - IF e \in P THEN 1 ELSE 0
        /\ \A j \in 1 .. Len(K) : \E l \in 1 .. Len(eventQueue) : K[j] = eventQueue[l]
    BY <1>0, <2>1, Deleted
  <2>3. \A l \in 1 .. Len(eventQueue) : NotAfter(e, eventQueue[l])
    BY <1>0, HeapFirst
  <2> HIDE DEF e, K
  <2>4. NumIn(K, OfType("D")) = 0
    <3>1. NumIn(K, OfType("D")) \in Nat /\ NumIn(eventQueue, OfType("D")) \in Nat
      BY <1>0, <2>1, <2>2, Appended
    <3>2. e \in OfType("D")
      BY <2>1 DEF OfType
    <3>3. NumIn(K, OfType("D")) = NumIn(eventQueue, OfType("D")) - 1
      BY <2>2, <3>2
    <3>4. NumIn(eventQueue, OfType("D")) <= 1
      BY <2>1 DEF Counted
    <3> QED
      BY <3>1, <3>3, <3>4
  <2>5. ASSUME NEW j \in 1 .. Len(K) PROVE K[j].time > e.time
    <3>1. K[j] \in Event /\ K[j].type # "D"
      <4>1. K[j] \in Event
        BY <2>2
      <4>2. K[j] \notin OfType("D")
        BY <2>2, <2>4, NoneIn
      <4> QED
        BY <4>1, <4>2 DEF OfType
    <3>2. NotAfter(e, K[j])
      BY <2>2, <2>3
    <3>3. ~(Rank[e.type] <= Rank[K[j].type])
      BY <2>1, <3>1 DEF Rank, Event, Types
    <3>4. e.time < K[j].time
      BY <3>2, <3>3 DEF NotAfter
    <3>5. e.time \in Int /\ K[j].time \in Int
      BY <2>1, <3>1 DEF Event
    <3> QED
      BY <3>4, <3>5
  <2> QED
    BY <2>1, <2>5 DEF AllCome
<1>3. CASE Call
  BY <1>3, Calls DEF AllCome
<1>4. CASE Idle \/ Wait
  BY <1>4, Requeues DEF AllCome, Late
<1>5. CASE Unheard
  BY <1>5 DEF Unheard, book, AllCome, Late
<1> QED
  BY <1>1, <1>2, <1>3, <1>4, <1>5, Handlers

-----------------------------------------------------------------------------
(* Who sleeps                                                              *)

\* The threads that there are stay.
LEMMA ThreadsStay ==
  ASSUME Typed, Admitted, BookTyped, [Next]_vars
  PROVE  Threads \subseteq Threads'
<1>1. \A x \in Types : Len(vpc[x]) \in Nat /\ Len(vpc'[x]) \in Nat
  <2>1. vpc \in [Types -> Seq(VisitorPlaces)] /\ vpc' \in [Types -> Seq(VisitorPlaces)]
    BY TypedStep DEF Typed
  <2> QED
    BY <2>1
<1>2. \A x \in Types : Len(vpc[x]) <= Len(vpc'[x])
  <2>1. CASE Arrive
    <3> DEFINE z == eventQueue[1].type
    <3>1. z \in Types /\ (UNCHANGED vpc \/ vpc' = [vpc EXCEPT ![z] = Append(@, "test")])
      BY <2>1, Arrives
    <3> HIDE DEF z
    <3>2. \A x \in Types : vpc'[x] = vpc[x] \/ vpc'[x] = Append(vpc[x], "test")
      BY <3>1 DEF Typed
    <3>3. \A x \in Types : Len(Append(vpc[x], "test")) = Len(vpc[x]) + 1
      BY DEF Typed
    <3> QED
      BY <1>1, <3>2, <3>3
  <2>2. CASE Doctor \/ Call \/ Idle \/ Wait
    <3>1. UNCHANGED vpc
      BY <2>2 DEF Doctor, Call, Idle, Wait
    <3> QED
      BY <1>1, <3>1
  <2>3. CASE Unheard
    BY <1>1, <2>3 DEF Unheard
  <2> QED
    BY <2>1, <2>2, <2>3, Handlers
<1>3. \A x \in Types : {x} \X (1 .. Len(vpc[x])) \subseteq {x} \X (1 .. Len(vpc'[x]))
  BY <1>1, <1>2
<1> QED
  BY <1>3 DEF Threads

\* A thread that is awake falls asleep on one condition.
LEMMA FallsAsleep ==
  ASSUME Slept, Threads \subseteq Threads', NEW t \in Threads, NEW c \in Conds, Awake(t), Sleep(t, c)
  PROVE  Slept'
<1>1. asleep' = [asleep EXCEPT ![c] = asleep[c] \cup {t}] /\ asleep \in [Conds -> SUBSET Threads]
  BY DEF Sleep, Slept
<1>2. asleep' \in [Conds -> SUBSET Threads']
  BY <1>1
<1>3. \A d \in Conds : t \notin asleep[d]
  BY DEF Awake
<1>4. \A d \in Conds : asleep'[d] = IF d = c THEN asleep[d] \cup {t} ELSE asleep[d]
  BY <1>1
<1>5. ASSUME NEW d \in Conds, NEW e \in Conds, asleep'[d] \cap asleep'[e] # {}
      PROVE  d = e
  <2>1. \A f, h \in Conds : asleep[f] \cap asleep[h] # {} => f = h
    BY DEF Slept
  <2>2. PICK u \in asleep'[d] : u \in asleep'[e]
    BY <1>5
  <2>3. \A f \in Conds : u \in asleep'[f] => u \in asleep[f] \/ (f = c /\ u = t)
    BY <1>4
  <2>4. CASE u = t
    BY <1>3, <1>5, <2>2, <2>3, <2>4
  <2>5. CASE u # t
    BY <1>5, <2>1, <2>2, <2>3, <2>5
  <2> QED
    BY <2>4, <2>5
<1> QED
  BY <1>2, <1>5 DEF Slept

\* A signal wakes one thread or none.
LEMMA Wakes ==
  ASSUME Slept, Threads \subseteq Threads', NEW c, Signal(c)
  PROVE  Slept'
<1>1. asleep \in [Conds -> SUBSET Threads]
  BY DEF Slept
<1>2. CASE UNCHANGED asleep
  BY <1>2 DEF Slept
<1>3. CASE ~UNCHANGED asleep
  <2>1. PICK t \in asleep[c] : asleep' = [asleep EXCEPT ![c] = asleep[c] \ {t}]
    BY <1>3 DEF Signal
  <2>2. c \in Conds
    BY <1>1, <1>3, <2>1
  <2>3. asleep' \in [Conds -> SUBSET Threads']
    BY <1>1, <2>1, <2>2
  <2>4. \A d \in Conds : asleep'[d] \subseteq asleep[d]
    BY <1>1, <2>1, <2>2
  <2> QED
    BY <2>3, <2>4 DEF Slept
<1> QED
  BY <1>2, <1>3

\* A thread sleeps on one condition at most.
LEMMA SleptStep ==
  ASSUME Typed, Admitted, BookTyped, Slept, [Next]_vars
  PROVE  Slept'
<1>9. Threads \subseteq Threads'
  BY ThreadsStay
<1>0. /\ assistantThread \in Threads /\ doctorThread \in Threads
      /\ {"cond_doctor", "cond_doctor_meet", "doctor_completed", "doctor_entered"} \cup Types \subseteq Conds
  BY DEF Threads, Conds
<1>1. ASSUME UNCHANGED asleep PROVE Slept'
  BY <1>1, <1>9 DEF Slept
<1>2. CASE UNCHANGED vars
  BY <1>1, <1>2 DEF vars
<1>3. CASE Arrive \/ Doctor \/ MakeFree \/ Call \/ Idle \/ Join
  BY <1>1, <1>3 DEF Arrive, Doctor, MakeFree, Call, Idle, Join
<1>4. CASE LastCall \/ SignalDoctor \/ SignalVisitor
  BY <1>4, <1>9, Wakes DEF LastCall, SignalDoctor, SignalVisitor
<1>5. CASE LastWait \/ Wait
  <2>1. UNCHANGED asleep \/ (Awake(assistantThread) /\ Sleep(assistantThread, "doctor_completed"))
    BY <1>5 DEF LastWait, Wait, AwaitDone, AssistantGoto
  <2> QED
    BY <1>0, <1>1, <2>1, <1>9, FallsAsleep
<1>6. CASE End
  BY <1>1, <1>6, <1>9, Wakes DEF End
<1>7. CASE DoctorThread
  <2>1. CASE DoctorSleeps
    <3>1. \/ Awake(doctorThread) /\ Sleep(doctorThread, "cond_doctor")
          \/ Awake(doctorThread) /\ Sleep(doctorThread, "cond_doctor_meet")
      BY <2>1 DEF DoctorSleeps, DoctorGoto
    <3> QED
      BY <1>0, <3>1, <1>9, FallsAsleep
  <2>2. CASE TakeFree \/ TakeMet
    BY <1>1, <2>2 DEF TakeFree, TakeMet
  <2>3. CASE Leave \/ Ready \/ Finish
    BY <2>3, <1>9, Wakes DEF Leave, Ready, Finish, Done
  <2> QED
    BY <1>7, <2>1, <2>2, <2>3 DEF DoctorThread
<1>8. ASSUME NEW x \in Types, NEW i \in DOMAIN vpc[x], Visitor(x, i) PROVE Slept'
  <2>1. <<x, i>> \in Threads
    <3>1. vpc[x] \in Seq(VisitorPlaces)
      BY DEF Typed
    <3>2. i \in 1 .. Len(vpc[x])
      BY <3>1
    <3> QED
      BY <3>2 DEF Threads
  <2>2. CASE Seen(x, i)
    BY <1>1, <2>2 DEF Seen
  <2>3. CASE VisitorSleeps(x, i)
    <3>1. Awake(<<x, i>>) /\ Sleep(<<x, i>>, x) /\ x \in Conds
      BY <1>0, <2>3 DEF VisitorSleeps, VisitorGoto
    <3> QED
      BY <2>1, <3>1, <1>9, FallsAsleep
  <2>4. CASE Enter(x, i)
    <3>1. UNCHANGED asleep \/ (Awake(<<x, i>>) /\ Sleep(<<x, i>>, "doctor_entered"))
      BY <2>4 DEF Enter, VisitorGoto
    <3> QED
      BY <1>0, <1>1, <2>1, <3>1, <1>9, FallsAsleep
  <2>5. CASE Meet(x, i)
    BY <2>5, <1>9, Wakes DEF Meet
  <2> QED
    BY <1>8, <2>2, <2>3, <2>4, <2>5 DEF Visitor
<1> QED
  BY <1>2, <1>3, <1>4, <1>5, <1>6, <1>7, <1>8 DEF Next, Assistant

-----------------------------------------------------------------------------
(* The theorems on the queue                                               *)

\* At the start the queue holds the arrival file and the doctor.
LEMMA InitQInv == Init => QInv
<1> SUFFICES ASSUME Init PROVE QInv
  OBVIOUS
<1> DEFINE d == [type |-> "D", time |-> 0, duration |-> 0]
           H == initEQ(file)
<1>1. file \in Files /\ file \in Seq(Event)
  <2>1. file \in Seq([type : {"R", "P", "S"}, time : Int, duration : Nat \ {0}])
    BY SessionAssumption DEF Init
  <2>2. [type : {"R", "P", "S"}, time : Int, duration : Nat \ {0}] \subseteq Event
    BY DEF Event, Types
  <2>3. file \in Files
    BY DEF Init
  <2>4. file \in Seq(Event)
    <3> DEFINE A == [type : {"R", "P", "S"}, time : Int, duration : Nat \ {0}]
    <3>1. file \in Seq(A) /\ A \subseteq Event
      BY <2>1, <2>2
    <3> HIDE DEF A
    <3>2. file \in [1 .. Len(file) -> Event] /\ Len(file) \in Nat
      BY <3>1
    <3> QED
      BY <3>2
  <2> QED
    BY <2>3, <2>4
<1>2. /\ H \in Seq(Event) /\ HeapFrom(H, 1)
      /\ \A P : NumIn(H, P) = NumIn(file, P)
  BY <1>1, Inited DEF Same
<1>3. d \in Event /\ d.type = "D"
  BY DEF Event
<1>4. eventQueue = addevent(H, d)
  BY DEF Init
<1> HIDE DEF H, d
<1>5. /\ eventQueue \in Seq(Event) /\ HeapFrom(eventQueue, 1)
      /\ \A P : NumIn(eventQueue, P) = NumIn(file, P) + IF d \in P THEN 1 ELSE 0
  <2>1. /\ addevent(H, d) \in Seq(Event) /\ HeapFrom(addevent(H, d), 1)
        /\ \A P : NumIn(addevent(H, d), P) = NumIn(H, P) + IF d \in P THEN 1 ELSE 0
    BY <1>2, <1>3, Added
  <2> QED
    BY <1>2, <1>4, <2>1
<1>6. Counted
  <2>1. \A P : NumIn(file, P) \in Nat
    BY <1>1, <1>3, Appended
  <2>2. \A x \in Types : NumIn(file, OfType(x)) = Arrivals(file, x)
    <3> SUFFICES ASSUME NEW x \in Types PROVE NumIn(file, OfType(x)) = Arrivals(file, x)
      OBVIOUS
    <3>1. {j \in 1 .. Len(file) : file[j] \in OfType(x)} = {j \in DOMAIN file : file[j].type = x}
      BY <1>1 DEF OfType
    <3> QED
      BY <3>1 DEF NumIn, Arrivals
  <2>3. NumIn(file, OfType("D")) = 0
    <3>1. {j \in 1 .. Len(file) : file[j] \in OfType("D")} = {}
      <4>1. file \in Seq([type : {"R", "P", "S"}, time : Int, duration : Nat \ {0}])
        BY SessionAssumption DEF Init
      <4>2. \A j \in 1 .. Len(file) : file[j].type \in {"R", "P", "S"}
        <5> DEFINE A == [type : {"R", "P", "S"}, time : Int, duration : Nat \ {0}]
        <5>1. file \in Seq(A) /\ \A e \in A : e.type \in {"R", "P", "S"}
          BY <4>1
        <5> HIDE DEF A
        <5>2. \A j \in 1 .. Len(file) : file[j] \in A
          BY <5>1
        <5> QED
          BY <5>1, <5>2
      <4> QED
        BY <4>2 DEF OfType
    <3> QED
      BY <3>1, FS_EmptySet DEF NumIn
  <2>4. (\A x \in Types : d \notin OfType(x)) /\ d \in OfType("D")
    BY <1>3 DEF OfType, Types
  <2>5. \A x \in Types : token[x] = 0 /\ NumIn(eventQueue, OfType(x)) = Arrivals(file, x)
    BY <1>5, <2>1, <2>2, <2>4 DEF Init
  <2>6. NumIn(eventQueue, OfType("D")) = 1
    BY <1>5, <2>3, <2>4
  <2>7. \A x \in Types : token[x] + NumIn(eventQueue, OfType(x)) = Arrivals(file, x)
    BY <2>1, <2>2, <2>5
  <2> QED
    BY <2>6, <2>7 DEF Counted, Init
<1>7. BookTyped
  <2>1. << >> \in Seq(Event)
    OBVIOUS
  <2>2. waiting = [x \in Types |-> << >>] /\ vpc = waiting
    BY DEF Init
  <2>3. waiting \in [Types -> Seq(Event)] /\ \A x \in Types : Len(waiting[x]) = Len(vpc[x])
    BY <2>1, <2>2
  <2>4. current_time \in Int /\ temp \in [type : Types \cup {"D"}, time : Int]
    BY DEF Init
  <2> QED
    BY <1>1, <1>5, <2>3, <2>4 DEF BookTyped
<1>8. Lined
  BY DEF Lined, Init
<1>9. AllCome /\ Slept
  BY DEF AllCome, Slept, Init
<1> QED
  BY <1>5, <1>6, <1>7, <1>8, <1>9 DEF QInv

\* Every step keeps the queue's invariant.
LEMMA NextQInv == IInv /\ QInv /\ [Next]_vars => QInv'
<1> SUFFICES ASSUME IInv, QInv, [Next]_vars PROVE QInv'
  OBVIOUS
<1>1. /\ Typed /\ Admitted /\ BookTyped /\ HeapFrom(eventQueue, 1)
      /\ Counted /\ Lined /\ AllCome /\ Slept
  BY DEF IInv, QInv
<1> QED
  BY <1>1, BookStep, CountedStep, LinedStep, AllComeStep, SleptStep DEF QInv

\* The queue's invariant holds.
THEOREM QueueInvariant == Spec => []QInv
BY InitQInv, NextQInv, Invariant, PTL DEF Spec

\* The heap never loses or invents an event, its first entry is the one that is
\* to come out first, and the doctor has one event at most in it (event.c:
\* initEQ, addevent, delevent), for arrival files of any length.
THEOREM HeapRight == Spec => []QueueIsRight
<1>1. ASSUME IInv, QInv PROVE QueueIsRight
  <2>1. /\ Typed /\ Admitted /\ BookTyped /\ HeapFrom(eventQueue, 1) /\ Counted /\ Slept
    BY <1>1 DEF IInv, QInv
  <2>2. /\ eventQueue \in Seq(Event) /\ DOMAIN eventQueue = 1 .. Len(eventQueue)
        /\ \A j \in 1 .. Len(eventQueue) : eventQueue[j] \in Event
    BY <2>1 DEF BookTyped
  <2>3. \A j \in DOMAIN eventQueue : NotAfter(eventQueue[1], eventQueue[j])
    BY <2>1, <2>2, HeapFirst
  <2>4. \A x \in Types \cup {"D"} :
          Cardinality({j \in DOMAIN eventQueue : eventQueue[j].type = x}) = NumIn(eventQueue, OfType(x))
    <3> SUFFICES ASSUME NEW x \in Types \cup {"D"}
                 PROVE  Cardinality({j \in DOMAIN eventQueue : eventQueue[j].type = x})
                          = NumIn(eventQueue, OfType(x))
      OBVIOUS
    <3>1. {j \in DOMAIN eventQueue : eventQueue[j].type = x}
          = {j \in 1 .. Len(eventQueue) : eventQueue[j] \in OfType(x)}
      BY <2>2 DEF OfType
    <3> QED
      BY <3>1 DEF NumIn
  <2>5. \A P : NumIn(eventQueue, P) \in Nat
    <3> DEFINE d == [type |-> "D", time |-> 0, duration |-> 0]
    <3>1. d \in Event
      BY DEF Event
    <3> HIDE DEF d
    <3> QED
      BY <2>2, <3>1, Appended
  <2>6. /\ \A x \in Types : token[x] + NumIn(eventQueue, OfType(x)) = Arrivals(file, x)
        /\ NumIn(eventQueue, OfType("D")) <= 1
    BY <2>1, <2>5 DEF Counted
  <2>7. \A x \in Types : token[x] \in 0 .. Arrivals(file, x)
    <3>1. \A x \in Types : token[x] \in Nat
      BY <2>1 DEF Typed
    <3> QED
      BY <2>5, <2>6, <3>1
  <2>8. TypeOK
    <3>1. \A j \in DOMAIN eventQueue : eventQueue[j].type \in Types \cup {"D"}
      BY <2>2 DEF Event
    <3>2. \A x \in Types : /\ num[x] \in Nat /\ current[x] + num[x] = Len(waiting[x])
                           /\ Len(vpc[x]) = Len(waiting[x])
      BY <2>1 DEF Typed, Admitted, BookTyped
    <3>3. \A x \in Types : \A i \in DOMAIN vpc[x] :
             vpc[x][i] \in {"test", "sleep", "enter", "chamber", "gone"}
      BY <2>1 DEF Typed, VisitorPlaces
    <3>4. /\ apc \in {"loop", "last", "lastwait", "free", "call", "signal", "signalvisitor",
                      "wait", "end", "join", "over"}
          /\ dpc \in {"test", "enter", "meet", "finish", "left"}
      BY <1>1 DEF IInv, Baton, Resting, Coming, Ending, Leaving
    <3>5. file \in Files /\ temp.type \in Types \cup {"D"}
      BY <2>1 DEF BookTyped
    <3>6. \A b \in {doctor_firstcase, session_done, doctor_free, doctor_enter, doctor_met, doctor_done} :
             b \in BOOLEAN
      BY <2>1 DEF Typed
    <3> QED
      BY <2>1, <2>7, <3>1, <3>2, <3>3, <3>4, <3>5, <3>6 DEF TypeOK, Slept
  <2> QED
    BY <2>3, <2>4, <2>6, <2>8 DEF QueueIsRight, NotAfter
<1> QED
  BY <1>1, Invariant, QueueInvariant, PTL

\* When a visitor is called, everybody who has come by then has been let in or
\* sent away, nobody who goes first waits, and visitors of a type are called in
\* the order of their arrival (session.c:118-120, 251-281).
THEOREM InOrder == Spec => CallsInOrder
<1> DEFINE Step == \A x \in Types : current'[x] # current[x] =>
          /\ \A j \in DOMAIN eventQueue : eventQueue[j].time > current_time
          /\ \A y \in Types : Rank[y] < Rank[x] => num[y] = 0
          /\ \A i \in 1 .. current[x] : waiting[x][i].time <= waiting[x][current'[x]].time
<1>1. ASSUME IInv, QInv, [Next]_vars PROVE [Step]_vars
  <2>1. /\ Typed /\ Admitted /\ BookTyped /\ HeapFrom(eventQueue, 1) /\ Lined /\ AllCome
    BY <1>1 DEF IInv, QInv
  <2>2. CASE UNCHANGED current
    BY <2>2
  <2>3. CASE ~UNCHANGED current
    <3>1. Call
      BY <1>1, <2>1, <2>3, Handlers, Arrives, DoctorComes, Requeues DEF Unheard, book
    <3>2. PICK x \in Types :
             /\ current[x] + 1 \in 1 .. Len(waiting[x])
             /\ x = "P" => num["R"] = 0
             /\ x = "S" => num["R"] = 0 /\ num["P"] = 0
             /\ current' = [current EXCEPT ![x] = @ + 1] /\ apc = "call"
      BY <2>1, <3>1, Calls
    <3>3. current'[x] = current[x] + 1 /\ \A y \in Types : y # x => current'[y] = current[y]
      BY <2>1, <3>2 DEF Typed
    <3>4. \A j \in DOMAIN eventQueue : eventQueue[j].time > current_time
      <4>1. DOMAIN eventQueue = 1 .. Len(eventQueue)
        BY <2>1 DEF BookTyped
      <4> QED
        BY <2>1, <3>2, <4>1 DEF AllCome
    <3>5. \A y \in Types : Rank[y] < Rank[x] => num[y] = 0
      BY <3>2 DEF Rank, Types
    <3>6. \A i \in 1 .. current[x] : waiting[x][i].time <= waiting[x][current[x] + 1].time
      <4>1. current[x] \in Nat /\ Len(waiting[x]) \in Nat
        BY <2>1 DEF Typed, BookTyped
      <4>2. \A i \in 1 .. current[x] : i \in 1 .. Len(waiting[x]) /\ i <= current[x] + 1
        BY <3>2, <4>1
      <4> QED
        BY <2>1, <3>2, <4>2 DEF Lined
    <3> QED
      BY <3>3, <3>4, <3>5, <3>6
  <2> QED
    BY <2>2, <2>3
<1> QED
  BY <1>1, Invariant, QueueInvariant, PTL DEF Spec, CallsInOrder

=============================================================================
