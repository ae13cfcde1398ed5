----------------------------- MODULE EventQueue -----------------------------
(***************************************************************************)
(* The event queue of Assignment_06 (event.c): a binary heap in an array.  *)
(* The array is a sequence, so the entry of index i in C is the one of     *)
(* index i + 1 here.  A loop is a recursive function of its variables.     *)
(***************************************************************************)
EXTENDS Integers, Sequences, FiniteSets, SequencesExt

Swap(Q, i, l) == [Q EXCEPT ![i] = Q[l], ![l] = Q[i]]

Rank == [R |-> 0, P |-> 1, S |-> 2, D |-> 3]

\* eventcmp(e1, e2) < 0: of two events of one time and one type other than D
\* each is before the other.
Before(e1, e2) ==
    \/ e1.time < e2.time
    \/ /\ e1.time = e2.time
       /\ \/ Rank[e1.type] < Rank[e2.type]
          \/ e1.type = e2.type /\ e1.type # "D"

\* The states of a loop over the entries of Q whose index is in D.
Loop(Q, D) == [Q : [DOMAIN Q -> Range(Q)], i : D]

\* The child that goes first.
MinChild(Q, i) ==
    IF 2 * i + 1 > Len(Q) \/ Before(Q[2 * i], Q[2 * i + 1]) THEN 2 * i ELSE 2 * i + 1

DownEnds(Q, i) == 2 * i > Len(Q) \/ Before(Q[i], Q[MinChild(Q, i)])

\* The loop that moves an entry down.
Down(Q, i) ==
    LET down[s \in Loop(Q, DOMAIN Q)] ==
            IF DownEnds(s.Q, s.i) THEN s.Q
            ELSE down[[Q |-> Swap(s.Q, s.i, MinChild(s.Q, s.i)), i |-> MinChild(s.Q, s.i)]]
    IN  down[[Q |-> Q, i |-> i]]

\* The loop that moves the last entry up.
Up(Q) ==
    LET up[s \in Loop(Q, DOMAIN Q)] ==
            IF s.i = 1 \/ Before(s.Q[s.i \div 2], s.Q[s.i]) THEN s.Q
            ELSE up[[Q |-> Swap(s.Q, s.i, s.i \div 2), i |-> s.i \div 2]]
    IN  up[[Q |-> Q, i |-> Len(Q)]]

initEQ(file) ==
    LET heaped[s \in Loop(file, 0 .. Len(file))] ==
            IF s.i = 0 THEN s.Q ELSE heaped[[Q |-> Down(s.Q, s.i), i |-> s.i - 1]]
    IN  heaped[[Q |-> file, i |-> Len(file) \div 2]]

addevent(Q, e) == Up(Append(Q, e))

\* Mutant: the last entry takes the place of the first and stays there.
delevent_NoSift(Q) ==
    IF Len(Q) < 2 THEN << >> ELSE Front([Q EXCEPT ![1] = Last(Q)])

delevent(Q) ==
    IF Len(Q) < 2 THEN << >> ELSE Down(Front([Q EXCEPT ![1] = Last(Q)]), 1)

emptyQ(Q) == Q = << >>
nextevent(Q) == Q[1]

=============================================================================
