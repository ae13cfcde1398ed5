----------------------------- MODULE MCSession -----------------------------
(* The session with small arrival files. *)
EXTENDS Session

Ev(x, t, d) == [type |-> x, time |-> t, duration |-> d]

\* Visitors before the doctor, at the same time, over the quota and after the
\* session.
Day == <<Ev("P", -1, 1), Ev("S", 0, 1), Ev("R", 0, 1), Ev("P", 1, 2), Ev("P", 1, 1),
         Ev("P", 2, 1), Ev("R", 12, 1)>>

\* All but one wait when the doctor starts; a reporter comes when the last
\* meeting ends.
Crowd == <<Ev("P", -2, 2), Ev("P", -1, 1), Ev("P", -1, 1), Ev("S", -2, 1), Ev("R", 0, 1), Ev("R", 6, 1)>>

\* A pause of the doctor's between two visitors.
Quiet == <<Ev("P", 7, 1), Ev("P", 3, 1), Ev("S", 3, 1), Ev("P", 9, 1), Ev("R", 12, 1)>>

\* Too few patients for the quota.
Few == <<Ev("R", 1, 1), Ev("P", 0, 1)>>

Rotate(s, r) == [j \in DOMAIN s |-> s[((j + r) % Len(s)) + 1]]

\* The visitors of a day in different orders in the file.
SomeFiles == UNION {{Rotate(s, r) : r \in 0 .. Len(s) - 1} : s \in {Day, Crowd, Quiet, Few}}

=============================================================================
