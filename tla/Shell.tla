------------------------------- MODULE Shell --------------------------------
(***************************************************************************)
(* The command shell of Assignment_03 (CSE.c; cse.c is the same file): a   *)
(* supervisor starts two copies, C and E, each in a terminal of its own.   *)
(* The one in input mode sends each line typed to the other over a pipe,   *)
(* and the other executes it; "swaprole" exchanges the roles.              *)
(*                                                                         *)
(* fgets takes at most 98 characters, so a line is a sequence of pieces    *)
(* and the rest of it stays in the buffer of stdin, whatever descriptor 0  *)
(* is by then.  The text of a piece is its kind: a command, "swaprole" or  *)
(* "exit".  Both terminals keep all ends of the pipes open, so that nobody *)
(* sees an end of file or a broken pipe.                                   *)
(***************************************************************************)
EXTENDS Naturals, Sequences

CONSTANTS
    Lines,          \* the lines that are typed: sequences of kinds
    MAX_SENT        \* bound: pieces sent

Processes == {"C", "E"}
Kinds == {"command", "swaprole", "exit"}

\* With text after the first 98 characters of a line with "swaprole", the one
\* who typed it would execute that text himself.
LinesAssumption ==
    /\ MAX_SENT \in Nat
    /\ \A l \in Lines : /\ l \in Seq(Kinds) /\ l # <<>>
                        /\ \A i \in 1..Len(l) - 1 : l[i] # "swaprole"

VARIABLES
    super,          \* the place of the supervisor
    mode,           \* process -> "input" (0) or "execute" (1)
    at,             \* process -> its place
    buff,           \* process -> the piece in buff
    stdin,          \* process -> pieces in the buffer of stdin
    pipe,           \* process -> what it has written for the other (a or b)
    sent,           \* history: pieces sent by anybody
    handled         \* history: number of the last piece handled

shell == <<mode, at, buff, stdin, pipe, sent, handled>>
vars == <<super, shell>>

None == [kind |-> "none", number |-> 0]
Other(p) == IF p = "C" THEN "E" ELSE "C"

Init ==
    /\ super = "start"
    /\ mode = [p \in Processes |-> IF p = "C" THEN "input" ELSE "execute"]
    /\ at = [p \in Processes |-> "unborn"]
    /\ buff = [p \in Processes |-> None]
    /\ stdin = [p \in Processes |-> <<>>] /\ pipe = [p \in Processes |-> <<>>]
    /\ sent = 0 /\ handled = 0

-----------------------------------------------------------------------------
(* The supervisor                                                          *)

\* A pipe or a fork that fails ends it; a first child goes on alone.
StartChild(p) ==
    /\ super = IF p = "C" THEN "start" ELSE "one"
    /\ \/ /\ super' = IF p = "C" THEN "one" ELSE "C"
          /\ at' = [at EXCEPT ![p] = "reading"]
       \/ super' = "failed" /\ UNCHANGED at
    /\ UNCHANGED <<mode, buff, stdin, pipe, sent, handled>>

\* waitpid for the first child, then for the second one.
SuperWaits(p) ==
    /\ super = p /\ at[p] \in {"left", "failed"}
    /\ super' = IF p = "C" THEN "E" ELSE "over"
    /\ UNCHANGED shell

-----------------------------------------------------------------------------
(* Reading a piece: fgets(buff, MAX - 1, stdin)                            *)

Flip(m) == IF m = "input" THEN "execute" ELSE "input"
Go(p, from, to) == at[p] = from /\ at' = [at EXCEPT ![p] = to]

Got(p, from) ==
    /\ Go(p, "reading", "got")
    /\ buff' = [buff EXCEPT ![p] = Head(from)]
    /\ UNCHANGED <<super, mode, sent, handled>>

\* The buffer of stdin comes first.
FromBuffer(p) ==
    /\ stdin[p] # <<>>
    /\ Got(p, stdin[p])
    /\ stdin' = [stdin EXCEPT ![p] = Tail(@)]
    /\ UNCHANGED pipe

\* In input mode descriptor 0 is the terminal, which gives one line.
FromTerminal(p) ==
    /\ stdin[p] = <<>> /\ mode[p] = "input"
    /\ \E l \in Lines :
          LET pieces == [i \in DOMAIN l |-> [kind |-> l[i], number |-> 0]]
          IN  /\ sent + Len(l) <= MAX_SENT
              /\ Got(p, pieces)
              /\ stdin' = [stdin EXCEPT ![p] = Tail(pieces)]
    /\ UNCHANGED pipe

\* Mutant: what is left in the buffer goes, as with a stdin opened anew.
FromPipe_LosesRest(p) ==
    /\ stdin[p] = <<>> /\ mode[p] = "execute" /\ pipe[Other(p)] # <<>>
    /\ Got(p, pipe[Other(p)])
    /\ stdin' = [stdin EXCEPT ![p] = <<>>]
    /\ pipe' = [pipe EXCEPT ![Other(p)] = <<>>]

\* In execute mode it is the pipe, which gives all there is.
FromPipe(p) ==
    /\ stdin[p] = <<>> /\ mode[p] = "execute" /\ pipe[Other(p)] # <<>>
    /\ Got(p, pipe[Other(p)])
    /\ stdin' = [stdin EXCEPT ![p] = Tail(pipe[Other(p)])]
    /\ pipe' = [pipe EXCEPT ![Other(p)] = <<>>]

-----------------------------------------------------------------------------
(* What is done with it                                                    *)

\* Input mode: the piece goes into the pipe, then it is looked at.
Send(p) ==
    LET kind == buff[p].kind
    IN  /\ mode[p] = "input"
        /\ Go(p, "got", IF kind = "exit" THEN "left" ELSE "reading")
        /\ pipe' = [pipe EXCEPT ![p] = Append(@, [kind |-> kind, number |-> sent + 1])]
        /\ sent' = sent + 1
        /\ mode' = [mode EXCEPT ![p] = IF kind = "swaprole" THEN Flip(@) ELSE @]
        /\ UNCHANGED <<super, buff, stdin, handled>>

\* C runs "swaprole" as a command before it changes its mode, E does not.
Runs(p) == buff[p].kind = "command" \/ (buff[p].kind = "swaprole" /\ p = "C")

\* Execute mode: exit ends, and "swaprole" changes the mode of E.
Obey(p) ==
    LET kind == buff[p].kind
    IN  /\ mode[p] = "execute" /\ ~Runs(p)
        /\ Go(p, "got", IF kind = "exit" THEN "left" ELSE "reading")
        /\ mode' = [mode EXCEPT ![p] = IF kind = "swaprole" THEN Flip(@) ELSE @]
        /\ handled' = buff[p].number
        /\ UNCHANGED <<super, buff, stdin, pipe, sent>>

\* A grandchild is forked for a command; if that fails the process ends.
Fork(p) ==
    /\ mode[p] = "execute" /\ Runs(p)
    /\ Go(p, "got", "running") \/ Go(p, "got", "failed")
    /\ UNCHANGED <<super, mode, buff, stdin, pipe, sent, handled>>

\* Mutant: "continue" at the end of the branch, as at line 274.
GrandchildEnds_Continue(p) ==
    /\ Go(p, "running", "reading")
    /\ handled' = buff[p].number
    /\ UNCHANGED <<super, mode, buff, stdin, pipe, sent>>

\* waitpid: the command has ended, or its program could not be executed.
GrandchildEnds(p) ==
    /\ Go(p, "running", "reading")
    /\ mode' = [mode EXCEPT ![p] = IF buff[p].kind = "swaprole" THEN Flip(@) ELSE @]
    /\ handled' = buff[p].number
    /\ UNCHANGED <<super, buff, stdin, pipe, sent>>

-----------------------------------------------------------------------------

\* Everything but what the user does.
System ==
    \E p \in Processes :
        \/ StartChild(p) \/ SuperWaits(p) \/ FromBuffer(p) \/ FromPipe(p)
        \/ Send(p) \/ Obey(p) \/ Fork(p) \/ GrandchildEnds(p)

Next == System \/ \E p \in Processes : FromTerminal(p)

Spec == Init /\ [][Next]_vars

-----------------------------------------------------------------------------
(* Properties                                                              *)

TypeOK ==
    LET Piece == [kind : Kinds \cup {"none"}, number : 0..MAX_SENT]
    IN  /\ super \in {"start", "one", "C", "E", "over", "failed"}
        /\ mode \in [Processes -> {"input", "execute"}]
        /\ at \in [Processes -> {"unborn", "reading", "got", "running", "left", "failed"}]
        /\ buff \in [Processes -> Piece]
        /\ stdin \in [Processes -> Seq(Piece)] /\ pipe \in [Processes -> Seq(Piece)]
        /\ sent \in 0..MAX_SENT /\ handled \in 0..MAX_SENT

\* The pieces on their way to p, the one in its buff included.
Coming(p) ==
    (IF at[p] \in {"got", "running", "failed"} /\ mode[p] = "execute" THEN <<buff[p]>> ELSE <<>>)
    \o stdin[p] \o pipe[Other(p)]

\* The roles are opposite, unless the answer to a "swaprole" is on its way: then
\* both execute, "swaprole" is the last piece that is coming, and nobody runs a
\* command but the one it comes to.
OppositeRoles ==
    LET swaps(p) == mode[p] = "execute" /\ Coming(p) # <<>>
                    /\ Coming(p)[Len(Coming(p))].kind = "swaprole"
    IN  /\ TypeOK
        /\ \/ mode["C"] # mode["E"]
           \/ \E p \in Processes : /\ mode[Other(p)] = "execute" /\ swaps(p)
                                   /\ Coming(Other(p)) = <<>>
        /\ ~ \A p \in Processes : at[p] = "running"

\* The two processes together implement the stream of pieces: what is typed, at
\* whichever terminal, is handled once, in order and one at a time, and all of
\* it is handled, unless a fork fails.
Lost == super = "failed" \/ \E p \in Processes : at[p] = "failed"
Abstract == INSTANCE Stream WITH typed <- sent, lost <- Lost
ImplementsStream == Abstract!Spec

=============================================================================
