------------------------------ MODULE SyncDirs ------------------------------
(***************************************************************************)
(* The directory synchroniser of Assignment_09 (code.c): it makes the tree *)
(* at the destination like the tree at the source.  A tree gives each path *)
(* what is there: nothing, a directory, or a file with its data and        *)
(* whether its size and modification time are those of the source's file,  *)
(* which is all the program looks at.  Permissions and the reports of      *)
(* changes are left out.                                                   *)
(*                                                                         *)
(* The program may be killed after any system call, or find files and      *)
(* directories that it may not open or remove; to read or to write a file  *)
(* may fail, and to set its time; and the program may be run again.  The   *)
(* source does not change, and stat and readdir do not fail for what is    *)
(* there.                                                                  *)
(***************************************************************************)
EXTENDS Naturals, Sequences

CONSTANTS
    Names,
    Paths,          \* the paths there may be; the root is <<>>
    Data,           \* the contents of files
    MAX_RUNS        \* bound: runs of the program

None == [kind |-> "none"]
Dir == [kind |-> "dir"]
File(data, stamped) == [kind |-> "file", data |-> data, stamped |-> stamped]
Partial == "partial"        \* data that is in no file of the source

PathsAssumption ==
    /\ <<>> \in Paths /\ MAX_RUNS \in Nat /\ Partial \notin Data
    /\ \A p \in Paths \ {<<>>} : p \in Seq(Names) /\ SubSeq(p, 1, Len(p) - 1) \in Paths

VARIABLES
    src, dst,       \* path -> what is there
    place,          \* the place of the program
    item,           \* the path in hand
    stack,          \* the calls of sync_directories: directory, loop, names left
    runs,
    errors,         \* history: this run has printed an error and gone on
    unnoticed       \* history: the files that this run left short or without
                    \* their times, and printed nothing

vars == <<src, dst, place, item, stack, runs, errors, unnoticed>>

Parent(p) == SubSeq(p, 1, Len(p) - 1)
Below(d) == {p \in Paths \ {<<>>} : Parent(p) = d}
Is(tree, p, kind) == tree[p].kind = kind
IsTree(tree) == \A p \in Paths \ {<<>>} : Is(tree, p, "none") \/ Is(tree, Parent(p), "dir")
Children(tree, d) == {p \in Below(d) : ~Is(tree, p, "none")}

\* The destination may be anything, but what has the size and the time of what is
\* in the source at that path is the same.
Init ==
    /\ src \in [Paths -> {None, Dir} \cup {File(d, TRUE) : d \in Data}]
    /\ dst \in [Paths -> {None, Dir} \cup {File(d, FALSE) : d \in Data \cup {Partial}}
                                    \cup {File(d, TRUE) : d \in Data}]
    /\ IsTree(src) /\ IsTree(dst) /\ ~Is(src, <<>>, "file")
    /\ \A p \in Paths : Is(dst, p, "file") /\ dst[p].stamped => dst[p] = src[p]
    /\ place = "idle" /\ item = <<>> /\ stack = <<>> /\ runs = 0 /\ errors = FALSE /\ unnoticed = {}

Goto(from, to) == place = from /\ place' = to

Start ==
    /\ runs < MAX_RUNS /\ Goto("idle", "open")
    /\ item' = <<>> /\ runs' = runs + 1 /\ errors' = FALSE /\ unnoticed' = {}
    /\ UNCHANGED <<src, dst, stack>>

-----------------------------------------------------------------------------
(* sync_directories                                                        *)

\* There is no source: what is at the destination is removed, if it can be.
NoSource ==
    /\ Is(src, item, "none") /\ Goto("open", "over")
    /\ \/ Children(dst, item) = {} /\ dst' = [dst EXCEPT ![item] = None]
       \/ UNCHANGED dst
    /\ UNCHANGED <<src, item, stack, runs, errors, unnoticed>>

Made == IF Is(dst, item, "none") THEN [dst EXCEPT ![item] = Dir] ELSE dst

OpenBoth ==
    /\ ~Is(src, item, "none") /\ Is(Made, item, "dir")
    /\ Goto("open", "scan")
    /\ dst' = Made
    /\ stack' = <<[dir |-> item, loop |-> "src", left |-> Children(src, item)]>> \o stack
    /\ UNCHANGED <<src, item, runs, errors, unnoticed>>

\* mkdir or opendir fails, or the destination is a file: the program ends.
OpenFails ==
    /\ ~Is(src, item, "none") /\ Goto("open", "idle")
    /\ dst' \in {dst, Made}
    /\ stack' = <<>>
    /\ UNCHANGED <<src, item, runs, errors, unnoticed>>

\* Each loop takes the names in the order of readdir.
NextEntry ==
    LET top == Head(stack)
    IN  /\ Goto("scan", "item") /\ top.left # {}
        /\ \E p \in top.left : /\ item' = p
                               /\ stack' = [stack EXCEPT ![1].left = @ \ {p}]
        /\ UNCHANGED <<src, dst, runs, errors, unnoticed>>

\* After the names of the source, those of the destination; then the function
\* returns.
EndLoop ==
    LET top == Head(stack)
        rest == Tail(stack)
        second == [dir |-> top.dir, loop |-> "dst", left |-> Children(dst, top.dir)]
    IN  /\ place = "scan" /\ top.left = {}
        /\ IF top.loop = "src"
           THEN stack' = <<second>> \o rest /\ Goto("scan", "scan")
           ELSE stack' = rest /\ Goto("scan", IF rest = <<>> THEN "over" ELSE "scan")
        /\ UNCHANGED <<src, dst, item, runs, errors, unnoticed>>

-----------------------------------------------------------------------------
(* sync_items                                                              *)

\* Mutant: files are copied whatever their sizes and times.
Differ_Always == TRUE

\* The sizes or the modification times differ.
Differ == ~dst[item].stamped

\* What is to be done with an entry.
Choose ==
    IF Is(src, item, "none") THEN "remove"
    ELSE IF Is(src, item, "dir")
         THEN IF Is(dst, item, "file") THEN "replace" ELSE "open"
         ELSE IF Is(dst, item, "file") /\ ~Differ THEN "scan" ELSE "copy"

\* The status of an item that is not there is read at line 145 without having
\* been written.  If it looks like a directory or not, a directory that is missing
\* is made by the same call; and if not, an error is printed that means nothing.
Decide ==
    /\ Goto("item", Choose)
    /\ errors' \in {errors, errors \/ (Is(src, item, "dir") /\ Is(dst, item, "none"))}
    /\ UNCHANGED <<src, dst, item, stack, runs, unnoticed>>

IsUnder(p) == Len(p) >= Len(item) /\ SubSeq(p, 1, Len(item)) = item

\* remove and remove_directory: the leaves first, then the directory.
RemoveOne ==
    /\ place = "remove" /\ ~Is(dst, item, "none")
    /\ \E p \in Paths :
          /\ IsUnder(p) /\ ~Is(dst, p, "none") /\ Children(dst, p) = {}
          /\ dst' = [dst EXCEPT ![p] = None]
    /\ UNCHANGED <<src, place, item, stack, runs, errors, unnoticed>>

RemoveEnds ==
    /\ Is(dst, item, "none") /\ Goto("remove", "scan")
    /\ UNCHANGED <<src, dst, item, stack, runs, errors, unnoticed>>

\* Something could not be removed: the rest is left, and the program goes on.
RemoveFails ==
    /\ ~Is(dst, item, "none") /\ Goto("remove", "scan") /\ errors' = TRUE
    /\ UNCHANGED <<src, dst, item, stack, runs, unnoticed>>

\* A file where the source has a directory.  If it cannot be removed, the two are
\* treated as files.
Replace ==
    /\ \/ Goto("replace", "open") /\ dst' = [dst EXCEPT ![item] = None] /\ UNCHANGED errors
       \/ Goto("replace", "copy") /\ errors' = TRUE /\ UNCHANGED dst
    /\ UNCHANGED <<src, item, stack, runs, unnoticed>>

-----------------------------------------------------------------------------
(* copy_file, and the utime after it                                       *)

\* Mutant: the time is set when the file is made, before it is written.
CopyOpen_Stamped ==
    /\ ~Is(dst, item, "dir") /\ Goto("copy", "write")
    /\ dst' = [dst EXCEPT ![item] = File(Partial, TRUE)]
    /\ UNCHANGED <<src, item, stack, runs, errors, unnoticed>>

\* fopen for writing cuts the file, or makes it.
CopyOpen ==
    /\ ~Is(dst, item, "dir") /\ Goto("copy", "write")
    /\ dst' = [dst EXCEPT ![item] = File(Partial, FALSE)]
    /\ UNCHANGED <<src, item, stack, runs, errors, unnoticed>>

\* One of the files cannot be opened: the program ends.  A directory at the
\* destination never can.
CopyFails ==
    /\ Goto("copy", "idle") /\ stack' = <<>>
    /\ UNCHANGED <<src, dst, item, runs, errors, unnoticed>>

\* A directory of the source reads as an empty file.  Nobody sees an error that ends
\* the reading (line 227), nor that the last block, which may be the whole file, is
\* written by fclose and finds no space (238): the file is then too short.
CopyWrite ==
    /\ Goto("write", "stamp")
    /\ \/ /\ dst' = [dst EXCEPT ![item].data = IF Is(src, item, "file") THEN src[item].data ELSE @]
          /\ UNCHANGED unnoticed
       \/ UNCHANGED dst /\ unnoticed' = unnoticed \cup {item}
    /\ UNCHANGED <<src, item, stack, runs, errors>>

\* A file that is too short has another size than the source's.  The result of utime
\* is not looked at either.
Stamp ==
    /\ Goto("stamp", "scan")
    /\ \/ /\ dst' = [dst EXCEPT ![item].stamped =
                          Is(src, item, "file") /\ dst[item].data = src[item].data]
          /\ UNCHANGED unnoticed
       \/ UNCHANGED dst /\ unnoticed' = unnoticed \cup {item}
    /\ UNCHANGED <<src, item, stack, runs, errors>>

\* The program is killed, or ends because fwrite finds no space (lines 228-234).
Killed ==
    /\ place \notin {"idle", "over"} /\ place' = "idle" /\ stack' = <<>>
    /\ UNCHANGED <<src, dst, item, runs, errors, unnoticed>>

\* It is run again after it has done its work.
Again ==
    /\ runs < MAX_RUNS /\ Goto("over", "idle")
    /\ UNCHANGED <<src, dst, item, stack, runs, errors, unnoticed>>

-----------------------------------------------------------------------------

Program ==
    \/ Start \/ NoSource \/ OpenBoth \/ OpenFails \/ NextEntry \/ EndLoop
    \/ Decide \/ RemoveOne \/ RemoveEnds \/ RemoveFails \/ Replace
    \/ CopyOpen \/ CopyFails \/ CopyWrite \/ Stamp

Next == Program \/ Killed \/ Again

Spec == Init /\ [][Next]_vars

-----------------------------------------------------------------------------
(* Properties                                                              *)

\* The destination has what the source has at p.
Agrees(p) == dst[p] = src[p]

\* Or a file that went wrong there, which the next run will copy once more.
Resumable(p) == p \in unnoticed /\ Is(src, p, "file") /\ Is(dst, p, "file") /\ ~dst[p].stamped

TypeOK ==
    /\ IsTree(src) /\ IsTree(dst)
    /\ place \in {"idle", "open", "scan", "item", "remove", "replace", "copy",
                  "write", "stamp", "over"}
    /\ item \in Paths /\ runs \in 0..MAX_RUNS /\ errors \in BOOLEAN
    /\ unnoticed \subseteq Paths
    /\ \A k \in DOMAIN stack : stack[k].left \subseteq Below(stack[k].dir)

\* When the program has come to its end without an error the trees agree, however
\* often it was killed before, but for the files that went wrong in this run, and
\* these look different; for no file has the size and time of the source's file
\* before it has its data (lines 189, 197).
SyncRight ==
    /\ TypeOK
    /\ \A p \in Paths : Is(dst, p, "file") /\ dst[p].stamped => Agrees(p)
    /\ place = "over" /\ ~errors /\ ~Is(src, <<>>, "none") =>
          \A p \in Paths : Agrees(p) \/ Resumable(p)

\* What agrees is left alone: no step, of a first or of a later run, touches it.
AgreeingStays == [][\A p \in Paths : Agrees(p) => Agrees(p)']_vars

\* A run ends, and does not go round a tree for ever.
Ended == place \in {"idle", "over"}

=============================================================================
