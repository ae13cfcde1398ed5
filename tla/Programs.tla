------------------------------ MODULE Programs ------------------------------
(***************************************************************************)
(* Small programs of the repository that have nothing to do with each      *)
(* other, side by side: each with variables and constants of its own, and  *)
(* its properties as they are stated in its module.  MCPrograms checks     *)
(* them in one run, ProgramsProofs proves them.                            *)
(***************************************************************************)
EXTENDS Integers, Sequences

CONSTANTS
    n, t,                               \* the mailbox: consumers, items
    BUFFER_SIZE, ITEMS, MAX_SPURIOUS,   \* the bounded buffer
    Names, Paths, Data, MAX_RUNS,       \* the synchroniser
    Lines, MAX_SENT,                    \* the shell
    WORKERS, ENTRIES, MAX_TURNS,        \* the rendezvous
    num_nodes, ts_Parent, Value         \* the tree sum

VARIABLES
    M0, M1, producer, mb_i, c, forked, num_items, consumer, mb_count, mb_item,
    main, buffer, bb_count, bb_i, bb_at, consumed, bb_spurious,
    src, dst, place, sd_item, stack, runs, errors, unnoticed,
    super, mode, sh_at, buff, stdin, pipe, sent, handled,
    master, next, rv_at, donemutex, csmutex, mdone, wdone, rv_A, rv_C, rv_i, rv_s,
    rv_count, rv_spurious,
    pop, ts_vop, sem, owner, status, ts_reached, entered, sum, ts_at, want, ts_reg, ended, mixed,
    printed

Box == INSTANCE Mailbox WITH i <- mb_i, count <- mb_count, item <- mb_item

Buf == INSTANCE BoundedBuffer WITH
          count <- bb_count, i <- bb_i, at <- bb_at, spurious <- bb_spurious

Sync == INSTANCE SyncDirs WITH item <- sd_item

Sh == INSTANCE Shell WITH at <- sh_at

Rendezvous == INSTANCE Rendezvous WITH
          N <- WORKERS, S <- ENTRIES, at <- rv_at, A <- rv_A, C <- rv_C,
          i <- rv_i, s <- rv_s, count <- rv_count, spurious <- rv_spurious

Sum == INSTANCE TreeSum WITH
          Parent <- ts_Parent, vop <- ts_vop, reached <- ts_reached, at <- ts_at, reg <- ts_reg

-----------------------------------------------------------------------------

\* Of the mailbox: who has which item (prodcons.c).
CountsRight == Box!CountsRight

\* Of the bounded buffer: no item is lost or taken twice (producer_consumer.c).
EachItemOnce == Buf!EachItemOnce

\* Of the synchroniser: the trees agree in the end (code.c).
SyncRight == Sync!SyncRight

\* Of the synchroniser: what agrees is left alone (code.c).
AgreeingStays == Sync!AgreeingStays

\* Of the shell: the roles of C and E (CSE.c).
OppositeRoles == Sh!OppositeRoles

\* Of the shell: what is typed is handled once and in order (CSE.c).
ImplementsStream == Sh!ImplementsStream

\* Of the rendezvous: nobody leaves early, no change is lost (pthread.c).
LeaveTogether == Rendezvous!LeaveTogether

\* Of the tree sum: sums of subtrees (computesum.c).
SumsRight == Sum!SumsRight

=============================================================================
