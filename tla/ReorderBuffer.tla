--------------------------- MODULE ReorderBuffer ---------------------------
(***************************************************************************)
(* The reorder buffer of src/outoforder/ReorderBuffer.cc, over the         *)
(* register alias table.  Its state is the record rob:                     *)
(*   buf          buffer: the sequence ids in flight, oldest first         *)
(*   seqId        the next sequence id to give out                         *)
(*   shouldFlush  shouldFlush_                                             *)
(*   committed    the number of instructions committed                     *)
(* The operators take and return r = [rob, rat, ins], where ins[u] is the *)
(* uop with sequence id u: its destination tag dst (0 for none), whether  *)
(* it is commit-ready (done) and whether it is flushed.                    *)
(* Loads, stores and exceptions are not modelled here: no uop of the      *)
(* modelled programs is a memory operation or raises an exception.        *)
(***************************************************************************)
EXTENDS DispatchIssueUnit

CONSTANT ROBSize   \* maxSize

ROBInit == [buf |-> << >>, seqId |-> 1, shouldFlush |-> FALSE, committed |-> 0]

(* getFreeSpace() *)
FreeSpace(rob) == ROBSize - Len(rob.buf)

(* reserve(insn): give it the next sequence id and append it.              *)
Reserve(rob) == [rob EXCEPT !.seqId = @ + 1, !.buf = Append(@, rob.seqId)]

(* Mutant: the commit loop does not wait for the head to be commit-ready. *)
RECURSIVE CommitFromEager(_, _)
CommitFromEager(r, n) ==
  IF n = 0 \/ r.rob.buf = << >> THEN r
  ELSE LET t == r.ins[Head(r.rob.buf)].dst
       IN  CommitFromEager([r EXCEPT !.rat = IF t = 0 THEN @ ELSE RATCommit(@, t),
                                     !.rob.buf = Tail(@), !.rob.committed = @ + 1], n - 1)

(* The commit loop: while the head is commit-ready and fewer than n have  *)
(* been committed this call, commit its destination in the RAT and pop.   *)
RECURSIVE CommitFrom(_, _)
CommitFrom(r, n) ==
  IF n = 0 \/ r.rob.buf = << >> THEN r
  ELSE LET u == Head(r.rob.buf)
           t == r.ins[u].dst
       IN  IF ~r.ins[u].done THEN r
           ELSE CommitFrom([r EXCEPT !.rat = IF t = 0 THEN @ ELSE RATCommit(@, t),
                                     !.rob.buf = Tail(@),
                                     !.rob.committed = @ + 1], n - 1)

(* commit(maxCommitSize) *)
Commit(r, maxCommitSize) == CommitFrom([r EXCEPT !.rob.shouldFlush = FALSE], maxCommitSize)

(* Mutant: the flush rewinds the younger uops oldest first.              *)
FlushOldestFirst(r, afterSeqId) ==
  FoldLeft(LAMBDA acc, u :
             [acc EXCEPT !.rat = IF acc.ins[u].dst = 0 THEN @ ELSE Rewind(@, acc.ins[u].dst),
                         !.ins[u].flushed = TRUE],
           [r EXCEPT !.rob.buf = SelectSeq(@, LAMBDA u : u <= afterSeqId)],
           SelectSeq(r.rob.buf, LAMBDA u : u > afterSeqId))

(* flush(afterSeqId): from the tail, every uop younger than afterSeqId    *)
(* has its destination rewound in the RAT, is marked flushed and popped.  *)
RECURSIVE Flush(_, _)
Flush(r, afterSeqId) ==
  IF r.rob.buf = << >> \/ Last(r.rob.buf) <= afterSeqId THEN r
  ELSE LET u == Last(r.rob.buf)
           t == r.ins[u].dst
       IN  Flush([r EXCEPT !.rat = IF t = 0 THEN @ ELSE Rewind(@, t),
                           !.ins[u].flushed = TRUE,
                           !.rob.buf = Front(@)], afterSeqId)

=============================================================================
