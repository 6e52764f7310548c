------------------------- MODULE RegisterAliasTable -------------------------
(***************************************************************************)
(* The register alias table of the spec (section 4.2): one register type,  *)
(* architectural registers ArchRegs renamed onto physical tags Tags.       *)
(*   map    the current mapping, architectural register -> tag             *)
(*   free   the free list, a FIFO of tags                                  *)
(*   hist   per allocated tag, the tag its architectural register mapped  *)
(*          to before (the rename history)                                 *)
(*   dest   per allocated tag, the architectural register it renames       *)
(* The RegisterAliasTable source is not part of this repository; every     *)
(* operator here follows the spec's contract.                              *)
(***************************************************************************)
EXTENDS Naturals, Sequences, SequencesExt

CONSTANTS
  ArchRegs,   \* architectural registers, 1..k
  Tags        \* physical tags, 1..n with n >= k

ASSUME ArchRegs \subseteq Tags

(* At reset architectural register r maps to tag r; the other tags are   *)
(* free.                                                                   *)
RATInit ==
  [map  |-> [r \in ArchRegs |-> r],
   free |-> SetToSeq(Tags \ ArchRegs),
   hist |-> [t \in Tags |-> 0],
   dest |-> [t \in Tags |-> 0]]

CanAllocate(rat) == rat.free /= << >>

(* allocate(r): the oldest free tag becomes r's mapping; the mapping it   *)
(* replaces is recorded as the tag's history.                              *)
Allocate(rat, r) ==
  LET t == Head(rat.free)
  IN  [rat EXCEPT !.free = Tail(@), !.map[r] = t,
                  !.hist[t] = rat.map[r], !.dest[t] = r]

(* commit(t): the rename that produced t retires; the tag it replaced is  *)
(* released to the free list.                                              *)
RATCommit(rat, t) == [rat EXCEPT !.free = Append(@, rat.hist[t])]

(* rewind(t): undo the rename that produced t; t is released.             *)
Rewind(rat, t) == [rat EXCEPT !.map[rat.dest[t]] = rat.hist[t], !.free = Append(@, t)]

=============================================================================
