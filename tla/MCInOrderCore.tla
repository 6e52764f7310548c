--------------------------- MODULE MCInOrderCore ---------------------------
(***************************************************************************)
(* Programs for the in-order core's context switch.                        *)
(***************************************************************************)
EXTENDS InOrderCore, MCInOrderMemory

CONSTANTS MaxAddr, MaxSize   \* the targets the packet split is checked on

(* Two stores: the first split across the line at 4, so that it keeps its *)
(* MMU bucket entry for two ticks under a store bandwidth of 2; then a    *)
(* load of other bytes.                                                    *)
MCTwoStores ==
  (1 :> [op |-> "ST", vaddr |-> 2, size |-> 4]) @@
  (2 :> [op |-> "ST", vaddr |-> 0, size |-> 2]) @@
  (3 :> [op |-> "LD", vaddr |-> 6, size |-> 2])

(* A load of bytes 6-7, whose page may fault; a branch, which may be      *)
(* mispredicted and may finish after the loads behind it; a load of bytes *)
(* 0-1; a store split across the line at 4; a load of the store's second  *)
(* half, held back on it.                                                  *)
MCFaultingLoad ==
  (1 :> [op |-> "LD", vaddr |-> 6, size |-> 2]) @@
  (2 :> [op |-> "BR"]) @@
  (3 :> [op |-> "LD", vaddr |-> 0, size |-> 2]) @@
  (4 :> [op |-> "ST", vaddr |-> 2, size |-> 4]) @@
  (5 :> [op |-> "LD", vaddr |-> 4, size |-> 2])

(* The MMU's packets for every target with vaddr in 0 .. MaxAddr and size *)
(* in 1 .. MaxSize are exactly one per touched cache line, each within    *)
(* its line, covering the target's bytes once and in order: what the      *)
(* reassembly of readResponses_ by packetSplitId relies on.  A constant,   *)
(* evaluated once.                                                         *)
SplitsAgree ==
  \A tg \in [vaddr : 0 .. MaxAddr, size : 1 .. MaxSize] :
     CreateMemPackets(tg) = ReferenceSplit(tg)

(* The split agrees with the reference, and in every state the packets an *)
(* instruction still has in its MMU bucket are the last ones of that      *)
(* split, so processRequests sends them in split order.                    *)
SplitMatchesReference ==
  /\ SplitsAgree
  /\ \A e \in Range(mmu.ld) \cup Range(mmu.st) :
        IsSuffix([k \in DOMAIN e.pkts |->
                    [vaddr |-> e.pkts[k].vaddr, size |-> e.pkts[k].size, split |-> e.pkts[k].split]],
                 ReferenceSplit(Target(e.seq)))

=============================================================================
