------------------------------- MODULE MCMMU -------------------------------
(***************************************************************************)
(* The MMU on its own, driven by a client that requests each access of     *)
(* Accesses once (as the load/store queue does, retrying while the MMU     *)
(* refuses), a clock that ticks the MMU, a memory that answers the packets *)
(* in flight in any order, and a page table that resolves pending          *)
(* translations.                                                           *)
(***************************************************************************)
EXTENDS MMU

CONSTANT Accesses   \* seq id -> [op |-> "LD" | "ST", vaddr, size]

VARIABLE requested  \* the accesses the MMU has accepted

vars == << mmu, mem, requested >>

(* A split load, a split store overlapping it, and an aligned load.        *)
MCAccesses ==
  (1 :> [op |-> "LD", vaddr |-> 2, size |-> 4]) @@
  (2 :> [op |-> "ST", vaddr |-> 3, size |-> 3]) @@
  (3 :> [op |-> "LD", vaddr |-> 4, size |-> 4])

Target(i) == [vaddr |-> Accesses[i].vaddr, size |-> Accesses[i].size]

Init ==
  /\ mmu = MMUInit
  /\ mem = MemInit
  /\ requested = {}

(* requestRead / requestWrite called for an access not yet accepted; a     *)
(* refused call changes nothing.                                           *)
ClientRead(i) ==
  /\ i \notin requested /\ Accesses[i].op = "LD"
  /\ CanRequestRead(mmu)
  /\ mmu' = RequestRead(mmu, i, Target(i))
  /\ requested' = requested \cup {i}
  /\ UNCHANGED mem

ClientWrite(i) ==
  /\ i \notin requested /\ Accesses[i].op = "ST"
  /\ CanRequestWrite(mmu)
  /\ mmu' = RequestWrite(mmu, i, Target(i), StoreData(i, Target(i)))
  /\ requested' = requested \cup {i}
  /\ UNCHANGED mem

(* MMU::tick, with the page table's answer to every packet it may send.    *)
Tick ==
  \E tr \in [1 .. Waiting(mmu.ld) + Waiting(mmu.st) -> Translations] :
     /\ mmu' = MMUTick(mmu, tr)
     /\ UNCHANGED << mem, requested >>

Serve ==
  \E k \in DOMAIN mmu.port : ServePacket(k) /\ UNCHANGED requested

Translate ==
  \E va \in {p.vaddr : p \in Range(mmu.parked)} :
     \E tr \in [1 .. Len(mmu.parked) -> Translations \ {"PENDING"}] :
        /\ mmu' = SupplyDelayedTranslation(mmu, va, tr)
        /\ UNCHANGED << mem, requested >>

Next ==
  \/ \E i \in Ids : ClientRead(i) \/ ClientWrite(i)
  \/ Tick
  \/ Serve
  \/ Translate

(* The core ticks the MMU every cycle, the memory answers every packet it *)
(* is sent, and the page table resolves every translation it reported as  *)
(* pending; nothing obliges the client to make further requests.          *)
Fairness ==
  /\ WF_vars(Tick)
  /\ WF_vars(Serve)
  /\ WF_vars(Translate)

Spec == Init /\ [][Next]_vars /\ Fairness

-----------------------------------------------------------------------------
(* Type invariant.  The packet counts of requestedLoads_ and              *)
(* requestedStores_ never go below zero: a write response that arrives    *)
(* after its store was erased must not be counted against it.             *)
TypeOK ==
  /\ mmu.pending \in Nat
  /\ mmu.reqLoads \in [Ids -> Nat]
  /\ mmu.reqStores \in [Ids -> Nat]
  /\ requested \subseteq Ids
  /\ \A i \in Ids : mmu.data[i].st \in {"none", "abort", "data"}
  /\ mmu.ready \subseteq Ids

(* pendingDataRequests_ counts exactly the packets of accepted data        *)
(* accesses not yet answered: those still in the buckets, parked on a      *)
(* translation, or in flight.  The core waits on hasPendingRequests()      *)
(* before a context switch and before handling an exception, so a leak     *)
(* hangs it and an undercount lets it switch under a live request.         *)
PendingAccounting ==
  mmu.pending = Waiting(mmu.ld) + Waiting(mmu.st) + Len(mmu.parked) + Len(mmu.port)

(* Whatever data supplyLoadInsnData gives a load is the load's own bytes:  *)
(* as many as mergedSize says, each from its own address, reassembled     *)
(* across a cache-line split in the right order.                          *)
LoadGetsItsBytes ==
  \A i \in Ids : mmu.data[i].st = "data" =>
     /\ mmu.data[i].vaddr = Accesses[i].vaddr
     /\ mmu.data[i].size = Accesses[i].size
     /\ Len(mmu.data[i].bytes) = mmu.data[i].size
     /\ \A k \in DOMAIN mmu.data[i].bytes : mmu.data[i].bytes[k].a = Accesses[i].vaddr + k - 1

(* Every accepted load is eventually supplied its data (or a data abort),  *)
(* and every accepted store eventually set ready to commit.                *)
EveryRequestAnswered ==
  \A i \in Ids :
     (i \in requested) ~> (IF Accesses[i].op = "LD" THEN mmu.data[i].st /= "none"
                           ELSE i \in mmu.ready)

=============================================================================
