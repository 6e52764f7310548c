---------------------------- MODULE InOrderMemory ----------------------------
(***************************************************************************)
(* The memory path of the in-order core (src/lib/models/inorder/Core.cc): *)
(* issue in program order into the load/store queue, execution units that  *)
(* generate addresses after latencies that may differ, the LSQ, the        *)
(* completion slots and writeback, retirement (retireInstruction), and the *)
(* MMU and memory ticked after the core each cycle.  One cycle is the      *)
(* phases  wb -> eu -> lsq -> mmu -> mem,  following Core::tick: writeback *)
(* first, then the units, then the LSQ, then the pipeline buffers.         *)
(* stage[i] of instruction i:                                              *)
(*   "wait"     not yet issued                                             *)
(*   "issued"   in the load/store queue, in an execution unit              *)
(*   "started"  a load whose address is generated: startLoad was called    *)
(*   "done"     a store whose address and data are generated (both uops    *)
(*              executed), or an executed branch, waiting in its execution *)
(*              unit's completion slot                                     *)
(*   "retired"                                                             *)
(*   "flushed"  flushed by the core (InOrderCore) before it retired        *)
(* exc is exceptionGeneratingInstruction_ (0: exceptionGenerated_ false). *)
(* A load whose data the MMU supplied as a data abort has encountered an  *)
(* exception when it executes (spec 7).                                    *)
(***************************************************************************)
EXTENDS LoadStoreQueue

CONSTANTS
  EUInOrder,   \* memory instructions generate addresses in program order
  MaxTick,     \* the cycles explored
  InOrderBackend \* the memory answers packets in the order they were sent

VARIABLES lsq, slots, stage, phase, exc

vars == << mmu, mem, lsq, slots, stage, phase, exc >>

Slot0 == [head |-> 0, tail |-> 0, stalled |-> FALSE]

Init ==
  /\ mmu = MMUInit
  /\ mem = MemInit
  /\ lsq = LSQInit
  /\ slots = [k \in 1 .. CompletionWidth |-> Slot0]
  /\ stage = [i \in Ids |-> "wait"]
  /\ phase = "wb"
  /\ exc = 0

(* staging_.getNextSeqID(): the oldest instruction neither retired nor    *)
(* flushed.                                                                *)
NextSeq(stg) == IF \A i \in Ids : stg[i] \in {"retired", "flushed"} THEN 0
                ELSE Min({i \in Ids : stg[i] \notin {"retired", "flushed"}})

(* raiseException(insn): an exception already generated by an older       *)
(* instruction is kept, otherwise insn becomes the generating one.         *)
RaiseException(e, i) == IF e /= 0 /\ e < i THEN e ELSE i

(* retireInstruction for a store data uop: startStore then commitStore on *)
(* its address uop; the violation commitStore returns is dropped.          *)
RetireStore(l, s) == CommitStore(StartStore(l, s), s)

(* The writeback loop over the LSQ's completion slots: the head that is    *)
(* the next to retire is written back and cleared; any other head holds   *)
(* its slot.  retireInstruction raises the exception of a load that       *)
(* encountered one and records it retired without commitLoad; any other   *)
(* load is committed.                                                      *)
RECURSIVE WritebackSlots(_, _)
WritebackSlots(r, k) ==
  IF k > CompletionWidth THEN r
  ELSE LET h == r.slots[k].head
       IN  WritebackSlots(
             CASE h = 0 -> [r EXCEPT !.slots[k].stalled = FALSE]
               [] h = NextSeq(r.stage) /\ r.lsq.value[h].st = "abort" ->
                    [r EXCEPT !.exc = RaiseException(@, h), !.stage[h] = "retired",
                              !.slots[k] = Slot0]
               [] h = NextSeq(r.stage) ->
                    [r EXCEPT !.lsq = CommitLoad(@, h), !.stage[h] = "retired",
                              !.slots[k] = Slot0]
               [] OTHER -> [r EXCEPT !.slots[k].stalled = TRUE],
             k + 1)

(* WritebackUnit::tick: the execution units' slots come first, and hold   *)
(* the stores; then the LSQ's slots.                                       *)
Writeback ==
  /\ phase = "wb"
  /\ LET n  == NextSeq(stage)
         r0 == [lsq |-> lsq, slots |-> slots, stage |-> stage, exc |-> exc]
         r1 == IF n /= 0 /\ stage[n] = "done"
               THEN [r0 EXCEPT !.lsq = IF IsStore(n) THEN RetireStore(@, n) ELSE @,
                               !.stage[n] = "retired"]
               ELSE r0
         r  == WritebackSlots(r1, 1)
     IN  /\ lsq' = r.lsq
         /\ slots' = r.slots
         /\ stage' = r.stage
         /\ exc' = r.exc
  /\ phase' = "eu"
  /\ UNCHANGED << mmu, mem >>

(* The issue unit takes instruction i, the next in program order; a load  *)
(* or store goes into the LSQ (addLoad / addStore) when its queue has     *)
(* space, a branch only to its execution unit.                             *)
IssueInsn(i) ==
  /\ phase = "eu"
  /\ stage[i] = "wait"
  /\ \A j \in Ids : j < i => stage[j] /= "wait"
  /\ IsLoad(i) => Len(lsq.loadQ) < LoadQueueSize
  /\ IsStore(i) => Len(lsq.storeQ) < StoreQueueSize
  /\ lsq' = CASE IsLoad(i)  -> [lsq EXCEPT !.loadQ = Append(@, i)]
               [] IsStore(i) -> [lsq EXCEPT !.storeQ = Append(@, i)]
               [] OTHER      -> lsq
  /\ stage' = [stage EXCEPT ![i] = "issued"]
  /\ UNCHANGED << mmu, mem, slots, phase, exc >>

Issue == \E i \in Ids : IssueInsn(i)

(* An execution unit finishes instruction i; with EUInOrder the memory    *)
(* instructions generate their addresses in program order (they share one *)
(* latency), while a branch may finish before or after them.               *)
EUMayFinish(i) ==
  /\ stage[i] = "issued"
  /\ EUInOrder /\ ~IsBranch(i) => \A j \in Ids : j < i /\ ~IsBranch(j) => stage[j] /= "issued"

(* The store address and store data uops execute: the address is now      *)
(* generated and supplyStoreData has given the LSQ the data.               *)
ExecuteStore ==
  /\ phase = "eu"
  /\ \E s \in Ids :
       /\ IsStore(s) /\ EUMayFinish(s)
       /\ stage' = [stage EXCEPT ![s] = "done"]
  /\ UNCHANGED << mmu, mem, lsq, slots, phase, exc >>

(* The load executes its address generation and calls startLoad.           *)
ExecuteLoad ==
  /\ phase = "eu"
  /\ \E i \in Ids :
       /\ IsLoad(i) /\ EUMayFinish(i)
       /\ lsq' = StartLoad(lsq, i, {s \in Ids : stage[s] = "done"})
       /\ stage' = [stage EXCEPT ![i] = "started"]
  /\ UNCHANGED << mmu, mem, slots, phase, exc >>

EndUnits ==
  /\ phase = "eu"
  /\ phase' = "lsq"
  /\ UNCHANGED << mmu, mem, lsq, slots, stage, exc >>

(* PipelineBuffer::tick of a completion slot: unless stalled, the tail    *)
(* becomes the head.                                                       *)
TickSlot(b) == IF b.stalled THEN b ELSE [b EXCEPT !.head = b.tail, !.tail = b.head]

(* The instructions flushed so far.                                        *)
Flushed == {i \in Ids : stage[i] = "flushed"}

(* loadStoreQueue_.tick(), then the pipeline buffers tick.                 *)
TickLSQ ==
  /\ phase = "lsq"
  /\ LET r == LSQTick(lsq, mmu, slots, Flushed)
     IN  /\ lsq' = r.l
         /\ mmu' = r.m
         /\ slots' = [k \in DOMAIN r.slots |-> TickSlot(r.slots[k])]
  /\ phase' = "mmu"
  /\ UNCHANGED << mem, stage, exc >>

TickMMU ==
  /\ phase = "mmu"
  /\ \E tr \in [1 .. Waiting(mmu.ld) + Waiting(mmu.st) -> Translations] :
       mmu' = MMUTick(mmu, tr)
  /\ phase' = "mem"
  /\ UNCHANGED << mem, lsq, slots, stage, exc >>

(* The memory answers a packet in flight.  The interface may reorder      *)
(* packets of distinct requests; an in-order backend answers the oldest.   *)
ServeMemory ==
  /\ phase = "mem"
  /\ \E k \in DOMAIN mmu.port : (InOrderBackend => k = 1) /\ ServePacket(k)
  /\ UNCHANGED << lsq, slots, stage, phase, exc >>

EndCycle ==
  /\ phase = "mem"
  /\ lsq.tick < MaxTick
  /\ phase' = "wb"
  /\ UNCHANGED << mmu, mem, lsq, slots, stage, exc >>

Next ==
  \/ Writeback \/ Issue \/ ExecuteStore \/ ExecuteLoad \/ EndUnits
  \/ TickLSQ \/ TickMMU \/ ServeMemory \/ EndCycle

Spec == Init /\ [][Next]_vars

-----------------------------------------------------------------------------
(* Type invariant.  The packet counts of requestedLoads_ and              *)
(* requestedStores_ never go below zero: a write response that arrives    *)
(* after its store was erased must not be counted against it.             *)
TypeOK ==
  /\ mmu.pending \in Nat
  /\ mmu.reqLoads \in [Ids -> Nat]
  /\ mmu.reqStores \in [Ids -> Nat]
  /\ stage \in [Ids -> {"wait", "issued", "started", "done", "retired", "flushed"}]
  /\ exc \in Ids \cup {0}
  /\ phase \in {"wb", "eu", "lsq", "mmu", "mem"}
  /\ \A k \in DOMAIN slots : {slots[k].head, slots[k].tail} \subseteq Ids \cup {0}

(* The store a load must read byte a from: the youngest store older than   *)
(* load i, and not flushed, that writes a, or 0 for the initial contents.  *)
LastWriter(i, a) ==
  LET w == {s \in Ids : IsStore(s) /\ s < i /\ stage[s] /= "flushed" /\ RequestsOverlap(Target(s), [vaddr |-> a, size |-> 1])}
  IN  IF w = {} THEN 0 ELSE Max(w)

(* Memory order: every load the core retires has read, at each of its     *)
(* bytes, the value of the youngest older store to that byte.  It takes    *)
(* startLoad's conflict scan, commitStore's violation scan and its caller, *)
(* the LSQ's request interleaving and the MMU's buckets to keep it.        *)
MemoryOrder ==
  \A i \in Ids : IsLoad(i) /\ stage[i] = "retired" /\ lsq.value[i].st = "data" =>
     \A k \in DOMAIN lsq.value[i].bytes :
        lsq.value[i].bytes[k].w = LastWriter(i, Target(i).vaddr + k - 1)

(* No completion wedge: the next load to retire is never left in           *)
(* completedRequests_ while every LSQ completion slot is held by a younger *)
(* instruction.  Writeback holds those slots until the next load retires   *)
(* and the drain loop skips held slots, so from such a state the core      *)
(* never retires again.                                                    *)
NoCompletionWedge ==
  ~ /\ NextSeq(stage) \in Range(lsq.completed)
    /\ \A k \in DOMAIN slots : slots[k].stalled

=============================================================================
