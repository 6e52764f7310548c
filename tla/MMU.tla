-------------------------------- MODULE MMU --------------------------------
(***************************************************************************)
(* The pipeline-facing MMU of src/lib/memory/MMU.cc.  Its state is one     *)
(* record, so that the load/store queue, which calls requestRead and       *)
(* requestWrite inside the loop of its own tick, can thread it through     *)
(* that loop (see InOrderMemory).                                          *)
(*                                                                         *)
(*   ld, st     loadsStores_[LD] / loadsStores_[STR]: per instruction the  *)
(*              packets not yet sent, in request order                     *)
(*   reqLoads   requestedLoads_: read packets still to come back (0 = no   *)
(*              entry)                                                     *)
(*   reqStores  requestedStores_: write packets still to come back (0 = no *)
(*              entry; erased when the last packet of a store is sent)     *)
(*   responses  readResponses_: the read responses received per load       *)
(*   pending    pendingDataRequests_                                       *)
(*   parked     pendingRequests_: packets waiting on a translation         *)
(*   port       packets sent to memory whose response has not come back    *)
(*   lastSent   bytes sent by the latest tick, per access type             *)
(*   data       what insn->supplyData gave each load                       *)
(*   ready      stores the MMU has set ready to commit                     *)
(*   tid        tid_: the thread whose page table translates requests      *)
(* Each instruction has one access target (one packetOrderId).  A byte of  *)
(* memory is [a |-> address, w |-> writer]: the address lets reassembly be *)
(* checked, the writer is the store that wrote it (0: initial contents).   *)
(***************************************************************************)
EXTENDS MemPacket, FiniteSets, SequencesExt

CONSTANTS
  LoadBandwidth,      \* LSQ-Memory-Interface.Load-Bandwidth (bytes per tick)
  StoreBandwidth,     \* LSQ-Memory-Interface.Store-Bandwidth
  RequestLimit,       \* Permitted-Requests-Per-Cycle
  LoadRequestLimit,   \* Permitted-Loads-Per-Cycle
  StoreRequestLimit,  \* Permitted-Stores-Per-Cycle
  Exclusive,          \* LSQ-Memory-Interface.Exclusive
  Ids,                \* sequence ids of the memory instructions
  Addrs,              \* the bytes of memory
  Translations        \* what the page table may answer for a packet

ASSUME Translations \subseteq {"OK", "ABORT", "PENDING", "IGNORED"}

VARIABLES mmu, mem

Byte(a, w) == [a |-> a, w |-> w]
NoData == [st |-> "none", vaddr |-> 0, size |-> 0, bytes |-> << >>]

MMUInit ==
  [ld |-> << >>, st |-> << >>,
   reqLoads |-> [i \in Ids |-> 0], reqStores |-> [i \in Ids |-> 0],
   responses |-> [i \in Ids |-> {}], pending |-> 0, parked |-> << >>,
   port |-> << >>, lastSent |-> [ld |-> 0, st |-> 0],
   data |-> [i \in Ids |-> NoData], ready |-> {}, tid |-> 1]

MemInit == [a \in Addrs |-> Byte(a, 0)]

(* The bytes a store writes: each carries its address and the store.      *)
StoreData(seq, t) == [k \in 1 .. t.size |-> Byte(t.vaddr + k - 1, seq)]

(* The packets of one access; a write packet carries its payload slice.    *)
(* tid is the thread whose translation gave the packet its paddr_ (0 until *)
(* it is translated).                                                      *)
Packets(seq, t, isWrite, wdata) ==
  LET ps == CreateMemPackets(t)
  IN  [k \in DOMAIN ps |->
         [vaddr |-> ps[k].vaddr, size |-> ps[k].size, split |-> ps[k].split,
          seq |-> seq, write |-> isWrite, faulty |-> FALSE, ignored |-> FALSE, tid |-> 0,
          payload |-> IF isWrite THEN PayloadSlice(t, wdata, ps[k]) ELSE << >>]]

(* The admission checks at the top of requestRead / requestWrite.          *)
CanRequestRead(m) ==
  /\ ~(Exclusive /\ m.st /= << >>)
  /\ (Exclusive \/ Len(m.ld) + Len(m.st) < RequestLimit)
  /\ Len(m.ld) < LoadRequestLimit

CanRequestWrite(m) ==
  /\ ~(Exclusive /\ m.ld /= << >>)
  /\ (Exclusive \/ Len(m.ld) + Len(m.st) < RequestLimit)
  /\ Len(m.st) < StoreRequestLimit

(* requestRead(uop) once admitted: packets into loadsStores_[LD],          *)
(* readResponses_ sized, pendingDataRequests_ and requestedLoads_ updated. *)
RequestRead(m, seq, t) ==
  LET pk == Packets(seq, t, FALSE, << >>)
  IN  [m EXCEPT !.ld = Append(@, [seq |-> seq, pkts |-> pk]),
                !.pending = @ + Len(pk),
                !.reqLoads[seq] = Len(pk),
                !.responses[seq] = {}]

(* requestWrite(uop, data) once admitted.                                  *)
RequestWrite(m, seq, t, wdata) ==
  LET pk == Packets(seq, t, TRUE, wdata)
  IN  [m EXCEPT !.st = Append(@, [seq |-> seq, pkts |-> pk]),
                !.pending = @ + Len(pk),
                !.reqStores[seq] = Len(pk)]

(* Mutant: the splits merged last to first.                              *)
BySplitReversed(rs) ==
  [k \in 1 .. Cardinality(rs) |-> CHOOSE p \in rs : p.split = Cardinality(rs) - k]

(* The responses of one load in packetSplitId order.                       *)
BySplit(rs) == [k \in 1 .. Cardinality(rs) |-> CHOOSE p \in rs : p.split = k - 1]

(* supplyLoadInsnData: a faulty split gives the empty value (data abort);  *)
(* otherwise the payloads are concatenated in split order and supplied    *)
(* with mergedSize, the sum of the packets' sizes.  The load's map         *)
(* entries are then erased.                                                *)
SupplyLoadInsnData(m, seq) ==
  LET ps == BySplit(m.responses[seq])
      d  == IF \E k \in DOMAIN ps : ps[k].faulty
            THEN [NoData EXCEPT !.st = "abort", !.vaddr = ps[1].vaddr]
            ELSE [st |-> "data", vaddr |-> ps[1].vaddr,
                  size |-> FoldLeft(LAMBDA s, p : s + p.size, 0, ps),
                  bytes |-> FoldLeft(LAMBDA b, p : b \o p.payload, << >>, ps)]
  IN  [m EXCEPT !.data[seq] = d, !.reqLoads[seq] = 0, !.responses[seq] = {}]

(* Mutant: pendingDataRequests_ decremented only for a write whose store *)
(* is still in requestedStores_.                                          *)
ReceiveAfterLookup(m, p) ==
  LET m2 == [m EXCEPT !.pending = @ - 1, !.responses[p.seq] = @ \cup {p},
                      !.reqLoads[p.seq] = @ - 1]
  IN  CASE ~p.write /\ m2.reqLoads[p.seq] = 0 -> SupplyLoadInsnData(m2, p.seq)
        [] ~p.write                           -> m2
        [] m.reqStores[p.seq] = 0             -> m
        [] OTHER -> [m EXCEPT !.pending = @ - 1, !.reqStores[p.seq] = @ - 1]

(* Mutant: a write response decrements its store's count without looking *)
(* the store up in requestedStores_ first.                                *)
ReceiveNoStoreLookup(m, p) ==
  LET m1 == [m EXCEPT !.pending = @ - 1]
      m2 == [m1 EXCEPT !.responses[p.seq] = @ \cup {p}, !.reqLoads[p.seq] = @ - 1]
  IN  CASE ~p.write /\ m2.reqLoads[p.seq] = 0 -> SupplyLoadInsnData(m2, p.seq)
        [] ~p.write                           -> m2
        [] OTHER -> [m1 EXCEPT !.reqStores[p.seq] = @ - 1]

(* The receiver registered by initPort, for data packets.                  *)
Receive(m, p) ==
  LET m1 == [m EXCEPT !.pending = @ - 1]
      m2 == [m1 EXCEPT !.responses[p.seq] = @ \cup {p}, !.reqLoads[p.seq] = @ - 1]
  IN  CASE ~p.write /\ m2.reqLoads[p.seq] = 0 -> SupplyLoadInsnData(m2, p.seq)
        [] ~p.write                           -> m2
        [] m1.reqStores[p.seq] = 0            -> m1
        [] OTHER -> [m1 EXCEPT !.reqStores[p.seq] = @ - 1]

(* issueRequest(packet) with the page table's answer tr for tid_: a data  *)
(* abort is received at once as a faulty packet, a pending translation    *)
(* parks the packet, an ignored one is sent marked ignored, otherwise it  *)
(* is sent with the paddr_ of tid_'s page table.                           *)
IssueRequest(m, p, tr) ==
  CASE tr = "ABORT"   -> Receive(m, [p EXCEPT !.faulty = TRUE])
    [] tr = "PENDING" -> [m EXCEPT !.parked = Append(@, p)]
    [] tr = "IGNORED" -> [m EXCEPT !.port = Append(@, [p EXCEPT !.ignored = TRUE])]
    [] OTHER          -> [m EXCEPT !.port = Append(@, [p EXCEPT !.tid = m.tid])]

(* The last packet of a (non-conditional) store sets it ready to commit   *)
(* and erases it from requestedStores_, before the packet is issued.      *)
MarkStoreSent(m, p, isLast) ==
  IF isLast THEN [m EXCEPT !.ready = @ \cup {p.seq}, !.reqStores[p.seq] = 0]
  ELSE m

SetLastSent(m, isStore, used) ==
  [m EXCEPT !.lastSent = IF isStore THEN [@ EXCEPT !.st = used]
                                    ELSE [@ EXCEPT !.ld = used]]

(* Mutant: a packet that exactly fills the bandwidth is held back.       *)
RECURSIVE ProcessRequestsStrict(_, _, _, _, _)
ProcessRequestsStrict(m, isStore, used, k, tr) ==
  LET bkt   == IF isStore THEN m.st ELSE m.ld
      limit == IF isStore THEN StoreBandwidth ELSE LoadBandwidth
  IN  IF bkt = << >> \/ used + Head(Head(bkt).pkts).size >= limit
      THEN SetLastSent(m, isStore, used)
      ELSE LET e    == Head(bkt)
               p    == Head(e.pkts)
               bkt2 == IF Len(e.pkts) = 1 THEN Tail(bkt)
                       ELSE << [e EXCEPT !.pkts = Tail(@)] >> \o Tail(bkt)
               m1   == IF isStore THEN MarkStoreSent([m EXCEPT !.st = bkt2], p, Len(e.pkts) = 1)
                       ELSE [m EXCEPT !.ld = bkt2]
           IN  ProcessRequestsStrict(IssueRequest(m1, p, tr[k]), isStore, used + p.size, k + 1, tr)

(* processRequests(isStore): send packets of the bucket, front instruction *)
(* first, while the bytes sent stay within the bandwidth; return at the    *)
(* first packet that does not fit.  tr[k] answers the k-th packet sent.    *)
RECURSIVE ProcessRequests(_, _, _, _, _)
ProcessRequests(m, isStore, used, k, tr) ==
  LET bkt   == IF isStore THEN m.st ELSE m.ld
      limit == IF isStore THEN StoreBandwidth ELSE LoadBandwidth
  IN  IF bkt = << >> \/ used + Head(Head(bkt).pkts).size > limit
      THEN SetLastSent(m, isStore, used)
      ELSE LET e    == Head(bkt)
               p    == Head(e.pkts)
               bkt2 == IF Len(e.pkts) = 1 THEN Tail(bkt)
                       ELSE << [e EXCEPT !.pkts = Tail(@)] >> \o Tail(bkt)
               m1   == IF isStore THEN MarkStoreSent([m EXCEPT !.st = bkt2], p, Len(e.pkts) = 1)
                       ELSE [m EXCEPT !.ld = bkt2]
           IN  ProcessRequests(IssueRequest(m1, p, tr[k]), isStore, used + p.size, k + 1, tr)

(* setTid(tid).                                                            *)
SetTid(m, t) == [m EXCEPT !.tid = t]

(* The number of packets waiting in the buckets.                           *)
Waiting(b) == FoldLeft(LAMBDA s, e : s + Len(e.pkts), 0, b)

(* MMU::tick: under Exclusive serve whichever type holds instructions     *)
(* (stores if any), otherwise stores first and then loads.                 *)
MMUTick(m, tr) ==
  LET m0 == [m EXCEPT !.lastSent = [ld |-> 0, st |-> 0]]
  IN  IF Exclusive THEN ProcessRequests(m0, m.st /= << >>, 0, 1, tr)
      ELSE ProcessRequests(ProcessRequests(m0, TRUE, 0, 1, tr), FALSE, 0, 1 + Waiting(m.st), tr)

(* supplyDelayedTranslation(vaddr, paddr): re-issue every packet parked on *)
(* vaddr in the order they were parked (tr[k] answers the k-th), then      *)
(* erase vaddr's entry, dropping whatever the loop parked there again.     *)
SupplyDelayedTranslation(m, va, tr) ==
  LET ps == SelectSeq(m.parked, LAMBDA p : p.vaddr = va)
      m1 == FoldLeft(LAMBDA acc, k : IssueRequest(acc, ps[k], tr[k]), m,
                     [k \in 1 .. Len(ps) |-> k])
  IN  [m1 EXCEPT !.parked = SelectSeq(@, LAMBDA p : p.vaddr /= va)]

(* The memory behind the port: a read takes the bytes memory holds, an     *)
(* ignored read returns no data, a write stores its payload unless it is   *)
(* ignored.  The answered packet goes to the receiver.                     *)
ServeRead(mm, p) ==
  IF p.ignored THEN << >> ELSE [k \in 1 .. p.size |-> mm[p.vaddr + k - 1]]

ServeWrite(mm, p) ==
  IF p.ignored THEN mm
  ELSE [a \in Addrs |-> IF a \in p.vaddr .. p.vaddr + p.size - 1
                        THEN p.payload[a - p.vaddr + 1] ELSE mm[a]]

(* The memory answers the k-th packet in flight.                           *)
ServePacket(k) ==
  LET p == mmu.port[k]
  IN  /\ mmu' = Receive([mmu EXCEPT !.port = RemoveAt(@, k)],
                        IF p.write THEN p ELSE [p EXCEPT !.payload = ServeRead(mem, p)])
      /\ mem' = IF p.write THEN ServeWrite(mem, p) ELSE mem

=============================================================================
