--------------------------- MODULE OutOfOrderCore ---------------------------
(***************************************************************************)
(* The back end of the out-of-order core: rename, the dispatch/issue unit, *)
(* execution units, writeback, the reorder buffer and the flush after a    *)
(* branch misprediction, one cycle in the order of spec section 5:         *)
(*   wb -> rn -> dis -> ex -> is -> end                                   *)
(* (writeback; rename; DispatchIssueUnit::tick; the execution units;      *)
(* DispatchIssueUnit::issue; buffer ticks, ReorderBuffer::commit and      *)
(* flushIfNeeded).  Fetch and decode deliver the program in order from    *)
(* fetchPC.  The value an instruction writes is its pc (0 = initial).      *)
(* The core's orchestration, rename, the execution units and writeback    *)
(* are not part of this repository and follow the spec; the operators     *)
(* they call are translated from the DIU and ROB sources.                  *)
(***************************************************************************)
EXTENDS ReorderBuffer

CONSTANTS
  Prog,         \* pc -> [dst |-> architectural register or 0, srcs, grp, br]
  Width,        \* rename and dispatch width (renameToDispatch buffer)
  CommitWidth,  \* commitWidth_
  Latency,      \* group -> execution latency
  MaxFlushes,   \* mispredictions explored
  MaxTicks      \* cycles explored

VARIABLES
  fetchPC,  \* the next program instruction to rename
  rnOut,    \* renameToDispatch buffer: [head, tail, stalled], Width slots
  rat, rob, diu, ins,
  rf,       \* physical register file: tag -> value
  pbuf,     \* issue port buffers (width 1): [head, tail, stalled]
  eu,       \* execution units: [u, left], non-pipelined
  cslot,    \* completion slots (width 1): [head, tail]
  phase,
  flushes,  \* mispredictions so far
  flushAt   \* the oldest mispredicted branch this cycle (0 = none)

vars == << fetchPC, rnOut, rat, rob, diu, ins, rf, pbuf, eu, cslot, phase, flushes, flushAt >>

Slots == 1 .. Width
Empty1 == [head |-> 0, tail |-> 0, stalled |-> FALSE]
NoUop == [pc |-> 0, srcs |-> << >>, dst |-> 0, grp |-> CHOOSE g \in DOMAIN Latency : TRUE,
          opnd |-> << >>, flushed |-> FALSE, done |-> FALSE]

(* The tag holding architectural register r's committed value: the tag    *)
(* the oldest in-flight rename of r replaced, else r's current mapping.   *)
CommittedTag(r) ==
  LET inFlight == SelectSeq(rob.buf, LAMBDA u : ins[u].dst /= 0 /\ rat.dest[ins[u].dst] = r)
  IN  IF inFlight = << >> THEN rat.map[r] ELSE rat.hist[ins[Head(inFlight)].dst]

ArchState == [r \in ArchRegs |-> rf[CommittedTag(r)]]

(* The promise of InOrderRetirement, over the committed count and the    *)
(* architectural state the committed tags hold.                           *)
Abs == INSTANCE InOrderRetirement WITH pc <- rob.committed, arch <- ArchState

N == Abs!N
MaxSeq == N * (MaxFlushes + 1)

Init ==
  /\ fetchPC = 1
  /\ rnOut = [head |-> [k \in Slots |-> 0], tail |-> [k \in Slots |-> 0], stalled |-> FALSE]
  /\ rat = RATInit
  /\ rob = ROBInit
  /\ diu = DIUInit
  /\ ins = [u \in 1 .. MaxSeq |-> NoUop]
  /\ rf = [t \in Tags |-> 0]
  /\ pbuf = [p \in Ports |-> Empty1]
  /\ eu = [p \in Ports |-> [u |-> 0, left |-> 0]]
  /\ cslot = [p \in Ports |-> Empty1]
  /\ phase = "wb"
  /\ flushes = 0
  /\ flushAt = 0

(* Nothing left to fetch, nothing in flight anywhere.                      *)
Halted ==
  /\ fetchPC > N /\ rob.buf = << >>
  /\ \A k \in Slots : rnOut.head[k] = 0 /\ rnOut.tail[k] = 0
  /\ diu.waiting = << >> /\ diu.dependant = << >>
  /\ \A p \in Ports : /\ diu.ready[p] = << >> /\ eu[p].u = 0
                      /\ pbuf[p].head = 0 /\ pbuf[p].tail = 0
                      /\ cslot[p].head = 0 /\ cslot[p].tail = 0

-----------------------------------------------------------------------------
(* WritebackUnit::tick: every completion slot head that is not flushed    *)
(* writes its value, forwards it, and becomes commit-ready.                *)
WritebackSlot(s, p) ==
  LET u == s.cs[p].head
      i == s.c.ins[u]
  IN  IF u = 0 THEN s
      ELSE IF i.flushed THEN [s EXCEPT !.cs[p].head = 0]
      ELSE LET c1 == IF i.dst = 0 THEN s.c ELSE ForwardOperands(s.c, i.dst, i.pc, i.grp)
           IN  [s EXCEPT !.c = [c1 EXCEPT !.ins[u].done = TRUE],
                         !.rf = IF i.dst = 0 THEN @ ELSE [@ EXCEPT ![i.dst] = i.pc],
                         !.cs[p].head = 0]

Writeback ==
  /\ phase = "wb" /\ ~Halted /\ diu.ticks < MaxTicks
  /\ LET s == FoldLeft(WritebackSlot, [c |-> [d |-> diu, ins |-> ins], rf |-> rf, cs |-> cslot],
                       SetToSeq(Ports))
     IN  /\ diu' = s.c.d /\ ins' = s.c.ins /\ rf' = s.rf /\ cslot' = s.cs
  /\ phase' = "rn"
  /\ UNCHANGED << fetchPC, rnOut, rat, rob, pbuf, eu, flushes, flushAt >>

(* RenameUnit::tick: unless its output is stalled, rename the next        *)
(* instructions while the ROB has space and a free tag is available.      *)
RECURSIVE RenameSlots(_, _)
RenameSlots(s, k) ==
  IF k > Width \/ s.pc > N THEN s
  ELSE LET p == Prog[s.pc]
       IN  IF FreeSpace(s.rob) < 1 \/ (p.dst /= 0 /\ ~CanAllocate(s.rat)) THEN s
           ELSE LET u    == s.rob.seqId
                    rat1 == IF p.dst = 0 THEN s.rat ELSE Allocate(s.rat, p.dst)
                IN  RenameSlots(
                      [s EXCEPT !.pc = @ + 1, !.rat = rat1, !.rob = Reserve(@),
                                !.tail[k] = u,
                                !.ins[u] = [pc |-> s.pc,
                                            srcs |-> [i \in DOMAIN p.srcs |-> s.rat.map[p.srcs[i]]],
                                            dst |-> IF p.dst = 0 THEN 0 ELSE rat1.map[p.dst],
                                            grp |-> p.grp,
                                            opnd |-> [i \in DOMAIN p.srcs |-> Missing],
                                            flushed |-> FALSE, done |-> FALSE]],
                      k + 1)

Rename ==
  /\ phase = "rn"
  /\ IF rnOut.stalled
     THEN UNCHANGED << fetchPC, rat, rob, ins, rnOut >>
     ELSE LET s == RenameSlots([pc |-> fetchPC, rat |-> rat, rob |-> rob, ins |-> ins,
                                tail |-> rnOut.tail], 1)
          IN  /\ fetchPC' = s.pc /\ rat' = s.rat /\ rob' = s.rob /\ ins' = s.ins
              /\ rnOut' = [rnOut EXCEPT !.tail = s.tail]
  /\ phase' = "dis"
  /\ UNCHANGED << diu, rf, pbuf, eu, cslot, flushes, flushAt >>

(* DispatchIssueUnit::tick, with the port the allocator gives each uop.   *)
Dispatch ==
  /\ phase = "dis"
  /\ \E port \in [Slots -> Ports] :
       /\ \A k \in Slots : rnOut.head[k] /= 0 => port[k] \in SupportedPorts[ins[rnOut.head[k]].grp]
       /\ \A k \in Slots : rnOut.head[k] = 0 => port[k] = Min(Ports)
       /\ LET r == DIUTick([d |-> diu, ins |-> ins], rf, rnOut.head, port)
          IN  /\ diu' = r.c.d /\ ins' = r.c.ins
              /\ rnOut' = [rnOut EXCEPT !.head = r.head, !.stalled = r.stall]
  /\ phase' = "ex"
  /\ UNCHANGED << fetchPC, rat, rob, rf, pbuf, eu, cslot, flushes, flushAt >>

-----------------------------------------------------------------------------
(* One execution unit's tick: a busy unit counts down and completes into  *)
(* its completion slot; an idle one takes the head of its issue port,     *)
(* dropping a flushed uop.  A completing branch may report a              *)
(* misprediction (mis).  The port is stalled while the unit is busy.      *)
EUTick(s, p, mis) ==
  LET e  == s.eu[p]
      h  == s.pb[p].head
      s1 == IF e.u /= 0 THEN [s EXCEPT !.eu[p].left = @ - 1]
            ELSE IF h = 0 THEN s
            ELSE IF ins[h].flushed THEN [s EXCEPT !.pb[p].head = 0]
            ELSE [s EXCEPT !.pb[p].head = 0, !.eu[p] = [u |-> h, left |-> Latency[ins[h].grp] - 1]]
      u  == s1.eu[p].u
      s2 == IF u /= 0 /\ s1.eu[p].left = 0
            THEN [s1 EXCEPT !.eu[p] = [u |-> 0, left |-> 0], !.cs[p].tail = u,
                            !.flushAt = IF mis /\ Prog[ins[u].pc].br /\ (@ = 0 \/ u < @) THEN u ELSE @]
            ELSE s1
  IN  [s2 EXCEPT !.pb[p].stalled = s2.eu[p].u /= 0]

Execute ==
  /\ phase = "ex"
  /\ \E mis \in IF flushes < MaxFlushes THEN BOOLEAN ELSE {FALSE} :
       LET s == FoldLeft(LAMBDA a, p : EUTick(a, p, mis),
                         [eu |-> eu, pb |-> pbuf, cs |-> cslot, flushAt |-> flushAt],
                         SetToSeq(Ports))
       IN  /\ eu' = s.eu /\ pbuf' = s.pb /\ cslot' = s.cs /\ flushAt' = s.flushAt
  /\ phase' = "is"
  /\ UNCHANGED << fetchPC, rnOut, rat, rob, diu, ins, rf, flushes >>

(* DispatchIssueUnit::issue into the tails of the issue port buffers.     *)
IssueUops ==
  /\ phase = "is"
  /\ LET r == Issue([d |-> diu, ins |-> ins], {p \in Ports : pbuf[p].stalled})
     IN  /\ diu' = r.c.d
         /\ pbuf' = [p \in Ports |-> IF r.out[p] = 0 THEN pbuf[p] ELSE [pbuf[p] EXCEPT !.tail = r.out[p]]]
  /\ phase' = "end"
  /\ UNCHANGED << fetchPC, rnOut, rat, rob, ins, rf, eu, cslot, flushes, flushAt >>

(* PipelineBuffer::tick: unless stalled, the tail becomes the head.         *)
TickBuffer(b) == IF b.stalled THEN b ELSE [b EXCEPT !.head = b.tail, !.tail = b.head]

(* The end of the cycle without a misprediction: the buffers tick, then   *)
(* ReorderBuffer::commit.                                                  *)
EndCycle ==
  /\ phase = "end" /\ flushAt = 0
  /\ LET r == Commit([rob |-> rob, rat |-> rat, ins |-> ins], CommitWidth)
     IN  rob' = r.rob /\ rat' = r.rat /\ ins' = r.ins
  /\ rnOut' = TickBuffer(rnOut)
  /\ pbuf' = [p \in Ports |-> TickBuffer(pbuf[p])]
  /\ cslot' = [p \in Ports |-> TickBuffer(cslot[p])]
  /\ phase' = "wb"
  /\ UNCHANGED << fetchPC, diu, rf, eu, flushes, flushAt >>

(* The end of a cycle in which branch flushAt mispredicted: the buffers   *)
(* tick, the ROB commits, then flushIfNeeded flushes every younger uop    *)
(* from the ROB (rewinding the RAT) and from the DIU (purgeFlushed),      *)
(* empties the rename output and refetches after the branch.              *)
EndCycleFlush ==
  /\ phase = "end" /\ flushAt /= 0
  /\ LET r0 == Commit([rob |-> rob, rat |-> rat, ins |-> ins], CommitWidth)
         r  == Flush(r0, flushAt)
         c  == PurgeFlushed([d |-> diu, ins |-> r.ins])
     IN  rob' = r.rob /\ rat' = r.rat /\ ins' = c.ins /\ diu' = c.d
  /\ rnOut' = [head |-> [k \in Slots |-> 0], tail |-> [k \in Slots |-> 0], stalled |-> FALSE]
  /\ fetchPC' = ins[flushAt].pc + 1
  /\ pbuf' = [p \in Ports |-> TickBuffer(pbuf[p])]
  /\ cslot' = [p \in Ports |-> TickBuffer(cslot[p])]
  /\ flushes' = flushes + 1
  /\ flushAt' = 0
  /\ phase' = "wb"
  /\ UNCHANGED << rf, eu >>

(* The program has retired and the pipeline is empty: the core halts.     *)
Terminated == phase = "wb" /\ Halted /\ UNCHANGED vars

Next ==
  \/ Writeback \/ Rename \/ Dispatch \/ Execute \/ IssueUops
  \/ EndCycle \/ EndCycleFlush \/ Terminated

(* Core::tick runs every cycle until the core halts.                       *)
Spec == Init /\ [][Next]_vars /\ WF_vars(Next)

-----------------------------------------------------------------------------
(* Type invariant.  A reservation station's currentSize and the port      *)
(* allocator's counts never go below zero: the assertions of issue() and  *)
(* purgeFlushed.                                                           *)
TypeOK ==
  /\ phase \in {"wb", "rn", "dis", "ex", "is", "end"}
  /\ diu.size \in [RSs -> Nat]
  /\ diu.alloc \in [Ports -> Nat]
  /\ rob.committed \in 0 .. N
  /\ flushes \in 0 .. MaxFlushes

(* Every operand supplied to a live uop, by register read at dispatch, by *)
(* forwarding now or after a latency, or by the dependant scan, is the    *)
(* value of the operand's last writer before it in program order.  It     *)
(* takes the scoreboard, the dependency matrix, the wake-up lists and the *)
(* renaming of tags that are freed and reused to keep it.                  *)
OperandsCorrect ==
  \A u \in 1 .. MaxSeq :
     ins[u].pc /= 0 /\ ~ins[u].flushed =>
        \A i \in DOMAIN ins[u].opnd :
           ins[u].opnd[i] /= Missing =>
              ins[u].opnd[i] = Abs!LastWriter(ins[u].pc - 1, Prog[ins[u].pc].srcs[i])

(* Every physical tag is in exactly one place: the free list, the         *)
(* committed state of one architectural register, or the destination of  *)
(* one uop in the ROB (spec P2, and P7: the tags of flushed uops are back *)
(* on the free list).  Rename allocates, commit frees the replaced tag,   *)
(* and the flush rewinds youngest first.                                  *)
TagsPartitioned ==
  LET writers == SelectSeq(rob.buf, LAMBDA u : ins[u].dst /= 0)
  IN  /\ Range(rat.free) \cup {CommittedTag(r) : r \in ArchRegs}
           \cup {ins[u].dst : u \in Range(writers)} = Tags
      /\ Len(rat.free) + Cardinality(ArchRegs) + Len(writers) = Cardinality(Tags)

(* When the core halts, every reservation-station entry and every port    *)
(* allocation has been given back, by issue or by purgeFlushed, exactly   *)
(* once: nothing leaks capacity across a flush.                            *)
NoReservationLeak ==
  Halted => /\ \A r \in RSs : diu.size[r] = 0
            /\ \A p \in Ports : diu.alloc[p] = 0
            /\ \A t \in Tags : diu.dm[t] = << >>

(* After purgeFlushed, no flushed uop is in a ready queue (spec 4.4 flush *)
(* and P7: no structure holds a flushed instruction).                      *)
FlushedNeverReady ==
  \A p \in Ports : \A u \in Range(diu.ready[p]) : ~ins[u].flushed

(* The core implements InOrderRetirement: it retires the program in order *)
(* and the committed tags hold the architectural state, and it retires   *)
(* the whole program.                                                      *)
Refinement == Abs!Spec

=============================================================================
