------------------------- MODULE DispatchIssueUnit -------------------------
(***************************************************************************)
(* The dispatch/issue unit of src/lib/pipeline/DispatchIssueUnit.cc.  Its  *)
(* state is the record d:                                                  *)
(*   sb          scoreboard_: per physical tag, whether its value is ready *)
(*   dm          dependencyMatrix_: per tag, the [u, port, op] entries     *)
(*               waiting for it                                            *)
(*   ready       the ready queue of every issue port                       *)
(*   size        currentSize of every reservation station                  *)
(*   waiting     waitingInstructions_: [due, e, v] timed wake-ups          *)
(*   dependant   dependantInstructions_: entries that may not be forwarded *)
(*   ticks       ticks_                                                    *)
(*   dispatches  the dispatches made into every station this cycle         *)
(*   alloc       the port allocator's count of uops allocated to each port *)
(* The operand state of the uops (supplyOperand, canExecute) lives in the  *)
(* instruction table ins: ins[u].opnd[i] is the value supplied to operand *)
(* i, or Missing.  The DIU operators take and return c = [d, ins].         *)
(***************************************************************************)
EXTENDS RegisterAliasTable, FiniteSets

CONSTANTS
  Ports,           \* issue ports 1..p
  PortRS,          \* port -> reservation station (portMapping_)
  RSCapacity,      \* station -> capacity
  DispatchRate,    \* dispatchRate_, per station per cycle
  SupportedPorts,  \* group -> the ports that execute it
  FwdLatency,      \* producer group -> consumer group -> canForward latency
  BypassLatency    \* enableBypassLatency_

RSs == {PortRS[p] : p \in Ports}

Missing == -1

CanExecute(u) == \A i \in DOMAIN u.opnd : u.opnd[i] /= Missing

DIUInit ==
  [sb |-> [t \in Tags |-> TRUE], dm |-> [t \in Tags |-> << >>],
   ready |-> [p \in Ports |-> << >>], size |-> [r \in RSs |-> 0],
   waiting |-> << >>, dependant |-> << >>, ticks |-> 0,
   dispatches |-> [r \in RSs |-> 0], alloc |-> [p \in Ports |-> 0]]

SupplyOperand(c, u, i, v) == [c EXCEPT !.ins[u].opnd[i] = v]

(* Add the uop of entry e to its port's ready queue if it can now execute. *)
PushIfExecutable(c, e) ==
  IF CanExecute(c.ins[e.u]) THEN [c EXCEPT !.d.ready[e.port] = Append(@, e.u)] ELSE c

(* The first loop of tick(): every wake-up due this tick supplies its     *)
(* value and is dropped.                                                   *)
WakeUps(c) ==
  LET isDue(w) == w.due = c.d.ticks
  IN  FoldLeft(LAMBDA a, w : PushIfExecutable(SupplyOperand(a, w.e.u, w.e.op, w.v), w.e),
               [c EXCEPT !.d.waiting = SelectSeq(@, LAMBDA w : ~isDue(w))],
               SelectSeq(c.d.waiting, isDue))

(* The second loop: an entry whose register the scoreboard marks ready is *)
(* supplied from the register file rf and dropped; the uop is enqueued if *)
(* it can execute, whether or not this entry supplied it.                  *)
ScanDependants(c, rf) ==
  LET step(a, e) ==
        LET reg == a.c.ins[e.u].srcs[e.op]
            sup == a.c.d.sb[reg]
            c1  == IF sup THEN SupplyOperand(a.c, e.u, e.op, rf[reg]) ELSE a.c
        IN  [c |-> PushIfExecutable(c1, e), keep |-> IF sup THEN a.keep ELSE Append(a.keep, e)]
      r == FoldLeft(step, [c |-> c, keep |-> << >>], c.d.dependant)
  IN  [r.c EXCEPT !.d.dependant = r.keep]

(* Mutant: dispatch leaves the destination marked ready.                  *)
DispatchUopKeepsDstReady(c, rf, u, p) ==
  LET srcs == c.ins[u].srcs
      rs   == PortRS[p]
      miss == {i \in DOMAIN srcs : c.ins[u].opnd[i] = Missing}
      wait == {i \in miss : ~c.d.sb[srcs[i]]}
      c1   == [c EXCEPT !.ins[u].opnd = [i \in DOMAIN @ |-> IF i \in miss \ wait THEN rf[srcs[i]] ELSE @[i]],
                         !.d.dm = FoldLeft(LAMBDA m, i : IF i \in wait
                                                        THEN [m EXCEPT ![srcs[i]] = Append(@, [u |-> u, port |-> p, op |-> i])]
                                                        ELSE m,
                                          @, [i \in 1 .. Len(srcs) |-> i]),
                         !.d.dispatches[rs] = @ + 1, !.d.size[rs] = @ + 1, !.d.alloc[p] = @ + 1]
  IN  IF wait = {} THEN [c1 EXCEPT !.d.ready[p] = Append(@, u)] ELSE c1

(* Dispatch uop u to port p: read each missing operand the scoreboard     *)
(* marks ready, register the others in the dependency matrix, mark the    *)
(* destination not ready, and count the uop in its station.                *)
DispatchUop(c, rf, u, p) ==
  LET srcs == c.ins[u].srcs
      rs   == PortRS[p]
      miss == {i \in DOMAIN srcs : c.ins[u].opnd[i] = Missing}
      wait == {i \in miss : ~c.d.sb[srcs[i]]}
      dm1  == FoldLeft(LAMBDA m, i : IF i \in wait
                                     THEN [m EXCEPT ![srcs[i]] = Append(@, [u |-> u, port |-> p, op |-> i])]
                                     ELSE m,
                       c.d.dm, [i \in 1 .. Len(srcs) |-> i])
      dst  == c.ins[u].dst
      c1   == [c EXCEPT !.ins[u].opnd = [i \in DOMAIN @ |-> IF i \in miss \ wait THEN rf[srcs[i]] ELSE @[i]],
                         !.d.dm = dm1,
                         !.d.sb = IF dst = 0 THEN @ ELSE [@ EXCEPT ![dst] = FALSE],
                         !.d.dispatches[rs] = @ + 1,
                         !.d.size[rs] = @ + 1,
                         !.d.alloc[p] = @ + 1]
  IN  IF wait = {} THEN [c1 EXCEPT !.d.ready[p] = Append(@, u)] ELSE c1

(* The dispatch loop over the input buffer's head slots (0 = nullptr),    *)
(* with the port the allocator gives each uop.  A full station, or one    *)
(* whose dispatch quota is spent, stalls the input and ends the loop; the *)
(* port allocated to it is given back.                                     *)
RECURSIVE DispatchSlots(_, _, _, _, _)
DispatchSlots(c, rf, head, k, port) ==
  IF k > Len(head) THEN [c |-> c, head |-> head, stall |-> FALSE]
  ELSE IF head[k] = 0 THEN DispatchSlots(c, rf, head, k + 1, port)
  ELSE LET rs == PortRS[port[k]]
       IN  IF c.d.size[rs] = RSCapacity[rs] \/ c.d.dispatches[rs] = DispatchRate
           THEN [c |-> c, head |-> head, stall |-> TRUE]
           ELSE DispatchSlots(DispatchUop(c, rf, head[k], port[k]), rf,
                              [head EXCEPT ![k] = 0], k + 1, port)

(* DispatchIssueUnit::tick.                                                *)
DIUTick(c, rf, head, port) ==
  LET c0 == [c EXCEPT !.d.ticks = @ + 1, !.d.dispatches = [r \in RSs |-> 0]]
  IN  DispatchSlots(ScanDependants(WakeUps(c0), rf), rf, head, 1, port)

(* DispatchIssueUnit::issue: every port whose issue buffer is not stalled *)
(* takes the oldest uop of its ready queue.  Returns the new c and, per   *)
(* port, the uop written to its tail slot (0 for none).                    *)
Issue(c, stalledPorts) ==
  LET go == {p \in Ports : p \notin stalledPorts /\ c.d.ready[p] /= << >>}
  IN  [c |-> [c EXCEPT !.d.ready = [p \in Ports |-> IF p \in go THEN Tail(@[p]) ELSE @[p]],
                       !.d.alloc = [p \in Ports |-> IF p \in go THEN @[p] - 1 ELSE @[p]],
                       !.d.size = [r \in RSs |-> @[r] - Cardinality({p \in go : PortRS[p] = r})]],
       out |-> [p \in Ports |-> IF p \in go THEN Head(c.d.ready[p]) ELSE 0]]

(* forwardOperands for a uop of group pg writing value v to tag t: mark   *)
(* t ready and hand v to every dependant, now, after a delay, or never    *)
(* (the dependant then waits for the register file).                       *)
ForwardOperands(c, t, v, pg) ==
  LET c0 == [c EXCEPT !.d.sb[t] = TRUE, !.d.dm[t] = << >>]
      step(a, e) ==
        LET lat == IF BypassLatency THEN FwdLatency[pg][a.ins[e.u].grp] ELSE 0
        IN  CASE lat = 0  -> PushIfExecutable(SupplyOperand(a, e.u, e.op, v), e)
              [] lat = -1 -> [a EXCEPT !.d.dependant = Append(@, e)]
              [] OTHER    -> [a EXCEPT !.d.waiting = Append(@, [due |-> a.d.ticks + lat, e |-> e, v |-> v])]
  IN  FoldLeft(step, c0, c.d.dm[t])

(* Mutant: a flushed uop is uncounted from its station once per matrix    *)
(* entry, without the flushed_ set.                                        *)
PurgeFlushedPerEntry(c) ==
  LET fl(u)   == c.ins[u].flushed
      gone(p) == Len(SelectSeq(c.d.ready[p], fl))
      dmFl    == {e \in UNION {Range(c.d.dm[t]) : t \in Tags} : fl(e.u)}
  IN  [c EXCEPT
         !.d.ready = [p \in Ports |-> SelectSeq(@[p], LAMBDA u : ~fl(u))],
         !.d.dm    = [t \in Tags |-> SelectSeq(@[t], LAMBDA e : ~fl(e.u))],
         !.d.alloc = [p \in Ports |-> @[p] - gone(p) - Cardinality({e.u : e \in {x \in dmFl : x.port = p}})],
         !.d.size  = [r \in RSs |-> @[r] - MapThenSumSet(gone, {p \in Ports : PortRS[p] = r})
                                        - Cardinality({x \in dmFl : PortRS[x.port] = r})]]

(* Mutant: uops purged from the matrix keep their station entries.         *)
PurgeFlushedReadyOnly(c) ==
  LET fl(u)   == c.ins[u].flushed
      gone(p) == Len(SelectSeq(c.d.ready[p], fl))
      dmFl    == {e \in UNION {Range(c.d.dm[t]) : t \in Tags} : fl(e.u)}
  IN  [c EXCEPT
         !.d.ready = [p \in Ports |-> SelectSeq(@[p], LAMBDA u : ~fl(u))],
         !.d.dm    = [t \in Tags |-> SelectSeq(@[t], LAMBDA e : ~fl(e.u))],
         !.d.alloc = [p \in Ports |-> @[p] - gone(p) - Cardinality({e.u : e \in {x \in dmFl : x.port = p}})],
         !.d.size  = [r \in RSs |-> @[r] - MapThenSumSet(gone, {p \in Ports : PortRS[p] = r})]]

(* purgeFlushed: drop flushed uops from the ready queues and from the     *)
(* dependency matrix, giving back their ports and station entries; a uop  *)
(* in the matrix is counted once per station however many entries it has. *)
(* The wake-up and dependant lists are not searched.                       *)
PurgeFlushed(c) ==
  LET fl(u)   == c.ins[u].flushed
      gone(p) == Len(SelectSeq(c.d.ready[p], fl))
      dmFl    == {e \in UNION {Range(c.d.dm[t]) : t \in Tags} : fl(e.u)}
      flushedRS(r) == {e.u : e \in {x \in dmFl : PortRS[x.port] = r}}
  IN  [c EXCEPT
         !.d.ready = [p \in Ports |-> SelectSeq(@[p], LAMBDA u : ~fl(u))],
         !.d.dm    = [t \in Tags |-> SelectSeq(@[t], LAMBDA e : ~fl(e.u))],
         !.d.alloc = [p \in Ports |-> @[p] - gone(p) - Cardinality({e.u : e \in {x \in dmFl : x.port = p}})],
         !.d.size  = [r \in RSs |-> @[r] - MapThenSumSet(gone, {p \in Ports : PortRS[p] = r})
                                        - Cardinality(flushedRS(r))]]

=============================================================================
