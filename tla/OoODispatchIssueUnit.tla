------------------------ MODULE OoODispatchIssueUnit ------------------------
(***************************************************************************)
(* The older dispatch/issue unit of src/outoforder/DispatchIssueUnit.cc:  *)
(* one reservation station (a list of [u, port] entries, oldest first), a *)
(* scoreboard, a dependency matrix and readyCount, the number of entries  *)
(* its issue loop expects to find ready.  Its state is the record d:      *)
(*   rs     reservationStation                                            *)
(*   rc     readyCount                                                    *)
(*   sb     scoreboard: per physical tag, whether its value is ready      *)
(*   dm     dependencyMatrix: per tag, the uops waiting for it            *)
(*   alloc  the port allocator's count of uops allocated to each port     *)
(* Operand state lives in the uop table ins: ins[u].sup is the set of     *)
(* operand indices supplied so far; values are abstracted away.  The      *)
(* operators take and return c = [d, ins].  Uops are read from the        *)
(* program Prog by their pc: Prog[pc].srcs are physical source tags (no   *)
(* two equal), Prog[pc].dst a tag or 0.                                    *)
(***************************************************************************)
EXTENDS Naturals, Sequences, SequencesExt, FiniteSets

CONSTANTS
  Prog,            \* pc -> [srcs, dst, grp, br]
  Tags,            \* physical tags
  Ports,           \* issue ports
  SupportedPorts,  \* group -> the ports that execute it
  RSSize,          \* maxReservationStationSize
  Width            \* fromRenameBuffer width

Srcs(c, u) == Prog[c.ins[u].pc].srcs

CanExecute(c, u) == c.ins[u].sup = DOMAIN Srcs(c, u)

(* The constructor: every register ready, no dependants.                  *)
OoODIUInit ==
  [rs |-> << >>, rc |-> 0, sb |-> [t \in Tags |-> TRUE],
   dm |-> [t \in Tags |-> << >>], alloc |-> [p \in Ports |-> 0]]

(* The number of reservation-station entries that can execute.          *)
ReadyEntries(c) == Cardinality({i \in DOMAIN c.d.rs : CanExecute(c, c.d.rs[i].u)})

(* Dispatch uop u to port p: supply every missing operand the scoreboard  *)
(* marks ready, register the uop in the matrix for each other one, count *)
(* it ready if nothing is missing, mark its destination not ready, and    *)
(* append it to the station.                                               *)
DispatchUop(c, u, p) ==
  LET srcs == Srcs(c, u)
      miss == DOMAIN srcs \ c.ins[u].sup
      wait == {i \in miss : ~c.d.sb[srcs[i]]}
      dst  == Prog[c.ins[u].pc].dst
  IN  [c EXCEPT
         !.ins[u].sup = @ \cup (miss \ wait),
         !.d.dm = [t \in Tags |-> IF \E i \in wait : srcs[i] = t THEN Append(@[t], u) ELSE @[t]],
         !.d.rc = IF wait = {} THEN @ + 1 ELSE @,
         !.d.sb = IF dst = 0 THEN @ ELSE [@ EXCEPT ![dst] = FALSE],
         !.d.alloc[p] = @ + 1,
         !.d.rs = Append(@, [u |-> u, port |-> p])]

(* Mutant: the station-full test is one entry late.                      *)
RECURSIVE TickOverfill(_, _, _, _, _)
TickOverfill(c, head, stall, k, port) ==
  IF k > Len(head) THEN [c |-> c, head |-> head, stall |-> stall]
  ELSE IF head[k] = 0 THEN TickOverfill(c, head, stall, k + 1, port)
  ELSE IF Len(c.d.rs) = RSSize + 1 THEN [c |-> c, head |-> head, stall |-> TRUE]
  ELSE TickOverfill(DispatchUop(c, head[k], port[k]), [head EXCEPT ![k] = 0], FALSE, k + 1, port)

(* tick(): over the input's head slots (0 = nullptr), with the port the   *)
(* allocator gives each uop.  A full station stalls the input and ends    *)
(* the loop; every uop dispatched unstalls it.  Returns [c, head, stall]. *)
RECURSIVE Tick(_, _, _, _, _)
Tick(c, head, stall, k, port) ==
  IF k > Len(head) THEN [c |-> c, head |-> head, stall |-> stall]
  ELSE IF head[k] = 0 THEN Tick(c, head, stall, k + 1, port)
  ELSE IF Len(c.d.rs) = RSSize THEN [c |-> c, head |-> head, stall |-> TRUE]
  ELSE Tick(DispatchUop(c, head[k], port[k]), [head EXCEPT ![k] = 0], FALSE, k + 1, port)

(* issue(): walk the station from its oldest entry while fewer than one   *)
(* uop per port has issued and readyRemaining, a copy of readyCount, is   *)
(* positive.  A ready entry whose port is unavailable uses up one of      *)
(* readyRemaining without the walk moving on; a ready entry on an         *)
(* available port is issued and erased; any other entry is stepped over.  *)
(* s = [c, avail, rem, issued, out]; out[p] is the uop issued to p or 0.  *)
RECURSIVE IssueLoop(_, _)
IssueLoop(s, i) ==
  IF s.issued >= Cardinality(Ports) \/ i > Len(s.c.d.rs) \/ s.rem = 0 THEN s
  ELSE LET e == s.c.d.rs[i]
       IN  IF ~CanExecute(s.c, e.u) THEN IssueLoop(s, i + 1)
           ELSE IF ~s.avail[e.port] THEN IssueLoop([s EXCEPT !.rem = @ - 1], i)
           ELSE IssueLoop([s EXCEPT !.c.d.rs = RemoveAt(@, i),
                                    !.c.d.alloc[e.port] = @ - 1,
                                    !.c.d.rc = @ - 1,
                                    !.avail[e.port] = FALSE,
                                    !.out[e.port] = e.u,
                                    !.issued = @ + 1,
                                    !.rem = @ - 1], i)

Issue(c, stalledPorts) ==
  IssueLoop([c |-> c, avail |-> [p \in Ports |-> p \notin stalledPorts],
             rem |-> c.d.rc, issued |-> 0, out |-> [p \in Ports |-> 0]], 1)

(* Mutant: forwarding supplies operands without counting newly ready uops.*)
ForwardOperandsUncounted(c, t) ==
  LET step(a, u) == [a EXCEPT !.ins[u].sup = @ \cup {i \in DOMAIN Srcs(a, u) : Srcs(a, u)[i] = t}]
  IN  [FoldLeft(step, [c EXCEPT !.d.sb[t] = TRUE], c.d.dm[t]) EXCEPT !.d.dm[t] = << >>]

(* forwardOperands for a result in tag t: mark it ready, supply every uop *)
(* the matrix lists for it, counting each that can now execute, and clear *)
(* the list.                                                               *)
ForwardOperands(c, t) ==
  LET step(a, u) ==
        LET a1 == [a EXCEPT !.ins[u].sup = @ \cup {i \in DOMAIN Srcs(a, u) : Srcs(a, u)[i] = t}]
        IN  IF CanExecute(a1, u) THEN [a1 EXCEPT !.d.rc = @ + 1] ELSE a1
  IN  [FoldLeft(step, [c EXCEPT !.d.sb[t] = TRUE], c.d.dm[t]) EXCEPT !.d.dm[t] = << >>]

(* Mutant: every flushed entry is uncounted, ready or not.                *)
PurgeFlushedUncountAll(c) ==
  LET fl(e) == c.ins[e.u].flushed
      gone  == SelectSeq(c.d.rs, fl)
  IN  [c EXCEPT
         !.d.rs    = SelectSeq(@, LAMBDA e : ~fl(e)),
         !.d.rc    = @ - Len(gone),
         !.d.alloc = [p \in Ports |-> @[p] - Len(SelectSeq(gone, LAMBDA e : e.port = p))]]

(* Mutant: flushed entries are erased without deallocating their ports.   *)
PurgeFlushedKeepsPorts(c) ==
  LET fl(e) == c.ins[e.u].flushed
      gone  == SelectSeq(c.d.rs, fl)
  IN  [c EXCEPT
         !.d.rs    = SelectSeq(@, LAMBDA e : ~fl(e)),
         !.d.rc    = @ - Len(SelectSeq(gone, LAMBDA e : CanExecute(c, e.u)))]

(* purgeFlushed: erase every flushed entry of the station, uncounting it  *)
(* from readyCount if it could execute and giving its port back.  The     *)
(* dependency matrix is left as it is.                                     *)
PurgeFlushed(c) ==
  LET fl(e) == c.ins[e.u].flushed
      gone  == SelectSeq(c.d.rs, fl)
  IN  [c EXCEPT
         !.d.rs    = SelectSeq(@, LAMBDA e : ~fl(e)),
         !.d.rc    = @ - Len(SelectSeq(gone, LAMBDA e : CanExecute(c, e.u))),
         !.d.alloc = [p \in Ports |-> @[p] - Len(SelectSeq(gone, LAMBDA e : e.port = p))]]

=============================================================================
