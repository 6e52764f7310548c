---------------------------- MODULE OoOLegacyCore ----------------------------
(***************************************************************************)
(* The older dispatch/issue unit in a core, one cycle in the order of     *)
(* spec section 5: wb -> rn -> dis -> ex -> is, then the flush of a        *)
(* mispredicted branch.  Rename delivers the program's uops, already       *)
(* renamed onto physical tags, Width at a time when the input buffer is   *)
(* not stalled; each execution unit is fed by a one-slot issue port that   *)
(* is stalled while the unit is busy.  A misprediction flushes every      *)
(* younger uop and refetches after the branch.  The core around the unit  *)
(* is not part of this repository and follows the spec.                    *)
(***************************************************************************)
EXTENDS OoODispatchIssueUnit

CONSTANTS
  Latency,     \* group -> execution latency
  MaxFlushes   \* mispredictions explored

VARIABLES
  fetchPC,   \* the next pc to rename
  head,      \* the input buffer's head slots (uop or 0)
  stall,     \* whether the input buffer is stalled
  diu, ins,
  nextId,    \* the next sequence id
  pb,        \* issue port buffers: uop or 0
  eu,        \* execution units: [u, left]
  cs,        \* completion slots: uop or 0
  phase, flushes,
  flushAt    \* the mispredicted branch this cycle (0 = none)

vars == << fetchPC, head, stall, diu, ins, nextId, pb, eu, cs, phase, flushes, flushAt >>

N == Len(Prog)
MaxSeq == N * (MaxFlushes + 1)

Init ==
  /\ fetchPC = 1 /\ head = [k \in 1 .. Width |-> 0] /\ stall = FALSE
  /\ diu = OoODIUInit
  /\ ins = [u \in 1 .. MaxSeq |-> [pc |-> 0, sup |-> {}, flushed |-> FALSE]]
  /\ nextId = 1
  /\ pb = [p \in Ports |-> 0] /\ eu = [p \in Ports |-> [u |-> 0, left |-> 0]]
  /\ cs = [p \in Ports |-> 0]
  /\ phase = "wb" /\ flushes = 0 /\ flushAt = 0

Halted ==
  /\ fetchPC > N /\ \A k \in 1 .. Width : head[k] = 0
  /\ diu.rs = << >>
  /\ \A p \in Ports : pb[p] = 0 /\ eu[p].u = 0 /\ cs[p] = 0

(* Writeback: every completed uop that is not flushed forwards its        *)
(* destination.                                                            *)
Writeback ==
  /\ phase = "wb" /\ ~Halted
  /\ LET live == {p \in Ports : cs[p] /= 0 /\ ~ins[cs[p]].flushed /\ Prog[ins[cs[p]].pc].dst /= 0}
         c    == FoldLeft(LAMBDA a, p : ForwardOperands(a, Prog[a.ins[cs[p]].pc].dst),
                          [d |-> diu, ins |-> ins], SetToSeq(live))
     IN  diu' = c.d /\ ins' = c.ins
  /\ cs' = [p \in Ports |-> 0]
  /\ phase' = "rn"
  /\ UNCHANGED << fetchPC, head, stall, nextId, pb, eu, flushes, flushAt >>

(* Rename fills the input buffer with the next uops unless it is stalled. *)
Rename ==
  /\ phase = "rn"
  /\ IF stall \/ fetchPC > N THEN UNCHANGED << fetchPC, head, ins, nextId >>
     ELSE LET n == IF N - fetchPC + 1 < Width THEN N - fetchPC + 1 ELSE Width
          IN  /\ head' = [k \in 1 .. Width |-> IF k <= n THEN nextId + k - 1 ELSE 0]
              /\ ins' = [u \in DOMAIN ins |->
                           IF nextId <= u /\ u < nextId + n
                           THEN [pc |-> fetchPC + u - nextId, sup |-> {}, flushed |-> FALSE]
                           ELSE ins[u]]
              /\ fetchPC' = fetchPC + n /\ nextId' = nextId + n
  /\ phase' = "dis"
  /\ UNCHANGED << stall, diu, pb, eu, cs, flushes, flushAt >>

Dispatch ==
  /\ phase = "dis"
  /\ \E port \in [1 .. Width -> Ports] :
       /\ \A k \in 1 .. Width : head[k] /= 0 => port[k] \in SupportedPorts[Prog[ins[head[k]].pc].grp]
       /\ \A k \in 1 .. Width : head[k] = 0 => port[k] = Min(Ports)
       /\ LET r == Tick([d |-> diu, ins |-> ins], head, stall, 1, port)
          IN  diu' = r.c.d /\ ins' = r.c.ins /\ head' = r.head /\ stall' = r.stall
  /\ phase' = "ex"
  /\ UNCHANGED << fetchPC, nextId, pb, eu, cs, flushes, flushAt >>

(* The execution units: a busy unit counts down; an idle one takes its    *)
(* port's uop, dropping a flushed one; a finishing uop moves to its       *)
(* completion slot.  Of the branches that finish, the oldest that        *)
(* mispredicts, if any, is chosen as flushAt.                              *)
EUStep(s, p) ==
  LET s1 == IF s.eu[p].u /= 0 THEN [s EXCEPT !.eu[p].left = @ - 1]
            ELSE IF s.pb[p] = 0 \/ ins[s.pb[p]].flushed THEN [s EXCEPT !.pb[p] = 0]
            ELSE [s EXCEPT !.pb[p] = 0, !.eu[p] = [u |-> s.pb[p], left |-> Latency[Prog[ins[s.pb[p]].pc].grp] - 1]]
      u  == s1.eu[p].u
  IN  IF u /= 0 /\ s1.eu[p].left = 0
      THEN [s1 EXCEPT !.eu[p] = [u |-> 0, left |-> 0], !.cs[p] = u,
                      !.br = IF Prog[ins[u].pc].br /\ ~ins[u].flushed THEN @ \cup {u} ELSE @]
      ELSE s1

Execute ==
  /\ phase = "ex"
  /\ LET s == FoldLeft(EUStep, [eu |-> eu, pb |-> pb, cs |-> cs, br |-> {}], SetToSeq(Ports))
     IN  /\ eu' = s.eu /\ pb' = s.pb /\ cs' = s.cs
         /\ flushAt' \in IF flushes < MaxFlushes THEN s.br \cup {0} ELSE {0}
  /\ phase' = "is"
  /\ UNCHANGED << fetchPC, head, stall, diu, ins, nextId, flushes >>

IssueUops ==
  /\ phase = "is"
  /\ LET r == Issue([d |-> diu, ins |-> ins], {p \in Ports : eu[p].u /= 0})
     IN  /\ diu' = r.c.d
         /\ pb' = [p \in Ports |-> IF r.out[p] = 0 THEN pb[p] ELSE r.out[p]]
  /\ phase' = IF flushAt = 0 THEN "wb" ELSE "fl"
  /\ UNCHANGED << fetchPC, head, stall, ins, nextId, eu, cs, flushes, flushAt >>

(* The flush after branch flushAt: every younger uop is marked flushed,   *)
(* the input buffer is emptied, the unit purges, fetch restarts after the *)
(* branch.                                                                 *)
Flush ==
  /\ phase = "fl"
  /\ LET ins1 == [u \in DOMAIN ins |-> IF u > flushAt /\ u < nextId
                                       THEN [ins[u] EXCEPT !.flushed = TRUE] ELSE ins[u]]
         c    == PurgeFlushed([d |-> diu, ins |-> ins1])
     IN  diu' = c.d /\ ins' = c.ins
  /\ head' = [k \in 1 .. Width |-> 0] /\ stall' = FALSE
  /\ fetchPC' = ins[flushAt].pc + 1
  /\ flushes' = flushes + 1 /\ flushAt' = 0
  /\ phase' = "wb"
  /\ UNCHANGED << nextId, pb, eu, cs >>

Terminated == phase = "wb" /\ Halted /\ UNCHANGED vars

Next == Writeback \/ Rename \/ Dispatch \/ Execute \/ IssueUops \/ Flush \/ Terminated

(* The core ticks the unit every cycle until it halts.                    *)
Spec == Init /\ [][Next]_vars /\ WF_vars(Next)

-----------------------------------------------------------------------------
TypeOK ==
  /\ phase \in {"wb", "rn", "dis", "ex", "is", "fl"}
  /\ diu.rc \in Nat
  /\ diu.alloc \in [Ports -> Nat]
  /\ Len(diu.rs) <= RSSize
  /\ flushes \in 0 .. MaxFlushes

(* readyCount never falls short of the entries that can execute: the      *)
(* issue loop gives up after readyCount ready entries, so a shortfall     *)
(* would strand a ready uop.  Dispatch and forwarding count a uop when    *)
(* its last operand arrives; issue and purgeFlushed uncount it.            *)
ReadyCountCovers == diu.rc >= ReadyEntries([d |-> diu, ins |-> ins])

(* readyCount is exactly the number of station entries that can execute  *)
(* (the meaning the issue loop gives it).                                  *)
ReadyCountExact == diu.rc = ReadyEntries([d |-> diu, ins |-> ins])

(* Every port's allocation count equals the station entries on it: each   *)
(* issue and each purge of a flushed entry gives its port back exactly    *)
(* once (spec 4.4).                                                        *)
PortsBalanced ==
  \A p \in Ports : diu.alloc[p] = Len(SelectSeq(diu.rs, LAMBDA e : e.port = p))

(* The program drains: every uop renamed eventually issues or is flushed *)
(* and the core halts, with neither the busy-port walk nor the flush      *)
(* leaving a ready uop behind.                                             *)
ProgramCompletes == <>Halted

=============================================================================
