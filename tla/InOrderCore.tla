----------------------------- MODULE InOrderCore -----------------------------
(***************************************************************************)
(* The in-order core's status machine (src/lib/models/inorder/Core.cc)    *)
(* around its memory path (InOrderMemory): interrupt() puts a running core *)
(* into "switching" and pauses fetch; each tick of a switching core first  *)
(* checks whether the pipeline has drained (the fetch and decode buffers   *)
(* and the staging area empty, no MMU request pending, no exception) and  *)
(* if so goes "idle"; an idle core does nothing until schedule() installs *)
(* the next thread, sets the MMU's TID and resumes fetch.  The MMU and    *)
(* memory tick on in every cycle, whatever the core's status.              *)
(* Exceptions: a load that took a data abort raises its exception when it *)
(* retires; at the end of that tick the core handles it (handleException: *)
(* register it, process it once, flush the whole pipeline); while it is   *)
(* registered every tick only processes it, which waits for the MMU to    *)
(* have no pending request and for the handler, whose result (fatal,      *)
(* resume, or idle after a syscall) comes from code outside this          *)
(* repository and is a choice from HandlerResults.                         *)
(*   status    status_                                                    *)
(*   tid       currentTID_                                                *)
(*   registered  exceptionRegistered_                                      *)
(*   owner     per instruction, the thread that issued it (0: not issued) *)
(*   fetchEnd  the last instruction fetched: while fetch is paused, only   *)
(*             the ones already in the front-end buffers can be issued     *)
(*   flushReq  the branches whose execution unit requests a flush this     *)
(*             cycle (shouldFlush): the predictor, outside this            *)
(*             repository, may have mispredicted any branch                *)
(*   wrong     (history) every instruction issued behind a branch when it  *)
(*             executed mispredicted: the wrong path                       *)
(* Branch flushes: flushIfNeeded, at the end of a tick in which no         *)
(* exception was handled, flushes everything younger than the oldest      *)
(* branch that requested it.  Fetch then restarts at the branch's target: *)
(* the instructions not yet issued stand for the correct path.             *)
(* After a switch the instructions not yet fetched are run by the next    *)
(* thread: they stand for the program of the thread scheduled.             *)
(***************************************************************************)
EXTENDS InOrderMemory

CONSTANTS
  MaxThreads,      \* the threads scheduled in turn, 1 .. MaxThreads
  HandlerResults,  \* the outcomes the exception handler may give
  FaultAddrs       \* the addresses whose translation may be a data abort

ASSUME HandlerResults \subseteq {"fatal", "resume", "idle"}

VARIABLES status, tid, owner, fetchEnd, registered, flushReq, wrong

ctl == << status, tid, owner, fetchEnd, registered, flushReq, wrong >>
cvars == << vars, ctl >>

N == Cardinality(Ids)

(* fetchToDecodeBuffer_ and decodeToIssueBuffer_ are each one slot wide.  *)
FrontEndSlots == 2

CoreInit ==
  /\ Init
  /\ status = "executing" /\ tid = 1
  /\ owner = [i \in Ids |-> 0]
  /\ fetchEnd = N
  /\ registered = FALSE
  /\ flushReq = {}
  /\ wrong = {}

(* The youngest instruction issued so far (0: none).                       *)
LastIssued == IF \A i \in Ids : stage[i] = "wait" THEN 0
              ELSE Max({i \in Ids : stage[i] /= "wait"})

(* Mutant: the drain test leaves out the MMU's pending requests.          *)
DrainedIgnoresMMU ==
  /\ \A i \in Ids : stage[i] \in {"wait", "retired", "flushed"}
  /\ \A i \in Ids : stage[i] = "wait" => i > fetchEnd
  /\ exc = 0

(* The drain test of a switching core: the front-end buffers hold nothing *)
(* (every fetched instruction is issued), staging_ is empty (every issued *)
(* one is retired or flushed), the MMU has no pending data request and no *)
(* exception is generated.  The LSQ's request queues are not part of it.  *)
Drained ==
  /\ \A i \in Ids : stage[i] \in {"wait", "retired", "flushed"}
  /\ \A i \in Ids : stage[i] = "wait" => i > fetchEnd
  /\ mmu.pending = 0
  /\ exc = 0

(* Core::tick runs its units when executing, or switching and not yet     *)
(* drained.                                                                *)
Runs == status = "executing" \/ (status = "switching" /\ ~Drained)

TickWriteback == Runs /\ ~registered /\ Writeback /\ UNCHANGED ctl

(* A switching core that has drained flushes the loop buffer, purges      *)
(* decode and issue (all empty) and goes idle; it ticks nothing else.      *)
SwitchToIdle ==
  /\ phase = "wb" /\ status = "switching" /\ Drained
  /\ status' = "idle"
  /\ phase' = "mmu"
  /\ UNCHANGED << mmu, mem, lsq, slots, stage, exc, tid, owner, fetchEnd, registered,
                 flushReq, wrong >>

(* An idle or halted core does nothing in its tick.                        *)
IdleTick ==
  /\ phase = "wb" /\ status \in {"idle", "halted"}
  /\ phase' = "mmu"
  /\ UNCHANGED << mmu, mem, lsq, slots, stage, exc, ctl >>

(* The status the handler's result leaves: halted if fatal, idle if the   *)
(* syscall asks for it, otherwise unchanged (fetch resumes at its PC).    *)
Outcome(res) == CASE res = "fatal" -> "halted"
                  [] res = "idle"  -> "idle"
                  [] OTHER         -> status

(* processException(), with m the MMU: nothing while m has a pending      *)
(* request or the handler needs more ticks; otherwise the result is       *)
(* applied and the exception is cleared (exceptionGenerated_ and          *)
(* exceptionRegistered_ both false).                                       *)
ProcessException(m) ==
  \/ UNCHANGED << status, exc >> /\ registered' = TRUE
  \/ /\ m.pending = 0
     /\ \E res \in HandlerResults : status' = Outcome(res)
     /\ exc' = 0 /\ registered' = FALSE

(* A tick of a core with a registered exception only processes it.         *)
ProcessTick ==
  /\ phase = "wb" /\ Runs /\ registered
  /\ ProcessException(mmu)
  /\ phase' = "mmu"
  /\ UNCHANGED << mmu, mem, lsq, slots, stage, tid, owner, fetchEnd, flushReq, wrong >>

(* handleException's test: the generating instruction is no younger than  *)
(* staging_'s next sequence id, i.e. every older one is retired or        *)
(* flushed.                                                                *)
HandleReady == \A j \in Ids : j < exc => stage[j] \in {"retired", "flushed"}

(* Mutant: the flush leaves out the stores waiting in an execution unit's  *)
(* completion slot.                                                        *)
FlushingKeepsDone == {j \in Ids : stage[j] \in {"issued", "started"}}

(* The instructions a full flush marks: every one issued and not retired. *)
Flushing == {j \in Ids : stage[j] \in {"issued", "started", "done"}}

(* PipelineBuffer::fill(nullptr): both rows emptied, the stall flag kept.  *)
Fill(b) == [b EXCEPT !.head = 0, !.tail = 0]

(* handleException(), after the LSQ tick left l, m and the slots sl:      *)
(* register the exception and process it once, then flush the pipeline:   *)
(* the front end is emptied (with fetch paused nothing more is fetched),  *)
(* every issued instruction is flushed, the LSQ purges them, and the      *)
(* completion slots are filled with nullptr.                               *)
HandleException(l, m, sl) ==
  /\ ProcessException(m)
  /\ stage' = [j \in Ids |-> IF j \in Flushing THEN "flushed" ELSE stage[j]]
  /\ lsq' = PurgeFlushed(l, Flushing)
  /\ slots' = [k \in DOMAIN sl |-> Fill(sl[k])]
  /\ fetchEnd' = IF status = "switching" THEN LastIssued ELSE fetchEnd

(* Mutant: the branch flush leaves out the instructions waiting in an      *)
(* execution unit's completion slot.                                       *)
BranchFlushingKeepsDone(b) == {j \in Ids : j > b /\ stage[j] \in {"issued", "started"}}

(* staging_.flush(b) and the units' purgeFlushed: every issued            *)
(* instruction younger than b and not retired.                            *)
BranchFlushing(b) == {j \in Ids : j > b /\ stage[j] \in {"issued", "started", "done"}}

(* Mutant: the completion slots are left as they are after a flush.       *)
ClearFlushedNone(b, fl) == b

(* A completion slot after a flush: a head or tail that is flushed is     *)
(* cleared, anything else is kept.                                         *)
ClearFlushed(b, fl) == [b EXCEPT !.head = IF @ \in fl THEN 0 ELSE @,
                                 !.tail = IF @ \in fl THEN 0 ELSE @]

(* flushIfNeeded(), after the LSQ tick left l and the slots sl: the oldest *)
(* branch whose unit requests a flush wins; everything younger is flushed, *)
(* the LSQ purges it, the completion slots drop it, an exception it        *)
(* generated is cancelled, and the front end is emptied (with fetch        *)
(* paused nothing more is fetched).                                        *)
FlushIfNeeded(l, sl) ==
  LET fl == BranchFlushing(Min(flushReq))
  IN  /\ stage' = [j \in Ids |-> IF j \in fl THEN "flushed" ELSE stage[j]]
      /\ lsq' = PurgeFlushed(l, fl)
      /\ slots' = [k \in DOMAIN sl |-> ClearFlushed(sl[k], fl)]
      /\ exc' = IF exc \in fl THEN 0 ELSE exc
      /\ fetchEnd' = IF status = "switching" THEN LastIssued ELSE fetchEnd

(* The end of Core::tick: loadStoreQueue_.tick(), the buffers tick, then  *)
(* a generated exception that can be handled is handled, and otherwise    *)
(* flushIfNeeded runs (loadViolation_ is never set, so only the units'     *)
(* requests count).  Either way the units' flush requests are spent.      *)
CoreTickLSQ ==
  /\ phase = "lsq"
  /\ LET r  == LSQTick(lsq, mmu, slots, Flushed)
         sl == [k \in DOMAIN r.slots |-> TickSlot(r.slots[k])]
     IN  /\ mmu' = r.m
         /\ CASE exc /= 0 /\ HandleReady -> HandleException(r.l, r.m, sl)
              [] flushReq /= {} ->
                   FlushIfNeeded(r.l, sl) /\ UNCHANGED << status, registered >>
              [] OTHER ->
                   /\ lsq' = r.l /\ slots' = sl
                   /\ UNCHANGED << stage, exc, status, registered, fetchEnd >>
  /\ flushReq' = {}
  /\ phase' = "mmu"
  /\ UNCHANGED << mem, tid, owner, wrong >>

(* A branch executes; its unit requests a flush when it was mispredicted, *)
(* and what was issued behind it is then on the wrong path.               *)
ExecuteBranch ==
  /\ phase = "eu"
  /\ \E b \in Ids :
       /\ IsBranch(b) /\ EUMayFinish(b)
       /\ stage' = [stage EXCEPT ![b] = "done"]
       /\ \/ UNCHANGED << flushReq, wrong >>
          \/ /\ flushReq' = flushReq \cup {b}
             /\ wrong' = wrong \cup {j \in Ids : j > b /\ stage[j] /= "wait"}
  /\ UNCHANGED << mmu, mem, lsq, slots, phase, exc, status, tid, owner, fetchEnd, registered >>

(* Issue of a fetched instruction, by the thread that runs it.             *)
IssueFetched ==
  \E i \in Ids :
     /\ IssueInsn(i)
     /\ i <= fetchEnd
     /\ owner' = [owner EXCEPT ![i] = tid]
     /\ UNCHANGED << status, tid, fetchEnd, registered, flushReq, wrong >>

(* interrupt(), between two ticks: it fails while an exception is         *)
(* generated; otherwise the core switches and fetch pauses with up to     *)
(* FrontEndSlots instructions past the last issued one already fetched.    *)
Interrupt ==
  /\ phase = "wb" /\ status = "executing" /\ tid < MaxThreads /\ exc = 0
  /\ status' = "switching"
  /\ fetchEnd' \in LastIssued .. Min({LastIssued + FrontEndSlots, N})
  /\ UNCHANGED << vars, tid, owner, registered, flushReq, wrong >>

(* schedule(context): the next thread's TID, to the core and to the MMU,  *)
(* status executing, fetch unpaused.  The scheduler calls it between core *)
(* ticks, before or after the MMU's tick (the repository does not fix     *)
(* that order).                                                            *)
Schedule ==
  /\ phase \in {"wb", "mmu"} /\ status = "idle" /\ tid < MaxThreads
  /\ status' = "executing"
  /\ tid' = tid + 1
  /\ mmu' = SetTid(mmu, tid + 1)
  /\ fetchEnd' = N
  /\ UNCHANGED << mem, lsq, slots, stage, phase, exc, owner, registered, flushReq, wrong >>

(* The packets MMU::tick may send, in the order it sends them: under     *)
(* Exclusive the bucket it serves, otherwise stores and then loads.        *)
SendOrder(m) ==
  LET b == IF Exclusive THEN (IF m.st /= << >> THEN m.st ELSE m.ld) ELSE m.st \o m.ld
  IN  FlattenSeq([j \in DOMAIN b |-> b[j].pkts])

(* The MMU's tick, the page table answering translate_ per packet: only   *)
(* a packet at an address of FaultAddrs may get a data abort.              *)
CoreTickMMU ==
  /\ phase = "mmu"
  /\ LET ord == SendOrder(mmu)
     IN  \E tr \in [1 .. Len(ord) -> Translations] :
           /\ \A k \in DOMAIN ord : tr[k] = "ABORT" => ord[k].vaddr \in FaultAddrs
           /\ mmu' = MMUTick(mmu, tr)
  /\ phase' = "mem"
  /\ UNCHANGED << mem, lsq, slots, stage, exc, ctl >>

CoreNext ==
  \/ TickWriteback \/ SwitchToIdle \/ IdleTick \/ ProcessTick \/ IssueFetched
  \/ Interrupt \/ Schedule \/ CoreTickLSQ \/ CoreTickMMU \/ ExecuteBranch
  \/ (ExecuteStore \/ ExecuteLoad \/ EndUnits
      \/ ServeMemory \/ EndCycle) /\ UNCHANGED ctl

CoreSpec == CoreInit /\ [][CoreNext]_cvars

-----------------------------------------------------------------------------
CoreTypeOK ==
  /\ TypeOK
  /\ status \in {"executing", "switching", "idle", "halted"}
  /\ registered \in BOOLEAN
  /\ tid \in 1 .. MaxThreads
  /\ owner \in [Ids -> 0 .. MaxThreads]
  /\ fetchEnd \in 0 .. N
  /\ flushReq \subseteq Ids

(* Thread isolation: every packet the MMU sends to memory was translated *)
(* by the page table of the thread that issued its instruction.  The MMU  *)
(* translates with its tid_ when it sends a packet, ticks after the core, *)
(* and schedule() changes tid_; so the switch must not let any request of *)
(* the outgoing thread outlive it, in the MMU or in the LSQ.               *)
ThreadIsolation ==
  \A k \in DOMAIN mmu.port : ~mmu.port[k].ignored => mmu.port[k].tid = owner[mmu.port[k].seq]

(* Precise exceptions: while an exception is registered, every           *)
(* instruction older than the one that raised it has retired, and none    *)
(* younger has: each is still to be fetched or was flushed.  It takes the *)
(* writeback loop's order (store slots before LSQ slots, one next-to-     *)
(* retire check per head), raiseException's choice of the older, the      *)
(* handling test and the full flush of handleException to keep it.        *)
ExceptionPrecise ==
  registered =>
    \A j \in Ids : /\ j < exc => stage[j] \in {"retired", "flushed"}
                  /\ j > exc => stage[j] \in {"wait", "flushed"}

(* No wrong-path instruction retires: whatever was issued behind a branch *)
(* that executed mispredicted is flushed before it can be written back.   *)
(* It takes flushIfNeeded's choice of the oldest request, the flush of    *)
(* staging_ and of the units, and the order of the end of Core::tick      *)
(* (an exception handled instead of the flush flushes even more).         *)
WrongPathNeverRetires == \A j \in wrong : stage[j] /= "retired"

(* Whether the MMU's buckets hold a request of instruction j.             *)
InMMU(m, j) == \E e \in Range(m.ld) \cup Range(m.st) : e.seq = j

(* A flushed instruction never gets a new request into the MMU: the flush *)
(* of handleException and the LSQ's purgeFlushed must leave nothing of it *)
(* in the LSQ that its tick would still send (spec 4.8 purgeFlushed, P7). *)
FlushedNeverRequested ==
  [][\A j \in Ids : stage[j] = "flushed" /\ InMMU(mmu', j) => InMMU(mmu, j)]_cvars

=============================================================================
