# TLA+ models of the SimEng pipeline

These TLA+ modules model two parts of the SimEng cycle-level simulator. The first is the memory path: the MMU, the load/store queue, and the in-order core that drives them. The second is the out-of-order back end: both versions of the dispatch/issue unit, the reorder buffer, and the register alias table, inside a core that runs them. The TLC configurations check these models. Every definition is translated from the C++ under `src/`. `PROJECT.json` maps each definition to the lines it models. Some code is not under `src/`: the memory backend, the out-of-order `Core`, rename and the RAT, the execution and writeback units, and `Instruction`. Definitions for these are modelled from `spec.md` and marked `spec_modelled`.

## The system and how its parts interact

| Part | Source | Role |
|---|---|---|
| MMU | `src/lib/memory/MMU.cc`, `MemPacket.cc` | Accepts read and write requests from the LSQ, splits each target into one packet per cache line, and sends packets each tick within a per-type bandwidth. Translation returns OK, a data abort, pending or ignored. It counts the outstanding packets (`pendingDataRequests_`), reassembles split reads, and supplies the data to the load. Stores are set ready to commit when their last packet is sent. |
| LoadStoreQueue | `src/lib/pipeline/LoadStoreQueue.cc` | Loads and stores in program order. `startLoad` reserves a completion entry (INORDER), checks for older overlapping stores, and either waits on one or schedules a request. `startStore` schedules the write. `commitStore` looks for violating loads and releases the loads waiting on the store. `tick` sends due requests to the MMU, executes loads whose data arrived, and drains completions into the completion slots. |
| In-order Core | `src/lib/models/inorder/Core.cc` | Each cycle: writeback, then the execution units (which call `startLoad` and `supplyStoreData`), then `loadStoreQueue_.tick()`, then the buffers tick, then a generated exception is handled once it is the next to retire. `retireInstruction` calls `commitLoad`, or `startStore` followed by `commitStore`, or `raiseException` for an instruction that encountered one. `handleException` registers the exception, flushes every younger instruction (staging, units, `purgeFlushed`, `fill` of the buffers); `processException` waits, on later ticks, until the MMU has nothing pending and the handler has finished, and then halts, goes idle or resumes. `interrupt()` sets the core switching; the switching core goes idle once drained; `schedule()` sets the next thread's TID in the MMU. |
| PipelineBuffer | `src/include/simeng/pipeline/PipelineBuffer.hh` | The completion slots: width-1 buffers with a head, a tail, a stall flag and `fill`. |
| Memory backend | not in `src/` (spec) | Answers packets. The simulation loop ticks the MMU after the core. |
| DispatchIssueUnit (lib) | `src/lib/pipeline/DispatchIssueUnit.cc` | The scoreboard and the dependency matrix. Reservation stations have per-port ready queues, a capacity and a per-cycle dispatch rate. `tick` runs timed wake-ups (`due == ticks_`), then the scan of the "no forwarding" dependants, then dispatch. `issue` pops one uop per free port. `forwardOperands` gives each dependant its value now (latency 0), later (latency > 0) or never (latency -1). `purgeFlushed` searches the ready queues and the dependency matrix. |
| DispatchIssueUnit (outoforder) | `src/outoforder/DispatchIssueUnit.cc` | The older version: one reservation station list, and `readyCount`, the number of entries the issue walk expects to find ready. |
| ReorderBuffer | `src/outoforder/ReorderBuffer.cc` | `reserve` gives out sequence ids. `commit` retires commit-ready uops from the head and releases replaced tags in the RAT. `flush` pops younger uops from the tail and rewinds the RAT, youngest first. |
| RAT, rename, execution, writeback, OOO core | not in `src/` (spec 4.2, 4.3, 4.5, 4.6, 5) | Rename maps architectural registers onto physical tags. Writeback writes the register file and forwards results to the dispatch/issue unit. The core ticks the units in the order wb, rn, dis, ex, is, then commits and flushes after a mispredicted branch. |

## Modules

| Module | Models | State and actions |
|---|---|---|
| `MemPacket` | `MMU::isAligned`, `createReadMemPackets`, `createWriteMemPackets` | Pure operators. `SplitFrom` (RECURSIVE) is the split loop. |
| `MMU` | `MMU.cc` | `mmu` is a record with these fields: the two buckets `ld` and `st` (instructions, each with its packet list), `reqLoads` and `reqStores` (packets still expected per instruction), `responses`, `pending`, `parked` (pending translations), `port` (packets in flight), `data` (what was supplied to each load) and `ready` (stores set commit-ready). `mem` maps each byte to `[a, w]` (its address and the store that last wrote it), which lets properties check both reassembly and memory order. The module has one operator per MMU method: `RequestRead`, `RequestWrite`, `IssueRequest`, `ProcessRequests` (RECURSIVE, with the bandwidth loop and an early return), `MMUTick`, `Receive` (the port receiver), `SupplyLoadInsnData` and `SupplyDelayedTranslation`. |
| `MCMMU` | MMU alone | Actions: a client that requests each of three accesses once (`ClientRead`, `ClientWrite`), `Tick`, a memory that answers packets in any order (`Serve`), and a page table that resolves pending translations (`Translate`). |
| `LoadStoreQueue` | `LoadStoreQueue.cc` (split queues, INORDER) | The record `l` holds `loadQ`, `storeQ`, `conflict` (conflictionMap_), `reqLdQ` and `reqStQ` (request maps ordered by due tick), `requested`, `executed`, `completed` and `tick`. Operators: `StartLoad`, `StartStore`, `CommitStore`, `CommitLoad`, `PurgeFlushed`, and `LSQTick`, which is built from `Dispatch`, `ExecuteLoads` and `Drain` (the drain pops flushed completions). |
| `InOrderMemory` | `Core::tick`, `retireInstruction` | Composes the LSQ, the MMU, the completion slots and memory. One cycle is the phases `wb -> eu -> lsq -> mmu -> mem`, in the order `Core::tick` and the simulation loop call them. The actions are `Writeback`, `Issue`, `ExecuteStore`, `ExecuteLoad`, `EndUnits`, `TickLSQ`, `TickMMU`, `ServeMemory` and `EndCycle`. `ServeMemory` answers any packet in flight, as spec 6 lets the memory interface reorder requests of distinct seqIds; with the constant `InOrderBackend` it answers only the oldest, a FIFO backend. `stage[i]` follows each instruction from `wait` to `retired` or `flushed`; `exc` is `exceptionGeneratingInstruction_` (0 when none is generated). A load whose packet aborted retires through `RaiseException`. |
| `InOrderCore` | `Core::tick`, exceptions, `interrupt`, `schedule` | Extends `InOrderMemory` with `status` (executing, switching, idle, halted), `tid`, `owner` (the thread that issued each instruction), `fetchEnd` (fetch paused by `interrupt`) and `registered` (`exceptionRegistered_`). `CoreTickLSQ` is the LSQ tick, the buffer ticks and `HandleException`; `ProcessTick` is the registered path of `Core::tick`; `ProcessException` chooses the handler's result from `HandlerResults`. `CoreTickMMU` translates each packet with the MMU's TID, and a packet aborts exactly when its address is in `FaultAddrs`. `SwitchToIdle`, `IdleTick`, `Interrupt` and `Schedule` are the context switch. `ExecuteBranch` executes a branch that the predictor may have mispredicted, recording its flush request in `flushReq` and the instructions issued behind it in the history variable `wrong`; `FlushIfNeeded` (in `CoreTickLSQ`, when no exception is handled) flushes behind the oldest request (`BranchFlushing`), purges the LSQ and clears flushed entries from the completion slots (`ClearFlushed`). |
| `MCInOrderMemory` | instance | A store that crosses a cache line, followed by two loads. |
| `MCInOrderCore` | instance | `MCFaultingLoad`: a load of bytes 6-7 whose page may fault, a branch that may be mispredicted, a load of bytes 0-1, a store across the line at 4, and a load of its second half. `MCTwoStores` (the switch run): two stores and a load. `SplitMatchesReference` checks `MemPacket`'s split against a reference over every target up to 9 bytes at addresses 0..23. |
| `RegisterAliasTable` | spec 4.2 (spec_modelled) | The record `rat` has four fields: `map` (architectural register to tag), `free` (a FIFO), `hist` (the tag each rename replaced) and `dest`. Operators: `Allocate`, `RATCommit`, `Rewind`. |
| `DispatchIssueUnit` | lib `DispatchIssueUnit.cc` | The record `d` has these fields: `sb`, `dm`, `ready` (per port), `size` (per station), `waiting` (`[due, e, v]`), `dependant`, `ticks`, `dispatches` and `alloc` (the port allocator's counts). The operators take and return `c = [d, ins]`, where `ins` is the uop table. They are `WakeUps`, `ScanDependants`, `DispatchUop`, `DispatchSlots` (RECURSIVE, with the stall return), `DIUTick`, `Issue`, `ForwardOperands` (a fold with the three latency cases) and `PurgeFlushed` (with the `flushed_` dedup). |
| `ReorderBuffer` | `outoforder/ReorderBuffer.cc` | The record `rob` has the fields `buf`, `seqId`, `shouldFlush` and `committed`. `Reserve`, `Commit`/`CommitFrom` and `Flush` are RECURSIVE loops over `r = [rob, rat, ins]`. |
| `InOrderRetirement` | spec 5, P1, P3 | The abstract specification. `pc` counts retired instructions. `arch` maps each architectural register to its last writer among them. `Retire` advances `pc` by one or more instructions. |
| `OutOfOrderCore` | OOO core (spec 5) | Composes rename, the lib DIU, execution units with latencies, writeback, the ROB and the RAT. Its actions are `Writeback`, `Rename`, `Dispatch` (the port allocator is a nondeterministic choice over `SupportedPorts`), `Execute` (a completing branch may mispredict), `IssueUops`, `EndCycle`, `EndCycleFlush` and `Terminated`. Values are named by the writer's pc. `ArchState` reads the committed tag of each register. The refinement mapping is `Abs == INSTANCE InOrderRetirement WITH pc <- rob.committed, arch <- ArchState`. |
| `MCOutOfOrderCore` | instance | A multiply, a branch on it, two adds that receive the multiply's result 3 cycles late, and a second branch on both adds with forwarding disallowed. There are two ports, each with its own reservation station. |
| `OoODispatchIssueUnit` | outoforder `DispatchIssueUnit.cc` | The record `d` has the fields `rs`, `rc` (readyCount), `sb`, `dm` and `alloc`. The operators are `DispatchUop`, `Tick` (RECURSIVE, with the full-station return), `IssueLoop` (RECURSIVE, the busy-port walk), `Issue`, `ForwardOperands` and `PurgeFlushed`. Values are abstracted: `ins[u].sup` is the set of supplied operands. |
| `OoOLegacyCore` / `MCOoOLegacyCore` | OOO core (spec 5) around the older unit | The same cycle, with physical tags fixed per pc. The program has a multiply, two mispredictable branches, a dependent add, and two always-ready adds. |

Abstractions:
- Each instruction has a single access target.
- Payload bytes are `[a, w]` records, not values.
- The execution-unit latency is nondeterministic. The constant `EUInOrder` makes loads and stores generate their addresses in program order (they share one latency). A branch may finish before or after them.
- Store address and store data are one step (`ExecuteStore`).
- Only memory faults raise exceptions in the in-order model. After a non-fatal result the core carries on with the instructions not yet issued; the refetch from the handler's PC is not modelled.
- In the OOO models, no instruction is a memory op or raises an exception. The ROB's store/load commit path and the DIU's exception path at dispatch are therefore outside the model. There is one register type.
- Fetch is in order from `fetchPC`. A misprediction refetches from the instruction after the branch, with new sequence ids.

## Runs

| Run | Expect | What it shows |
|---|---|---|
| `mmu_accounting` | pass | The memory answers in any order, and data aborts and pending translations occur. Under these conditions, `pendingDataRequests_` always equals the packets in the buckets, parked and in flight (`PendingAccounting`). Split loads are reassembled at the right addresses (`LoadGetsItsBytes`). Every accepted request is eventually answered (`EveryRequestAnswered`), assuming weak fairness of tick, memory and page table. |
| `inorder_core` | pass | The in-order core with two threads, context switches, and a load whose page faults, a branch that may be mispredicted and may finish after the loads behind it, under every handler result (fatal, resume, idle). The memory may answer packets of distinct requests in any order. The completion slot never wedges (`NoCompletionWedge`); a core never goes idle with a request of its thread still to be translated (`ThreadIsolation`); nothing issued behind a mispredicted branch ever retires (`WrongPathNeverRetires`); once an exception is registered every older instruction has retired and every younger one is flushed or never issued (`ExceptionPrecise`); a flushed load never sends a new request to the MMU (`FlushedNeverRequested`); and the split matches its reference, with the packets still in a bucket always the last ones of it (`SplitMatchesReference`). Halting, idling and resuming after the exception, waiting on pending MMU requests, and a fully retired program are all reachable. |
| `inorder_early_load` | violation | F1: a load whose address is generated before an older store's address retires stale data. `commitStore` detects this, but `retireInstruction` drops the result. |
| `inorder_store_overtaken` | violation | F2: in non-exclusive mode, a younger load is sent while the second half of a split store still waits for bandwidth. |
| `inorder_store_reordered` | violation | F5: with an exclusive MMU and every instruction in order, the memory answers a younger load's packet before the write of the store the load waited on. `processRequests` counts the store as committed once its packet is sent, and spec 6 lets the memory reorder requests of distinct seqIds. With a FIFO backend (`InOrderBackend = TRUE`) this does not happen. `MemoryOrder` therefore holds only for a backend the interface contract does not promise, and the passing core run does not check it. |
| `inorder_completion_wedge` | violation | F3: INORDER completion order follows `startLoad` order. With one LSQ completion slot, a younger load holds the slot forever. |
| `ooo_core` | pass | Five properties hold across every port choice and misprediction (up to 2 flushes):<br>• every operand supplied to a live uop is its program-order value (`OperandsCorrect`);<br>• the physical tags stay partitioned into free, committed and in-flight (`TagsPartitioned`, spec P2/P7), including after a flush that rewinds two renames of one register, where only the youngest-first order of `flush` restores the mapping;<br>• station entries and port allocations are all given back when the core halts (`NoReservationLeak`);<br>• `TypeOK` catches a counter underflow;<br>• the core refines `InOrderRetirement` (`Refinement`), including that the whole program retires. |
| `ooo_flushed_ready` | violation | F6: a wake-up scheduled before a flush fires after it. It pushes a flushed uop onto a ready queue, because `purgeFlushed` never searches `waitingInstructions_`. |
| `legacy_diu` | pass | In the older unit, `readyCount` never falls short of the ready entries (`ReadyCountCovers`). Every port allocation is given back exactly once (`PortsBalanced`). The program always drains (`ProgramCompletes`). |
| `legacy_ready_count` | violation | F7: flushed uops stay in the dependency matrix. A later forward counts them, so `readyCount` exceeds the ready entries. |
| `inorder_switch_tid` | violation | F8: a retired store the MMU refused is still in the LSQ's request queue when the switching core goes idle, and is translated with the next thread's TID. |
| `inorder_store_abort` | violation | F9: a store's page faults after it retired; the MMU records only a failed conditional-store result, no exception is raised, and a younger load reads the bytes from before the store. |

Each property of a passing run has a mutant in `PROJECT.json`: a plausible bug in the mapped code that TLC detects. purgeFlushed without the `flushed_` dedup, dispatch that leaves its destination ready, a flush that rewinds the RAT oldest first, commit that ignores commit-readiness, a station-full test one entry late, forwarding that does not count newly ready uops, the pending count decremented after the store lookup, split responses merged in reverse order, a strict bandwidth test, a branch flush that leaves the completion slots alone, a branch flush that keeps instructions waiting in a completion slot, an exception flush that keeps executed instructions, a drain test that ignores the MMU, and a `purgeFlushed` that leaves loads in the request queue.

## Bounds

- **MMU runs.** Three accesses cover a split load, a split store overlapping it, and an aligned load. This is enough for cross-line reassembly, a store between the halves of a load, both limits reached (StoreRequestLimit 1, RequestLimit 2), and every translation outcome.
- **In-order runs.** Five instructions: a faulting load; a branch; a free load right behind the branch, so that it can reach its completion slot before a slow branch executes; a split store; and a load that overlaps the store's second half, so that it waits on the store. Load queue 3 lets all three loads be in flight when an exception or a flush is handled. LSQ latency 2 leaves a younger load's request in `requestLoadQueue_` at that moment. Two threads let the core switch and schedule again. The run is cut at `MaxTick = 10` cycles, which is enough for the whole program to retire under every latency choice. It reaches about 426,000 states with the reordering backend. The violation runs other than `inorder_store_reordered` keep the FIFO backend, so that each shows its own cause and not the reordering. A second branch, which would let two flush requests meet in one tick, takes the run to 1.4 million states, so it is left out (hazard Core.cc:169). The store-abort run moves the fault to the store's bytes 4-5.
- **OOO core.** The program has 5 instructions, 2 architectural registers and 6 tags; ROB 5; stations of 2; width 2; at most 2 flushes; 40 cycles. Under these bounds:
  - the ROB and the free list both fill, and both stations stall;
  - a flushed uop waits on two unproduced tags, so the `flushed_` dedup matters;
  - latency 0, -1 and 3 forwards all occur, and a tag is freed and reused after a flush;
  - the first add and the second branch (a branch-and-link) both rename register 2, so a misprediction of the first branch rewinds two renames of one register.

  Every behaviour halts well before 40 cycles (depth 85 steps ≈ 14 cycles), and the run checks deadlock.
- **Older unit.** The program has 6 uops, station size 3 and width 2. These bounds let the station fill, let a ready uop wait behind a busy multiply, and let both branches flush. 
- **Deadlock checking.** The in-order runs set `CHECK_DEADLOCK FALSE` only because `EndCycle` stops at that horizon. The core's tick loop itself never blocks, so a hang in the real code shows up as a stuck state. `NoCompletionWedge` states that as an invariant.

## Fairness

Fairness in `MCMMU`, for `EveryRequestAnswered`:
- weak fairness of `Tick`, because the core ticks the MMU every cycle;
- weak fairness of `Serve`, because the memory answers every packet;
- weak fairness of `Translate`, because the page table resolves every translation it reported as pending.

The client gets no fairness, so the property is conditioned on acceptance.

`OutOfOrderCore` and `OoOLegacyCore` assume `WF_vars(Next)`. The core's tick loop runs every cycle until the core halts, and each cycle is a fixed sequence of phases, so exactly one action is enabled at a time. `Refinement` and `ProgramCompletes` use this fairness, and so does the weak fairness of `Retire` in `InOrderRetirement`.

## Not modelled yet, and the plan

- **MMU:** instruction reads, the untimed write, atomics and LR/SC, multi-target instructions, and the uint16 truncation of `regSize`/`totalReqs`, which needs a line width of 2^16 or more.
  - `supplyDelayedTranslation` re-issues the parked packets and then erases the vaddr's entry, so a packet that went PENDING again inside the loop would be erased with it. The model follows that order. Its page table never answers PENDING for a translation it has just supplied, so this case does not occur.
  - An IGNORED data read is supplied `mergedSize` bytes from an empty payload (hazard MMU.cc:447). TLC showed this with IGNORED among the translations; no run keeps that configuration.
  - A Load-Bandwidth narrower than the line width blocks a packet forever (hazard MMU.cc:74). TLC showed this with a 2-byte Load-Bandwidth. No run keeps that configuration now.
- **LSQ:** OUTOFORDER completion, the combined queue, and conditional stores.
- **In-order core:** the memory-order-violation flush of `flushIfNeeded` (its trigger `activeStore_` is never set), the decode-stage flush (the decode unit is not under `src/`), `applyStateChange` and `getCurrentContext` (register values are abstracted away), syscall and other instruction exceptions, fetch and decode. The cancelling of an exception raised by a flushed instruction (Core.cc:217) cannot occur in this core: an exception is raised at retirement and handled in the same tick, before any flush.
  - After a non-fatal exception on a load, the faulting load stays in `loadQueue_` and the next `commitLoad` finds the wrong load at the front. TLC showed this; no run keeps the check (hazard Core.cc:397).
  - With two LSQ completion slots, a load younger than an excepting load can retire in the same writeback pass (hazard LoadStoreQueue.cc:519).
- **Older DIU issue walk:** a ready uop on a busy port uses up `readyRemaining` without the walk advancing, so a younger ready uop on a free port waits a cycle (spec 4.4 says it issues). TLC showed this; it costs bandwidth only, and `ProgramCompletes` shows the walk never strands a uop.
- **OOO back end:**
  - memory ops through the LSQ, with the ROB's store-violation flush;
  - exceptions;
  - more than one register type.
- **Forwarding latencies:** the lib DIU treats only -1 as "no forwarding", while spec 4.4 says every L < 0. With -2, TLC showed the program never retiring. `canForward` is not in `src/`, so no run keeps that configuration (hazard DispatchIssueUnit.cc:67).
- **Other parts:** the RISC-V decoder, the configuration and the header-only classes are listed as not modelled in `PROJECT.json`, with reasons.
