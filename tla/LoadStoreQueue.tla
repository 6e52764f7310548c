--------------------------- MODULE LoadStoreQueue ---------------------------
(***************************************************************************)
(* The load/store queue of src/lib/pipeline/LoadStoreQueue.cc, in the      *)
(* split-queue, INORDER-completion configuration the in-order core builds. *)
(* Its state is the record l:                                              *)
(*   loadQ, storeQ   loadQueue_ / storeQueue_ (sequence ids, program order) *)
(*   conflict        conflictionMap_: per store, the loads held back on it  *)
(*   reqLdQ, reqStQ  requestLoadQueue_ / requestStoreQueue_: [due, seq]    *)
(*                   entries, ordered by due tick, then by insertion        *)
(*   requested       the keys of requestedLoads_                            *)
(*   executed        the loads that have executed (hasExecuted)             *)
(*   value           what each load executed on                             *)
(*   completed       completedRequests_                                     *)
(*   tick            tickCounter_                                           *)
(*   violating       violatingLoad_ (0 = nullptr)                           *)
(* Every instruction has one access target, Prog[i].  A completion slot is *)
(* a width-1 PipelineBuffer [head, tail, stalled] (0 = nullptr).           *)
(***************************************************************************)
EXTENDS MMU

CONSTANTS
  Prog,             \* seq id -> [op |-> "LD" | "ST", vaddr, size] or [op |-> "BR"]
  LSQLatency,       \* getLSQLatency() of every memory instruction
  LoadQueueSize,    \* Queue-Sizes.Load
  StoreQueueSize,   \* Queue-Sizes.Store
  CompletionWidth   \* Pipeline-Widths.LSQ-Completion

IsLoad(i) == Prog[i].op = "LD"
IsStore(i) == Prog[i].op = "ST"
IsBranch(i) == Prog[i].op = "BR"
Target(i) == [vaddr |-> Prog[i].vaddr, size |-> Prog[i].size]

LSQInit ==
  [loadQ |-> << >>, storeQ |-> << >>, conflict |-> [i \in Ids |-> << >>],
   reqLdQ |-> << >>, reqStQ |-> << >>, requested |-> {}, executed |-> {},
   value |-> [i \in Ids |-> NoData], completed |-> << >>, tick |-> 0,
   violating |-> 0]

(* requestsOverlap: neither region ends before the other begins.           *)
RequestsOverlap(a, b) == ~(a.vaddr + a.size <= b.vaddr \/ b.vaddr + b.size <= a.vaddr)

(* Add seq to the request map under key due: after every entry due no     *)
(* later (std::map order, then push_back order within a key).             *)
Enqueue(q, due, seq) ==
  InsertAt(q, Cardinality({j \in DOMAIN q : q[j].due <= due}) + 1, [due |-> due, seq |-> seq])

(* startLoad(insn).  INORDER: reserve the completedRequests_ entry first. *)
(* Then scan storeQueue_ from its back for an older store with generated  *)
(* addresses (gen) overlapping the load: the load waits on the first such *)
(* store found; otherwise it is requested LSQLatency ticks from now.       *)
StartLoad(l, i, gen) ==
  LET l1    == [l EXCEPT !.completed = Append(@, i)]
      older == SelectSeq(l.storeQ, LAMBDA s : s < i /\ s \in gen /\
                                             RequestsOverlap(Target(s), Target(i)))
  IN  IF older /= << >>
      THEN [l1 EXCEPT !.conflict[older[Len(older)]] = Append(@, i)]
      ELSE [l1 EXCEPT !.reqLdQ = Enqueue(@, l.tick + LSQLatency, i),
                      !.requested = @ \cup {i}]

(* startStore(uop): the data is supplied and the write requested now.     *)
StartStore(l, s) == [l EXCEPT !.reqStQ = Enqueue(@, l.tick, s)]

(* The oldest requested load, other than the store itself, overlapping    *)
(* the store: the violation scan of commitStore.                           *)
ViolatingLoad(l, s) ==
  LET v == {ld \in l.requested : ld /= s /\ RequestsOverlap(Target(s), Target(ld))}
  IN  IF v = {} THEN 0 ELSE Min(v)

(* commitStore(uop): the violation scan; the loads held back on this store *)
(* are requested 1 + LSQLatency ticks from now; the store leaves the queue. *)
CommitStore(l, s) ==
  LET held == l.conflict[s]
  IN  [l EXCEPT !.violating = ViolatingLoad(l, s),
                !.reqLdQ = FoldLeft(LAMBDA q, ld : Enqueue(q, l.tick + 1 + LSQLatency, ld), @, held),
                !.requested = @ \cup Range(held),
                !.conflict[s] = << >>,
                !.storeQ = Tail(@)]

(* commitLoad(uop): erase the front load and the requestedLoads_ entry of  *)
(* that front load (the assertion that it is uop is not compiled in).      *)
CommitLoad(l, i) == [l EXCEPT !.loadQ = Tail(@), !.requested = @ \ {Head(l.loadQ)}]

(* The send loop of tick(): take the earliest due request of the types    *)
(* whose limit has not been met, stores on a tie; stop when it is not due *)
(* yet.  A request the MMU refuses marks its type exceeded for the tick.   *)
RECURSIVE Dispatch(_, _, _, _)
Dispatch(l, m, exLd, exSt) ==
  LET canLd == l.reqLdQ /= << >> /\ ~exLd
      canSt == l.reqStQ /= << >> /\ ~exSt
      chooseLoad == canLd /\ ~(canSt /\ Head(l.reqLdQ).due >= Head(l.reqStQ).due)
      e == IF chooseLoad THEN Head(l.reqLdQ) ELSE Head(l.reqStQ)
  IN  CASE ~canLd /\ ~canSt -> [l |-> l, m |-> m]
        [] e.due > l.tick -> [l |-> l, m |-> m]
        [] chooseLoad /\ CanRequestRead(m) ->
             Dispatch([l EXCEPT !.reqLdQ = Tail(@)], RequestRead(m, e.seq, Target(e.seq)), exLd, exSt)
        [] chooseLoad -> Dispatch(l, m, TRUE, exSt)
        [] CanRequestWrite(m) ->
             Dispatch([l EXCEPT !.reqStQ = Tail(@)],
                      RequestWrite(m, e.seq, Target(e.seq), StoreData(e.seq, Target(e.seq))), exLd, exSt)
        [] OTHER -> Dispatch(l, m, exLd, TRUE)

(* Every requested load whose data the MMU has supplied executes.          *)
ExecuteLoads(l, m) ==
  LET done == {i \in l.requested : m.data[i].st /= "none" /\ i \notin l.executed}
  IN  [l EXCEPT !.executed = @ \cup done,
                !.value = [i \in Ids |-> IF i \in done THEN m.data[i] ELSE @[i]]]

(* The drain loop: completedRequests_ into the completion slots in order, *)
(* skipping a stalled slot, popping a flushed instruction (fl: the         *)
(* flushed ones), stopping at a load that has not executed.               *)
RECURSIVE Drain(_, _, _, _)
Drain(l, slots, count, fl) ==
  CASE l.completed = << >> \/ count > CompletionWidth -> [l |-> l, slots |-> slots]
    [] slots[count].stalled -> Drain(l, slots, count + 1, fl)
    [] Head(l.completed) \in fl -> Drain([l EXCEPT !.completed = Tail(@)], slots, count, fl)
    [] Head(l.completed) \notin l.executed -> [l |-> l, slots |-> slots]
    [] OTHER -> Drain([l EXCEPT !.completed = Tail(@)],
                      [slots EXCEPT ![count].tail = Head(l.completed)], count + 1, fl)

(* LoadStoreQueue::tick.                                                   *)
LSQTick(l, m, slots, fl) ==
  LET d == Dispatch([l EXCEPT !.tick = @ + 1], m, FALSE, FALSE)
      r == Drain(ExecuteLoads(d.l, d.m), slots, 1, fl)
  IN  [l |-> r.l, m |-> d.m, slots |-> r.slots]

(* Mutant: the purge leaves the loads waiting in the request map.          *)
PurgeFlushedKeepsRequests(l, fl) ==
  [l EXCEPT !.loadQ     = SelectSeq(@, LAMBDA i : i \notin fl),
            !.requested = @ \ fl,
            !.storeQ    = SelectSeq(@, LAMBDA s : s \notin fl),
            !.conflict  = [s \in Ids |-> IF s \in fl THEN << >>
                                         ELSE SelectSeq(@[s], LAMBDA i : i \notin fl)]]

(* purgeFlushed, fl the flushed instructions: erase them from loadQueue_   *)
(* with their requestedLoads_ entries and from storeQueue_, drop the       *)
(* conflictionMap_ entry of a flushed store, remove flushed loads from     *)
(* the other entries and from requestLoadQueue_.  requestStoreQueue_ holds *)
(* only retired stores and is left alone, as is completedRequests_ (the   *)
(* drain loop pops flushed entries).                                       *)
PurgeFlushed(l, fl) ==
  [l EXCEPT !.loadQ     = SelectSeq(@, LAMBDA i : i \notin fl),
            !.requested = @ \ fl,
            !.storeQ    = SelectSeq(@, LAMBDA s : s \notin fl),
            !.conflict  = [s \in Ids |-> IF s \in fl THEN << >>
                                         ELSE SelectSeq(@[s], LAMBDA i : i \notin fl)],
            !.reqLdQ    = SelectSeq(@, LAMBDA e : e.seq \notin fl)]

=============================================================================
