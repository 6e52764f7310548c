----------------------------- MODULE MemPacket -----------------------------
(***************************************************************************)
(* How the MMU cuts one memory access target {vaddr, size} into MemPackets *)
(* that never cross a cache line (MMU::isAligned,                          *)
(* MMU::createReadMemPackets, MMU::createWriteMemPackets).  A packet is    *)
(* the record [vaddr, size, split]; the payload slice of a write packet is *)
(* taken by the caller from the packet's offset in the target.            *)
(***************************************************************************)
EXTENDS Naturals, Sequences, FiniteSets

CONSTANT CacheLineWidth   \* Memory-Hierarchy.Cache-Line-Width, in bytes

ASSUME CacheLineWidth \in Nat \ {0}

(* downAlign(addr, width): the start of the cache line holding addr.       *)
DownAlign(addr) == addr - (addr % CacheLineWidth)

(* A target is aligned when its first and its last byte lie in one line;   *)
(* the last byte is vaddr + size - 1, not vaddr + size.                    *)
IsAligned(t) == DownAlign(t.vaddr) = DownAlign(t.vaddr + t.size - 1)

(* Mutant: regSize is the rest of the line, not clamped to what remains. *)
RECURSIVE SplitFromNoClamp(_, _, _)
SplitFromNoClamp(nextAddr, remSize, nextSplitId) ==
  IF remSize <= 0 THEN << >>
  ELSE LET regSize == (DownAlign(nextAddr) + CacheLineWidth) - nextAddr
       IN  << [vaddr |-> nextAddr, size |-> regSize, split |-> nextSplitId] >>
           \o SplitFromNoClamp(nextAddr + regSize, remSize - regSize, nextSplitId + 1)

(* The split loop of createReadMemPackets: regSize is the rest of the     *)
(* current line, or what remains of the target if that is less.           *)
RECURSIVE SplitFrom(_, _, _)
SplitFrom(nextAddr, remSize, nextSplitId) ==
  IF remSize = 0 THEN << >>
  ELSE LET lineRest == (DownAlign(nextAddr) + CacheLineWidth) - nextAddr
           regSize  == IF lineRest < remSize THEN lineRest ELSE remSize
       IN  << [vaddr |-> nextAddr, size |-> regSize, split |-> nextSplitId] >>
           \o SplitFrom(nextAddr + regSize, remSize - regSize, nextSplitId + 1)

(* The packets created for one target, in packetSplitId order.            *)
CreateMemPackets(t) ==
  IF IsAligned(t) THEN << [vaddr |-> t.vaddr, size |-> t.size, split |-> 0] >>
  ELSE SplitFrom(t.vaddr, t.size, 0)

(* Reference: one packet per cache line the target touches, in address    *)
(* order, each the intersection of the target with that line.             *)
LinesTouched(tg) == { l \in DownAlign(tg.vaddr) .. DownAlign(tg.vaddr + tg.size - 1) :
                 l % CacheLineWidth = 0 }
LineOrder(tg) == [k \in 1 .. Cardinality(LinesTouched(tg)) |-> DownAlign(tg.vaddr) + (k - 1) * CacheLineWidth]
ReferenceSplit(tg) ==
  LET lo(l) == IF l < tg.vaddr THEN tg.vaddr ELSE l
      hi(l) == IF l + CacheLineWidth < tg.vaddr + tg.size
               THEN l + CacheLineWidth ELSE tg.vaddr + tg.size
  IN [k \in DOMAIN LineOrder(tg) |->
        [vaddr |-> lo(LineOrder(tg)[k]), size |-> hi(LineOrder(tg)[k]) - lo(LineOrder(tg)[k]),
         split |-> k - 1]]

(* The payload slice of a split write packet p of target t: the bytes of  *)
(* data from p's offset in t (createWriteMemPackets' remData slicing).    *)
PayloadSlice(t, data, p) ==
  SubSeq(data, p.vaddr - t.vaddr + 1, p.vaddr - t.vaddr + p.size)

=============================================================================
