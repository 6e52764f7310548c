------------------------- MODULE InOrderRetirement -------------------------
(***************************************************************************)
(* What an out-of-order core promises (spec section 5, "strict program-    *)
(* order retirement", and properties P1 and P3): instructions retire in    *)
(* program order, and after the first pc of them retire, every            *)
(* architectural register holds the value of its last writer among them.  *)
(* The value an instruction writes is named by its program counter; 0 is  *)
(* a register's initial value.                                             *)
(***************************************************************************)
EXTENDS Naturals, FiniteSetsExt

CONSTANTS
  Prog,       \* pc -> [dst |-> architectural register or 0, srcs, grp, br]
  ArchRegs

VARIABLES pc, arch

N == Cardinality(DOMAIN Prog)

(* The last instruction among the first k to write r, or 0.                *)
LastWriter(k, r) ==
  LET w == {j \in 1 .. k : Prog[j].dst = r}
  IN  IF w = {} THEN 0 ELSE Max(w)

ArchAfter(k) == [r \in ArchRegs |-> LastWriter(k, r)]

Init == pc = 0 /\ arch = ArchAfter(0)

(* One step retires the next instructions, one or more, in program order. *)
Retire ==
  /\ pc < N
  /\ \E n \in pc + 1 .. N : pc' = n /\ arch' = ArchAfter(n)

Spec == Init /\ [][Retire]_<< pc, arch >> /\ WF_<< pc, arch >>(Retire)

=============================================================================
