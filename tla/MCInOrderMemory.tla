-------------------------- MODULE MCInOrderMemory --------------------------
(***************************************************************************)
(* Programs for the in-order memory path.                                  *)
(***************************************************************************)
EXTENDS InOrderMemory

(* A store split across the line at 4, then a load of its second half,    *)
(* then a load of other bytes.                                             *)
MCProg ==
  (1 :> [op |-> "ST", vaddr |-> 2, size |-> 4]) @@
  (2 :> [op |-> "LD", vaddr |-> 4, size |-> 2]) @@
  (3 :> [op |-> "LD", vaddr |-> 0, size |-> 2])

=============================================================================
