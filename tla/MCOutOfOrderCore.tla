------------------------- MODULE MCOutOfOrderCore -------------------------
(***************************************************************************)
(* A multiply; a branch on its result, which may mispredict; two adds    *)
(* that take the multiply's result three cycles late, the first writing  *)
(* register 2; and a second branch, on both adds, that also writes        *)
(* register 2 (a branch-and-link), reading the adds' results from the     *)
(* register file only (no forwarding).  A misprediction of the first      *)
(* branch rewinds two renames of register 2.  Port 1 executes adds and    *)
(* branches, port 2 adds and multiplies, each port with its own           *)
(* reservation station.                                                   *)
(***************************************************************************)
EXTENDS OutOfOrderCore

MCProg ==
  (1 :> [dst |-> 1, srcs |-> << 2 >>, grp |-> "M", br |-> FALSE]) @@
  (2 :> [dst |-> 0, srcs |-> << 1 >>, grp |-> "B", br |-> TRUE]) @@
  (3 :> [dst |-> 2, srcs |-> << 1 >>, grp |-> "A", br |-> FALSE]) @@
  (4 :> [dst |-> 1, srcs |-> << 1 >>, grp |-> "A", br |-> FALSE]) @@
  (5 :> [dst |-> 2, srcs |-> << 2, 1 >>, grp |-> "B", br |-> TRUE])

MCPortRS == (1 :> 1) @@ (2 :> 2)
MCRSCapacity == (1 :> 2) @@ (2 :> 2)
MCSupportedPorts == ("A" :> {1, 2}) @@ ("M" :> {2}) @@ ("B" :> {1})
MCLatency == ("A" :> 1) @@ ("M" :> 2) @@ ("B" :> 1)

(* canForward: a multiply's result reaches an add three cycles late; an     *)
(* add's result may not be forwarded to a branch.                          *)
MCFwdLatency ==
  ("M" :> (("A" :> 3) @@ ("M" :> 1) @@ ("B" :> 0))) @@
  ("A" :> (("A" :> 0) @@ ("M" :> 0) @@ ("B" :> -1))) @@
  ("B" :> (("A" :> 0) @@ ("M" :> 0) @@ ("B" :> 0)))

=============================================================================
