--------------------------- MODULE MCOoOLegacyCore ---------------------------
(***************************************************************************)
(* A multiply into tag 3; a branch; an add of tag 3 into tag 4; a branch  *)
(* and link on tag 4 into tag 1; two adds of nothing (always ready).       *)
(* Either branch may mispredict.  Port 1 executes adds and                 *)
(* branches, port 2 adds and multiplies.                                   *)
(***************************************************************************)
EXTENDS OoOLegacyCore

MCProg ==
  << [srcs |-> << 1 >>, dst |-> 3, grp |-> "M", br |-> FALSE],
     [srcs |-> << 2 >>, dst |-> 0, grp |-> "B", br |-> TRUE],
     [srcs |-> << 3 >>, dst |-> 4, grp |-> "A", br |-> FALSE],
     [srcs |-> << 4 >>, dst |-> 1, grp |-> "B", br |-> TRUE],
     [srcs |-> << >>,   dst |-> 2, grp |-> "A", br |-> FALSE],
     [srcs |-> << >>,   dst |-> 0, grp |-> "A", br |-> FALSE] >>

MCSupportedPorts == ("A" :> {1, 2}) @@ ("M" :> {2}) @@ ("B" :> {1})

MCLatency == ("A" :> 1) @@ ("M" :> 3) @@ ("B" :> 1)

=============================================================================
