----------------------------- MODULE MCPipeline -----------------------------
(***************************************************************************)
(* Graphs for model checking Pipeline.                                     *)
(***************************************************************************)
EXTENDS Pipeline, TLC

\* source -> {left, right} -> sink: a fork and a join
DiamondModules == {"src", "b", "c", "d"}
DiamondNext == [m \in DiamondModules |->
  CASE m = "src" -> {"b", "c"} [] m \in {"b", "c"} -> {"d"} [] OTHER -> {}]
DiamondWidth == [m \in DiamondModules |-> 1]

\* source -> b -> c
ChainModules == {"src", "b", "c"}
ChainNext == [m \in ChainModules |->
  CASE m = "src" -> {"b"} [] m = "b" -> {"c"} [] OTHER -> {}]
ChainWidth == [m \in ChainModules |-> 1]

\* two sources; b (two conveyors) is reached from both, c only from the first
ForkModules == {"src1", "src2", "b", "c"}
ForkNext == [m \in ForkModules |->
  CASE m = "src1" -> {"b", "c"} [] m = "src2" -> {"b"} [] OTHER -> {}]
ForkWidth == [m \in ForkModules |-> IF m = "b" THEN 2 ELSE 1]
ForkCapacity == [m \in ForkModules |-> 1]
ForkStreams == {"s1", "s2"}
ForkSource == [s \in ForkStreams |-> IF s = "s1" THEN "src1" ELSE "src2"]
ForkIndex == [s \in ForkStreams |-> IF s = "s1" THEN 0 ELSE 1]

OneStream == {"s1"}
OneSource == [s \in OneStream |-> "src"]
OneIndex == [s \in OneStream |-> 3]
=============================================================================
