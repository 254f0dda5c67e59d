------------------------------ MODULE MCStartup ------------------------------
(* Instances of Startup for TLC. *)
EXTENDS Startup

CONSTANTS p1, p2, A, B

(* plugin.conf with two blocks ... *)
TwoBlocks == <<p1, p2>>

(* ... for one target or for two, whose names do not matter *)
One == [p \in Plugin |-> A]
Two == [p \in Plugin |-> IF p = p1 THEN A ELSE B]

SmallHosts ==
  {[target |-> One, resdir |-> TRUE], [target |-> Two, resdir |-> TRUE],
   [target |-> One, resdir |-> FALSE]}
==============================================================================
