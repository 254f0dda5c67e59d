---------------------------- MODULE MCPacketPool ----------------------------
(* Instances of PacketPool for TLC. *)
EXTENDS PacketPool, TLC

(* Plugins and packet addresses are interchangeable. *)
Symmetry == Permutations(Plugin) \cup Permutations(Packet)
=============================================================================
