------------------------- MODULE PoolRefinesOutbox --------------------------
(***************************************************************************)
(* PacketPool implements Outbox: the open batch of a plugin is what its    *)
(* working packet holds after the header, the sealed batches are the       *)
(* contents of the READY packets.                                          *)
(***************************************************************************)
EXTENDS MCPacketPool

Records(s) == IF s = <<>> THEN <<>> ELSE Tail(s)

OpenBatch(p) == IF working[p] = NULL THEN <<>> ELSE Records(payload[working[p]])

O == INSTANCE Outbox WITH
       open      <- [p \in Plugin |-> OpenBatch(p)],
       sealed    <- {Records(payload[k]) : k \in {j \in heap : state[j] = "READY"}},
       delivered <- {Records(b) : b \in received}

(* The pool of storage.c, with its reuse of packets, its lock-free claims  *)
(* and its retries, behaves as an outbox: batches are sealed whole, never  *)
(* change afterwards, and leave the pool only when acknowledged.           *)
ImplementsOutbox == O!Spec
=============================================================================
