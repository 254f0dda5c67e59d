------------------------------- MODULE Outbox -------------------------------
(***************************************************************************)
(* What the packet pool promises, with no packets in sight: a plugin       *)
(* collects its metric records, in order, into an open batch; a batch that *)
(* has at least one record may be sealed and then never changes; sealed    *)
(* batches are sent, any number of times, until a send is acknowledged.    *)
(***************************************************************************)
EXTENDS Naturals, Sequences

CONSTANT Plugin

VARIABLES
  made,       (* number of records gathered by each plugin                 *)
  open,       (* the batch each plugin is filling                          *)
  sealed,     (* batches waiting for an acknowledgement                    *)
  delivered   (* batches that reached the server                           *)

vars == <<made, open, sealed, delivered>>

Init ==
  /\ made = [p \in Plugin |-> 0]
  /\ open = [p \in Plugin |-> <<>>]
  /\ sealed = {}
  /\ delivered = {}

(* One run of a plugin: perhaps a new record, perhaps the end of the batch. *)
Collect(p, data, seal) ==
  LET batch == IF data THEN Append(open[p], <<p, made[p] + 1>>) ELSE open[p]
  IN
  /\ seal => batch # <<>>
  /\ made' = [made EXCEPT ![p] = IF data THEN @ + 1 ELSE @]
  /\ open' = [open EXCEPT ![p] = IF seal THEN <<>> ELSE batch]
  /\ sealed' = IF seal THEN sealed \cup {batch} ELSE sealed
  /\ UNCHANGED delivered

(* A batch reaches the server; the agent may or may not learn of it. *)
Send(b, acked) ==
  /\ b \in sealed
  /\ delivered' = delivered \cup {b}
  /\ sealed' = IF acked THEN sealed \ {b} ELSE sealed
  /\ UNCHANGED <<made, open>>

Next ==
  \/ \E p \in Plugin : \E data, seal \in BOOLEAN : Collect(p, data, seal)
  \/ \E b \in sealed : \E acked \in BOOLEAN : Send(b, acked)

Spec == Init /\ [][Next]_vars
=============================================================================
