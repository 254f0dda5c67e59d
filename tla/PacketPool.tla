----------------------------- MODULE PacketPool -----------------------------
(***************************************************************************)
(* The packet pool of the agent: the linked list "packets" of storage.c,   *)
(* the plugin threads that take packets from it with get_packet and fill   *)
(* them in plugin_gather, and the storage thread that walks the list in    *)
(* storage_main and posts what is READY.                                   *)
(*                                                                         *)
(* Every access to memory that two threads share is a step of its own:     *)
(* the compare-and-swaps on pkt->state and pkt->spin, the plain stores     *)
(* that release a spin lock, the read of "packets" into pkt->next and the  *)
(* store that publishes the new head.  What a thread does to a packet that *)
(* only it may touch is part of the neighbouring step.                     *)
(*                                                                         *)
(* A payload is a sequence of items <<plugin, n>>: n = 0 is the header     *)
(* that names the plugin's tid, n > 0 its n-th metric record.              *)
(***************************************************************************)
EXTENDS Naturals, Sequences, FiniteSets

CONSTANTS
  Plugin,      (* the plugin threads                                       *)
  Packet,      (* the addresses packet_alloc can return (bounds the heap)  *)
  NULL,        (* the null pointer                                         *)
  MaxRecords   (* bound on the metric records one plugin gathers           *)

ASSUME PoolAssumption ==
  /\ NULL \notin Packet
  /\ MaxRecords \in Nat

VARIABLES
  packets,     (* storage.c: head of the list                              *)
  next,        (* pkt->next                                                *)
  state,       (* pkt->state                                               *)
  spin,        (* pkt->spin                                                *)
  payload,     (* pkt->payload up to pkt->size                             *)
  heap,        (* packets allocated so far; none is ever freed             *)
  working,     (* p->working                                               *)
  pc,          (* where a plugin thread is in get_packet, else "idle"      *)
  pkt,         (* local variable pkt of get_packet                         *)
  head,        (* the packet whose spin head_lock points to                *)
  made,        (* records gathered by each plugin so far                   *)
  spc,         (* where the storage thread is                              *)
  cur,         (* local variable pkt of storage_main                       *)
  delay,       (* st->delay, an unsigned field of 3 bits                   *)
  tick,        (* st->tick                                                 *)
  received     (* payloads that reached the server                         *)

pool    == <<packets, next, state, spin, payload, heap>>
plugins == <<working, pc, pkt, head, made>>
storage == <<spc, cur, delay, tick>>
vars    == <<pool, plugins, storage, received>>

STORAGE_TICK == 21

(* enum packet_state; FREE is never assigned *)
PacketState == {"EMPTY", "BEGIN", "WROTE", "READY", "DONE"}

Item == Plugin \X Nat

(* Mutant: the tid in the header is that of the first plugin. *)
HeaderFirst(p) == <<CHOOSE q \in Plugin : TRUE, 0>>

Header(p) == <<p, 0>>

Init ==
  /\ packets  = NULL
  /\ next     = [k \in Packet |-> NULL]
  /\ state    = [k \in Packet |-> "EMPTY"]
  /\ spin     = [k \in Packet |-> 0]
  /\ payload  = [k \in Packet |-> <<>>]
  /\ heap     = {}
  /\ working  = [p \in Plugin |-> NULL]
  /\ pc       = [p \in Plugin |-> "idle"]
  /\ pkt      = [p \in Plugin |-> NULL]
  /\ head     = [p \in Plugin |-> NULL]
  /\ made     = [p \in Plugin |-> 0]
  /\ spc      = "idle"
  /\ cur      = NULL
  /\ delay    = 1
  /\ tick     = STORAGE_TICK
  /\ received = {}

-----------------------------------------------------------------------------
(* get_packet(METRIC), called by plugin_gather when p->working is null.    *)

Goto(p, l) == pc' = [pc EXCEPT ![p] = l]

(* return k, and the assignment to p->working in plugin_gather *)
Return(p, k) ==
  /\ working' = [working EXCEPT ![p] = k]
  /\ pkt' = [pkt EXCEPT ![p] = NULL]
  /\ head' = [head EXCEPT ![p] = NULL]
  /\ Goto(p, "idle")

(* for(pkt = packets; ...) *)
GetPacket(p) ==
  /\ pc[p] = "idle" /\ working[p] = NULL
  /\ pkt' = [pkt EXCEPT ![p] = packets]
  /\ Goto(p, "scan")
  /\ UNCHANGED <<pool, working, head, made, storage, received>>

(* Mutant: the state is tested, not swapped. *)
ReopenTest(k) ==
  /\ payload' = [payload EXCEPT ![k] = <<>>]
  /\ UNCHANGED state

(* Mutant: size is not reset. *)
ReopenKeep(k) ==
  /\ state' = [state EXCEPT ![k] = "EMPTY"]
  /\ UNCHANGED payload

(* packet_change_state(pkt, DONE, EMPTY) and pkt->size = 0 *)
Claimable(k) == state[k] = "DONE"

Reopen(k) ==
  /\ state' = [state EXCEPT ![k] = "EMPTY"]
  /\ payload' = [payload EXCEPT ![k] = <<>>]

(* The compare-and-swap fails: pkt = pkt->next *)
ScanNext(p) ==
  /\ pc[p] = "scan" /\ pkt[p] # NULL
  /\ ~Claimable(pkt[p])
  /\ pkt' = [pkt EXCEPT ![p] = next[pkt[p]]]
  /\ UNCHANGED <<pool, working, pc, head, made, storage, received>>

(* The compare-and-swap succeeds: the packet is this thread's. *)
ScanClaim(p) ==
  /\ pc[p] = "scan" /\ pkt[p] # NULL
  /\ Claimable(pkt[p])
  /\ Reopen(pkt[p])
  /\ Goto(p, "clear")
  /\ UNCHANGED <<packets, next, spin, heap, working, pkt, head, made, storage, received>>

(* pkt->spin = 0, whoever holds it; return pkt *)
ClearSpin(p) ==
  /\ pc[p] = "clear"
  /\ spin' = [spin EXCEPT ![pkt[p]] = 0]
  /\ Return(p, pkt[p])
  /\ UNCHANGED <<packets, next, state, payload, heap, made, storage, received>>

(* packet_alloc, then while(!packets): the first packet is installed by a  *)
(* compare-and-swap, any other goes through the lock of the head it sees.  *)
Alloc(p) ==
  /\ pc[p] = "scan" /\ pkt[p] = NULL
  /\ \E k \in Packet \ heap :
       /\ heap' = heap \cup {k}
       /\ next' = [next EXCEPT ![k] = NULL]
       /\ state' = [state EXCEPT ![k] = "EMPTY"]
       /\ spin' = [spin EXCEPT ![k] = 0]
       /\ payload' = [payload EXCEPT ![k] = <<>>]
       /\ \/ /\ packets = NULL
             /\ packets' = k
             /\ Return(p, k)
          \/ /\ packets # NULL
             /\ pkt' = [pkt EXCEPT ![p] = k]
             /\ head' = [head EXCEPT ![p] = packets]
             /\ Goto(p, "lock")
             /\ UNCHANGED <<packets, working>>
  /\ UNCHANGED <<made, storage, received>>

(* while(!compare_and_swap(head_lock, 0, 1)) *)
LockHead(p) ==
  /\ pc[p] = "lock"
  /\ spin[head[p]] = 0
  /\ spin' = [spin EXCEPT ![head[p]] = 1]
  /\ Goto(p, "link")
  /\ UNCHANGED <<packets, next, state, payload, heap, working, pkt, head, made, storage, received>>

(* Mutant: the rest of the list is not linked behind the new packet. *)
LinkNot(p) ==
  /\ pc[p] = "link"
  /\ Goto(p, "publish")
  /\ UNCHANGED <<pool, working, pkt, head, made, storage, received>>

(* pkt->next = packets *)
Link(p) ==
  /\ pc[p] = "link"
  /\ next' = [next EXCEPT ![pkt[p]] = packets]
  /\ Goto(p, "publish")
  /\ UNCHANGED <<packets, state, spin, payload, heap, working, pkt, head, made, storage, received>>

(* packets = pkt *)
Publish(p) ==
  /\ pc[p] = "publish"
  /\ packets' = pkt[p]
  /\ Goto(p, "unlock")
  /\ UNCHANGED <<next, state, spin, payload, heap, working, pkt, head, made, storage, received>>

(* *head_lock = 0; return pkt *)
UnlockHead(p) ==
  /\ pc[p] = "unlock"
  /\ spin' = [spin EXCEPT ![head[p]] = 0]
  /\ Return(p, pkt[p])
  /\ UNCHANGED <<packets, next, state, payload, heap, made, storage, received>>

-----------------------------------------------------------------------------
(* Mutant: p->working is not cleared when the packet is sealed. *)
WorkingAfterKept(k, expired) == k

(* The end of plugin_gather: an expired packet is sealed if it holds a     *)
(* record and recycled if not; either way the plugin lets go of it.        *)
ExpiredState(written) == IF written = "WROTE" THEN "READY" ELSE "DONE"

WorkingAfter(k, expired) == IF expired THEN NULL ELSE k

(* The rest of plugin_gather, once p->working is set.  data: the plugin's  *)
(* gather callback returned ENONE, otherwise the packet is rolled back.    *)
(* expired: packet_expired(pkt) after that.                                *)
Gather(p, data, expired) ==
  LET k       == working[p]
      begun   == IF state[k] = "EMPTY" THEN Append(payload[k], Header(p)) ELSE payload[k]
      written == IF data \/ state[k] = "WROTE" THEN "WROTE" ELSE "BEGIN"
  IN
  /\ pc[p] = "idle" /\ k # NULL
  /\ data => made[p] < MaxRecords
  /\ made' = [made EXCEPT ![p] = IF data THEN @ + 1 ELSE @]
  /\ payload' = [payload EXCEPT ![k] = IF data THEN Append(begun, <<p, made[p] + 1>>) ELSE begun]
  /\ state' = [state EXCEPT ![k] = IF expired THEN ExpiredState(written) ELSE written]
  /\ working' = [working EXCEPT ![p] = WorkingAfter(k, expired)]
  /\ UNCHANGED <<packets, next, spin, heap, pc, pkt, head, storage, received>>

-----------------------------------------------------------------------------
(* storage_main and the post of one packet (the METRIC sender is used by   *)
(* this thread only, so its spin is never contended).                      *)

(* Mutant: the walk ends after one packet. *)
AdvanceStop ==
  /\ cur' = NULL
  /\ spc' = "idle"

Advance ==
  /\ cur' = next[cur]
  /\ spc' = IF next[cur] = NULL THEN "idle" ELSE "walk"

(* A ping starts the walk at the head. *)
StorageMain ==
  /\ spc = "idle" /\ packets # NULL
  /\ cur' = packets
  /\ spc' = "walk"
  /\ UNCHANGED <<pool, plugins, delay, tick, received>>

WalkPast ==
  /\ spc = "walk" /\ state[cur] # "READY"
  /\ Advance
  /\ UNCHANGED <<pool, plugins, delay, tick, received>>

(* Mutant: a packet is posted as soon as it holds a record. *)
FetchLockWrote ==
  /\ spc = "walk" /\ state[cur] \in {"WROTE", "READY"}
  /\ spin[cur] = 0
  /\ spin' = [spin EXCEPT ![cur] = 1]
  /\ spc' = "fetch"
  /\ UNCHANGED <<packets, next, state, payload, heap, plugins, cur, delay, tick, received>>

(* packet_fetch: take pkt->spin ... *)
FetchLock ==
  /\ spc = "walk" /\ state[cur] = "READY"
  /\ spin[cur] = 0
  /\ spin' = [spin EXCEPT ![cur] = 1]
  /\ spc' = "fetch"
  /\ UNCHANGED <<packets, next, state, payload, heap, plugins, cur, delay, tick, received>>

(* ... and release it; the payload is handed out if the state is READY *)
FetchUnlock ==
  /\ spc = "fetch" /\ state[cur] = "READY"
  /\ spin' = [spin EXCEPT ![cur] = 0]
  /\ spc' = "post"
  /\ UNCHANGED <<packets, next, state, payload, heap, plugins, cur, delay, tick, received>>

(* curl succeeds with 200 or 202 and an empty body *)
PostOk ==
  /\ spc = "post"
  /\ received' = received \cup {payload[cur]}
  /\ state' = [state EXCEPT ![cur] = "DONE"]
  /\ delay' = 1
  /\ tick' = STORAGE_TICK * delay'
  /\ Advance
  /\ UNCHANGED <<packets, next, spin, payload, heap, plugins>>

(* Mutant: the field is wide enough never to wrap. *)
BackoffWide(d) == IF 2 * d = 0 THEN 1 ELSE 2 * d

(* st->delay = (st->delay << 1) | !(st->delay << 1), stored in 3 bits *)
Backoff(d) == (IF 2 * d = 0 THEN 1 ELSE 2 * d) % 8

(* Mutant: the packet is given up when its post fails. *)
PostFailDrop ==
  /\ spc = "post"
  /\ received' \in {received, received \cup {payload[cur]}}
  /\ state' = [state EXCEPT ![cur] = "DONE"]
  /\ delay' = Backoff(delay)
  /\ cur' = NULL
  /\ spc' = "idle"
  /\ UNCHANGED <<packets, next, spin, payload, heap, plugins, tick>>

(* Mutant: the tick follows the delay on a failure too. *)
PostFailTick ==
  /\ spc = "post"
  /\ received' \in {received, received \cup {payload[cur]}}
  /\ delay' = Backoff(delay)
  /\ tick' = STORAGE_TICK * delay'
  /\ cur' = NULL
  /\ spc' = "idle"
  /\ UNCHANGED <<pool, plugins>>

(* post fails and storage_main returns -1: the packet stays READY.  The    *)
(* server may have taken it all the same (reply lost, error status, or a   *)
(* body, which callback refuses by returning 0).                           *)
PostFail ==
  /\ spc = "post"
  /\ received' \in {received, received \cup {payload[cur]}}
  /\ delay' = Backoff(delay)
  /\ cur' = NULL
  /\ spc' = "idle"
  /\ UNCHANGED <<pool, plugins, tick>>

-----------------------------------------------------------------------------
PluginStep(p) ==
  \/ GetPacket(p)
  \/ ScanNext(p)
  \/ ScanClaim(p)
  \/ ClearSpin(p)
  \/ Alloc(p)
  \/ LockHead(p)
  \/ Link(p)
  \/ Publish(p)
  \/ UnlockHead(p)
  \/ \E data, expired \in BOOLEAN : Gather(p, data, expired)

StorageStep ==
  \/ StorageMain
  \/ WalkPast
  \/ FetchLock
  \/ FetchUnlock
  \/ PostOk
  \/ PostFail

Next == StorageStep \/ \E p \in Plugin : PluginStep(p)

Spec == Init /\ [][Next]_vars

(* The threads are scheduled, every walk ends, time passes (a packet that  *)
(* holds a record expires) and the server takes each packet it is offered  *)
(* again and again.                                                        *)
Fairness ==
  /\ WF_vars(StorageMain) /\ WF_vars(WalkPast)
  /\ WF_vars(FetchLock) /\ WF_vars(FetchUnlock)
  /\ \A k \in Packet : SF_vars(cur = k /\ PostOk)
  /\ \A p \in Plugin :
       /\ WF_vars(GetPacket(p)) /\ WF_vars(ScanNext(p)) /\ WF_vars(ScanClaim(p))
       /\ WF_vars(ClearSpin(p)) /\ WF_vars(Alloc(p)) /\ WF_vars(Link(p))
       /\ WF_vars(Publish(p)) /\ WF_vars(UnlockHead(p)) /\ SF_vars(LockHead(p))
       /\ WF_vars(\E data \in BOOLEAN : Gather(p, data, TRUE))

FairSpec == Spec /\ Fairness

-----------------------------------------------------------------------------
PtrOf(S) == S \cup {NULL}

(* Pointers lead to allocated packets, get_packet, plugin_gather and       *)
(* storage_main are at one of their steps, and st->delay fits its 3 bits.  *)
TypeOK ==
  /\ packets \in PtrOf(heap)
  /\ next \in [Packet -> PtrOf(heap)]
  /\ state \in [Packet -> PacketState]
  /\ spin \in [Packet -> {0, 1}]
  /\ payload \in [Packet -> Seq(Item)]
  /\ heap \subseteq Packet
  /\ working \in [Plugin -> PtrOf(heap)]
  /\ pc \in [Plugin -> {"idle", "scan", "clear", "lock", "link", "publish", "unlock"}]
  /\ pkt \in [Plugin -> PtrOf(heap)]
  /\ head \in [Plugin -> PtrOf(heap)]
  /\ made \in [Plugin -> 0..MaxRecords]
  /\ spc \in {"idle", "walk", "fetch", "post"}
  /\ cur \in PtrOf(heap)
  /\ delay \in 0..7
  /\ tick \in Nat
  /\ received \subseteq Seq(Item)

(* The packet a plugin thread may write: the one get_packet is about to    *)
(* return, or p->working.                                                  *)
Held(p) == IF pc[p] \in {"clear", "lock", "link", "publish", "unlock"} THEN pkt[p] ELSE working[p]

(* storage.c, get_packet: no packet is handed to two plugins, and none     *)
(* that a plugin is filling is one storage would post or another           *)
(* get_packet would take.                                                  *)
ExclusiveUse ==
  \A p \in Plugin : Held(p) # NULL =>
    /\ state[Held(p)] \in {"EMPTY", "BEGIN", "WROTE"}
    /\ \A q \in Plugin \ {p} : Held(q) # Held(p)

(* packet_fetch never hands storage a null payload: what storage_main has  *)
(* found READY is still READY when it is fetched and posted.               *)
PostingReady == spc \in {"fetch", "post"} => state[cur] = "READY"

(* The payload of a packet does not change from the moment plugin_gather   *)
(* seals it until storage has marked it DONE: curl reads it in between.    *)
SealedFrozen ==
  [][\A k \in Packet : state[k] = "READY" => payload'[k] = payload[k]]_vars

Items(s) == {s[i] : i \in DOMAIN s}

(* No metric record is lost or recycled unsent: each one a plugin gathered *)
(* is in its open packet, in a READY packet, or has reached the server.    *)
RecordsConserved ==
  \A p \in Plugin : \A n \in 1..made[p] :
    \/ working[p] # NULL /\ <<p, n>> \in Items(payload[working[p]])
    \/ \E k \in heap : state[k] = "READY" /\ <<p, n>> \in Items(payload[k])
    \/ \E b \in received : <<p, n>> \in Items(b)

(* What the server gets is one header followed by at least one record, all *)
(* of the same plugin and in the order they were gathered without a gap;   *)
(* a record comes in one batch only, however often that batch is posted.   *)
BatchesWhole ==
  /\ \A b \in received :
       /\ Len(b) > 1
       /\ b[1] = Header(b[1][1])
       /\ \A i \in 2..Len(b) : b[i] = <<b[1][1], b[2][2] + i - 2>>
  /\ \A b, c \in received : b # c =>
       \A i \in 2..Len(b), j \in 2..Len(c) : b[i] # c[j]

(* storage_main: however often posts fail, the 3-bit delay wraps to 0 only *)
(* where no tick is computed from it, so storage never polls in a loop.    *)
TickNeverZero == tick > 0

(* The packets storage_main can reach from the head: those in every set    *)
(* that holds the head and, with a packet, the next one.                   *)
ListFrom ==
  {k \in Packet :
     \A S \in SUBSET Packet :
       packets \in PtrOf(S) /\ (\A j \in S : next[j] \in PtrOf(S)) => k \in S}

(* storage.h, "Send packets": a sealed packet is on the list that          *)
(* storage_main walks, or it would never be sent.                          *)
ReadyReachable == \A k \in heap : state[k] = "READY" => k \in ListFrom

(* plugin_gather and storage_main: every record that was gathered reaches  *)
(* the server in the end, whatever posts failed before.                    *)
RecordsDelivered ==
  \A p \in Plugin : \A n \in 1..MaxRecords :
    made[p] >= n ~> \E b \in received : <<p, n>> \in Items(b)
=============================================================================
