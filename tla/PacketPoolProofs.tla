-------------------------- MODULE PacketPoolProofs --------------------------
(***************************************************************************)
(* Safety of PacketPool for any number of plugins, packets and records.    *)
(*                                                                         *)
(* ExclusiveUse and PostingReady are not inductive on their own: that the  *)
(* pointers a thread follows are not null (Pointers) and that a packet is  *)
(* EMPTY before it is allocated (Fresh) have to come along.  With a single *)
(* plugin the list of get_packet and storage_main is intact as well: every *)
(* packet is on it or about to be put in front of it (LInv).               *)
(***************************************************************************)
EXTENDS PacketPool, TLAPS

Claiming == {"clear", "lock", "link", "publish", "unlock"}

(* In get_packet p->working is null, a thread that has a packet or a head  *)
(* lock knows which, and storage is at a packet while it walks.            *)
Pointers ==
  /\ \A p \in Plugin :
       /\ pc[p] # "idle" => working[p] = NULL
       /\ pc[p] \in Claiming => pkt[p] # NULL
       /\ pc[p] \in {"lock", "link", "publish", "unlock"} => head[p] # NULL
  /\ spc # "idle" => cur # NULL

(* packet_alloc returns EMPTY packets. *)
Fresh == \A k \in Packet \ heap : state[k] = "EMPTY"

IInv == TypeOK /\ Pointers /\ Fresh /\ ExclusiveUse /\ PostingReady

-----------------------------------------------------------------------------
(* After storage_init the list is empty and nobody holds a packet: the     *)
(* invariant holds.                                                        *)
LEMMA InitIInv == Init => IInv
<1> SUFFICES ASSUME Init PROVE IInv
  OBVIOUS
<1>1. TypeOK
  BY PoolAssumption DEF Init, TypeOK, PtrOf, PacketState, STORAGE_TICK, Item
<1>2. Pointers /\ Fresh
  BY Zenon DEF Init, Pointers, Fresh, Claiming
<1>3. ExclusiveUse /\ PostingReady
  BY Zenon DEF Init, ExclusiveUse, Held, PostingReady
<1> QED
  BY <1>1, <1>2, <1>3, Zenon DEF IInv

(* What a plugin thread may write has been allocated. *)
LEMMA HeldInHeap ==
  ASSUME TypeOK, NEW q \in Plugin
  PROVE  Held(q) \in heap \cup {NULL}
  BY Zenon DEF TypeOK, Held, PtrOf

(* No step of a plugin thread, in get_packet or in plugin_gather, breaks   *)
(* the invariant.                                                          *)
LEMMA PluginStepIInv ==
  ASSUME IInv, NEW p \in Plugin, PluginStep(p)
  PROVE  IInv'
<1> USE DEF IInv, pool, plugins, storage
<1>1. CASE GetPacket(p)
  <2>1. TypeOK'
    BY <1>1, PoolAssumption, Zenon DEF GetPacket, Goto, TypeOK, PtrOf, Pointers, Claiming, PacketState
  <2>2. Pointers'
    BY <1>1, PoolAssumption, Zenon DEF GetPacket, Goto, TypeOK, PtrOf, Pointers, Claiming
  <2>3. Fresh'
    BY <1>1, Zenon DEF GetPacket, Goto, TypeOK, PtrOf, Fresh, Pointers, Claiming
  <2>4. ExclusiveUse'
    BY <1>1, PoolAssumption DEF GetPacket, Goto, TypeOK, PtrOf, Pointers, Claiming, ExclusiveUse, Held
  <2>5. PostingReady'
    BY <1>1, Zenon DEF GetPacket, Goto, TypeOK, PtrOf, Pointers, Claiming, PostingReady, Fresh
  <2> QED
    BY <2>1, <2>2, <2>3, <2>4, <2>5, Zenon
<1>2. CASE ScanNext(p)
  <2>1. TypeOK'
    BY <1>2, PoolAssumption, Zenon DEF ScanNext, Claimable, TypeOK, PtrOf, Pointers, Claiming, PacketState
  <2>2. Pointers'
    BY <1>2, PoolAssumption, Zenon DEF ScanNext, Claimable, TypeOK, PtrOf, Pointers, Claiming
  <2>3. Fresh'
    BY <1>2, Zenon DEF ScanNext, Claimable, TypeOK, PtrOf, Fresh, Pointers, Claiming
  <2>4. ExclusiveUse'
    BY <1>2, PoolAssumption DEF ScanNext, Claimable, TypeOK, PtrOf, Pointers, Claiming, ExclusiveUse, Held
  <2>5. PostingReady'
    BY <1>2, Zenon DEF ScanNext, Claimable, TypeOK, PtrOf, Pointers, Claiming, PostingReady, Fresh
  <2> QED
    BY <2>1, <2>2, <2>3, <2>4, <2>5, Zenon
<1>3. CASE ScanClaim(p)
  <2>1. TypeOK'
    BY <1>3, PoolAssumption DEF ScanClaim, Claimable, Reopen, Goto, TypeOK, PtrOf, Pointers, Claiming, PacketState
  <2>2. Pointers'
    BY <1>3, PoolAssumption, Zenon DEF ScanClaim, Claimable, Reopen, Goto, TypeOK, PtrOf, Pointers, Claiming
  <2>3. Fresh'
    BY <1>3, Zenon DEF ScanClaim, Claimable, Reopen, Goto, TypeOK, PtrOf, Fresh, Pointers, Claiming
  <2>4. ExclusiveUse'
    <3>1. pkt[p] \in Packet /\ pkt[p] # NULL /\ state[pkt[p]] = "DONE"
      BY <1>3, Zenon DEF ScanClaim, Claimable, TypeOK, PtrOf
    <3>2. \A q \in Plugin : Held(q) # pkt[p]
      BY <3>1, Zenon DEF ExclusiveUse
    <3>3. \A q \in Plugin : Held(q)' = IF q = p THEN pkt[p] ELSE Held(q)
      BY <1>3, Zenon DEF ScanClaim, Goto, TypeOK, Held
    <3>4. state' = [state EXCEPT ![pkt[p]] = "EMPTY"]
      BY <1>3, Zenon DEF ScanClaim, Reopen
    <3> QED
      BY <3>1, <3>2, <3>3, <3>4, HeldInHeap DEF ExclusiveUse, TypeOK, PtrOf
  <2>5. PostingReady'
    BY <1>3, Zenon DEF ScanClaim, Claimable, Reopen, Goto, TypeOK, PtrOf, Pointers, Claiming, PostingReady, Fresh
  <2> QED
    BY <2>1, <2>2, <2>3, <2>4, <2>5, Zenon
<1>4. CASE ClearSpin(p)
  <2>1. TypeOK'
    BY <1>4, PoolAssumption, Zenon DEF ClearSpin, Return, Goto, TypeOK, PtrOf, Pointers, Claiming, PacketState
  <2>2. Pointers'
    BY <1>4, PoolAssumption, Zenon DEF ClearSpin, Return, Goto, TypeOK, PtrOf, Pointers, Claiming
  <2>3. Fresh'
    BY <1>4, Zenon DEF ClearSpin, Return, Goto, TypeOK, PtrOf, Fresh, Pointers, Claiming
  <2>4. ExclusiveUse'
    BY <1>4, PoolAssumption DEF ClearSpin, Return, Goto, TypeOK, PtrOf, Pointers, Claiming, ExclusiveUse, Held
  <2>5. PostingReady'
    BY <1>4, Zenon DEF ClearSpin, Return, Goto, TypeOK, PtrOf, Pointers, Claiming, PostingReady, Fresh
  <2> QED
    BY <2>1, <2>2, <2>3, <2>4, <2>5, Zenon
<1>5. CASE Alloc(p)
  <2> PICK k \in Packet \ heap :
        /\ heap' = heap \cup {k}
        /\ next' = [next EXCEPT ![k] = NULL]
        /\ state' = [state EXCEPT ![k] = "EMPTY"]
        /\ spin' = [spin EXCEPT ![k] = 0]
        /\ payload' = [payload EXCEPT ![k] = <<>>]
        /\ \/ /\ packets = NULL
              /\ packets' = k
              /\ Return(p, k)
           \/ /\ packets # NULL
              /\ pkt' = [pkt EXCEPT ![p] = k]
              /\ head' = [head EXCEPT ![p] = packets]
              /\ Goto(p, "lock")
              /\ UNCHANGED <<packets, working>>
    BY <1>5, Zenon DEF Alloc
  <2>u. UNCHANGED <<made, spc, cur, delay, tick, received>> /\ pc[p] = "scan"
    BY <1>5, Zenon DEF Alloc
  <2>1. TypeOK'
    <3>1. heap' \subseteq Packet /\ state' \in [Packet -> PacketState] /\ spin' \in [Packet -> {0, 1}]
      BY Zenon DEF TypeOK, PacketState
    <3>2. next' \in [Packet -> PtrOf(heap')] /\ payload' \in [Packet -> Seq(Item)]
      BY DEF TypeOK, PtrOf
    <3>3. packets' \in PtrOf(heap') /\ cur' \in PtrOf(heap')
      BY <2>u, Zenon DEF TypeOK, PtrOf, Return
    <3>4. /\ working' \in [Plugin -> PtrOf(heap')]
          /\ pkt' \in [Plugin -> PtrOf(heap')]
          /\ head' \in [Plugin -> PtrOf(heap')]
          /\ pc' \in [Plugin -> {"idle", "scan", "clear", "lock", "link", "publish", "unlock"}]
      <4>1. CASE packets = NULL
        BY <4>1, Zenon DEF TypeOK, PtrOf, Return, Goto
      <4>2. CASE packets # NULL
        <5>0. working' = working /\ working \in [Plugin -> PtrOf(heap)]
          BY <4>2, Zenon DEF TypeOK
        <5>1. working' \in [Plugin -> PtrOf(heap')]
          BY <5>0, Zenon DEF PtrOf
        <5>2. head' \in [Plugin -> PtrOf(heap')]
          BY <4>2, Zenon DEF TypeOK, PtrOf
        <5>3. pkt' \in [Plugin -> PtrOf(heap')]
          BY <4>2, Zenon DEF TypeOK, PtrOf
        <5> QED
          BY <4>2, <5>1, <5>2, <5>3, Zenon DEF TypeOK, Goto
      <4> QED
        BY <4>1, <4>2, Zenon
    <3> QED
      BY <3>1, <3>2, <3>3, <3>4, <2>u, Zenon DEF TypeOK
  <2>2. Pointers'
    <3>1. CASE packets = NULL
      BY <3>1, <2>u DEF Return, Goto, TypeOK, Pointers, Claiming
    <3>2. CASE packets # NULL
      BY <3>2, <2>u, PoolAssumption, Zenon DEF Goto, TypeOK, Pointers, Claiming
    <3> QED
      BY <3>1, <3>2, Zenon
  <2>3. Fresh'
    BY Zenon DEF TypeOK, Fresh
  <2>4. ExclusiveUse'
    <3>1. \A q \in Plugin : Held(q) # k
      BY HeldInHeap, PoolAssumption, Zenon
    <3>2. \A q \in Plugin : Held(q)' = IF q = p THEN k ELSE Held(q)
      BY Zenon DEF Return, Goto, TypeOK, Held
    <3> QED
      BY <3>1, <3>2, HeldInHeap DEF ExclusiveUse, TypeOK
  <2>5. PostingReady'
    BY <2>u, Zenon DEF TypeOK, PtrOf, Pointers, PostingReady, Fresh
  <2> QED
    BY <2>1, <2>2, <2>3, <2>4, <2>5, Zenon
<1>6. CASE LockHead(p)
  <2>1. TypeOK'
    BY <1>6, PoolAssumption, Zenon DEF LockHead, Goto, TypeOK, PtrOf, Pointers, Claiming, PacketState
  <2>2. Pointers'
    BY <1>6, PoolAssumption, Zenon DEF LockHead, Goto, TypeOK, PtrOf, Pointers, Claiming
  <2>3. Fresh'
    BY <1>6, Zenon DEF LockHead, Goto, TypeOK, PtrOf, Fresh, Pointers, Claiming
  <2>4. ExclusiveUse'
    BY <1>6, PoolAssumption DEF LockHead, Goto, TypeOK, PtrOf, Pointers, Claiming, ExclusiveUse, Held
  <2>5. PostingReady'
    BY <1>6, Zenon DEF LockHead, Goto, TypeOK, PtrOf, Pointers, Claiming, PostingReady, Fresh
  <2> QED
    BY <2>1, <2>2, <2>3, <2>4, <2>5, Zenon
<1>7. CASE Link(p)
  <2>1. TypeOK'
    BY <1>7, PoolAssumption, Zenon DEF Link, Goto, TypeOK, PtrOf, Pointers, Claiming, PacketState
  <2>2. Pointers'
    BY <1>7, PoolAssumption, Zenon DEF Link, Goto, TypeOK, PtrOf, Pointers, Claiming
  <2>3. Fresh'
    BY <1>7, Zenon DEF Link, Goto, TypeOK, PtrOf, Fresh, Pointers, Claiming
  <2>4. ExclusiveUse'
    BY <1>7, PoolAssumption DEF Link, Goto, TypeOK, PtrOf, Pointers, Claiming, ExclusiveUse, Held
  <2>5. PostingReady'
    BY <1>7, Zenon DEF Link, Goto, TypeOK, PtrOf, Pointers, Claiming, PostingReady, Fresh
  <2> QED
    BY <2>1, <2>2, <2>3, <2>4, <2>5, Zenon
<1>8. CASE Publish(p)
  <2>1. TypeOK'
    BY <1>8, PoolAssumption, Zenon DEF Publish, Goto, TypeOK, PtrOf, Pointers, Claiming, PacketState
  <2>2. Pointers'
    BY <1>8, PoolAssumption, Zenon DEF Publish, Goto, TypeOK, PtrOf, Pointers, Claiming
  <2>3. Fresh'
    BY <1>8, Zenon DEF Publish, Goto, TypeOK, PtrOf, Fresh, Pointers, Claiming
  <2>4. ExclusiveUse'
    BY <1>8, PoolAssumption DEF Publish, Goto, TypeOK, PtrOf, Pointers, Claiming, ExclusiveUse, Held
  <2>5. PostingReady'
    BY <1>8, Zenon DEF Publish, Goto, TypeOK, PtrOf, Pointers, Claiming, PostingReady, Fresh
  <2> QED
    BY <2>1, <2>2, <2>3, <2>4, <2>5, Zenon
<1>9. CASE UnlockHead(p)
  <2>1. TypeOK'
    BY <1>9, PoolAssumption, Zenon DEF UnlockHead, Return, Goto, TypeOK, PtrOf, Pointers, Claiming, PacketState
  <2>2. Pointers'
    BY <1>9, PoolAssumption, Zenon DEF UnlockHead, Return, Goto, TypeOK, PtrOf, Pointers, Claiming
  <2>3. Fresh'
    BY <1>9, Zenon DEF UnlockHead, Return, Goto, TypeOK, PtrOf, Fresh, Pointers, Claiming
  <2>4. ExclusiveUse'
    BY <1>9, PoolAssumption DEF UnlockHead, Return, Goto, TypeOK, PtrOf, Pointers, Claiming, ExclusiveUse, Held
  <2>5. PostingReady'
    BY <1>9, Zenon DEF UnlockHead, Return, Goto, TypeOK, PtrOf, Pointers, Claiming, PostingReady, Fresh
  <2> QED
    BY <2>1, <2>2, <2>3, <2>4, <2>5, Zenon
<1>10. CASE \E data, expired \in BOOLEAN : Gather(p, data, expired)
  <2> PICK data \in BOOLEAN, expired \in BOOLEAN : Gather(p, data, expired)
    BY <1>10, Zenon
  <2>1. TypeOK'
    <3>1. working[p] \in heap /\ working[p] \in Packet
      BY Zenon DEF Gather, TypeOK, PtrOf
    <3>2. made' \in [Plugin -> 0..MaxRecords]
      BY PoolAssumption, SMTT(20) DEF Gather, TypeOK
    <3>3. <<p, 0>> \in Item /\ <<p, made[p] + 1>> \in Item
      BY PoolAssumption DEF TypeOK, Item
    <3>4. payload' \in [Packet -> Seq(Item)]
      BY <3>1, <3>3 DEF Gather, TypeOK, Header
    <3>5. state' \in [Packet -> PacketState]
      BY <3>1, Zenon DEF Gather, ExpiredState, TypeOK, PacketState
    <3>6. working' \in [Plugin -> PtrOf(heap')]
      BY <3>1, Zenon DEF Gather, WorkingAfter, TypeOK, PtrOf
    <3> QED
      BY <3>2, <3>4, <3>5, <3>6, Zenon DEF Gather, TypeOK
  <2>2. Pointers'
    BY Zenon DEF Gather, WorkingAfter, TypeOK, PtrOf, Pointers, Claiming
  <2>3. Fresh'
    BY PoolAssumption DEF Gather, TypeOK, PtrOf, Fresh
  <2>4. ExclusiveUse'
    BY PoolAssumption DEF Gather, ExpiredState, WorkingAfter, TypeOK, PtrOf, Pointers, Claiming, ExclusiveUse, Held
  <2>5. PostingReady'
    BY Zenon DEF Gather, TypeOK, PtrOf, Pointers, PostingReady, ExclusiveUse, Held
  <2> QED
    BY <2>1, <2>2, <2>3, <2>4, <2>5, Zenon
<1> QED
  BY <1>1, <1>2, <1>3, <1>4, <1>5, <1>6, <1>7, <1>8, <1>9, <1>10, Zenon DEF PluginStep

(* No step of storage_main or packet_fetch breaks the invariant. *)
LEMMA StorageStepIInv ==
  ASSUME IInv, StorageStep
  PROVE  IInv'
<1> USE DEF IInv, pool, plugins
<1>1. CASE StorageMain
  <2>1. TypeOK'
    BY <1>1, PoolAssumption, Zenon DEF StorageMain, TypeOK, PtrOf, Pointers
  <2>2. Pointers'
    BY <1>1, Zenon DEF StorageMain, Pointers
  <2>3. ExclusiveUse' /\ Fresh'
    BY <1>1, Zenon DEF StorageMain, ExclusiveUse, Held, Fresh
  <2>4. PostingReady'
    BY <1>1, Zenon DEF StorageMain, PostingReady
  <2> QED
    BY <2>1, <2>2, <2>3, <2>4, Zenon
<1>2. CASE WalkPast
  <2>1. TypeOK'
    BY <1>2, PoolAssumption, Zenon DEF WalkPast, Advance, TypeOK, PtrOf, Pointers
  <2>2. Pointers'
    BY <1>2, Zenon DEF WalkPast, Advance, Pointers
  <2>3. ExclusiveUse' /\ Fresh'
    BY <1>2, Zenon DEF WalkPast, ExclusiveUse, Held, Fresh
  <2>4. PostingReady'
    BY <1>2, Zenon DEF WalkPast, Advance, PostingReady
  <2> QED
    BY <2>1, <2>2, <2>3, <2>4, Zenon
<1>3. CASE FetchLock
  <2>1. TypeOK'
    BY <1>3, PoolAssumption, Zenon DEF FetchLock, TypeOK, PtrOf, Pointers
  <2>2. Pointers'
    BY <1>3, Zenon DEF FetchLock, Pointers
  <2>3. ExclusiveUse' /\ Fresh'
    BY <1>3, Zenon DEF FetchLock, ExclusiveUse, Held, Fresh
  <2>4. PostingReady'
    BY <1>3, Zenon DEF FetchLock, PostingReady
  <2> QED
    BY <2>1, <2>2, <2>3, <2>4, Zenon
<1>4. CASE FetchUnlock
  <2>1. TypeOK'
    BY <1>4, PoolAssumption, Zenon DEF FetchUnlock, TypeOK, PtrOf, Pointers
  <2>2. Pointers'
    BY <1>4, Zenon DEF FetchUnlock, Pointers
  <2>3. ExclusiveUse' /\ Fresh'
    BY <1>4, Zenon DEF FetchUnlock, ExclusiveUse, Held, Fresh
  <2>4. PostingReady'
    BY <1>4, Zenon DEF FetchUnlock, PostingReady
  <2> QED
    BY <2>1, <2>2, <2>3, <2>4, Zenon
<1>5. CASE PostOk
  <2>0. cur \in Packet /\ state[cur] = "READY"
    BY <1>5, Zenon DEF PostOk, TypeOK, PtrOf, Pointers, PostingReady
  <2>1. TypeOK'
    BY <1>5, <2>0 DEF PostOk, Advance, STORAGE_TICK, TypeOK, PtrOf, PacketState
  <2>2. Pointers'
    BY <1>5, Zenon DEF PostOk, Advance, Pointers
  <2>3. Fresh'
    BY <1>5, <2>0, Zenon DEF PostOk, TypeOK, Fresh
  <2>4. ExclusiveUse'
    <3>1. \A q \in Plugin : Held(q)' = Held(q) /\ (Held(q) # NULL => Held(q) # cur)
      BY <1>5, <2>0, Zenon DEF PostOk, Held, ExclusiveUse
    <3> QED
      BY <1>5, <2>0, <3>1 DEF PostOk, TypeOK, ExclusiveUse
  <2>5. PostingReady'
    BY <1>5, Zenon DEF PostOk, Advance, PostingReady
  <2> QED
    BY <2>1, <2>2, <2>3, <2>4, <2>5, Zenon
<1>6. CASE PostFail
  <2>1. TypeOK'
    BY <1>6, PoolAssumption DEF PostFail, Backoff, TypeOK, PtrOf, Pointers
  <2>2. Pointers'
    BY <1>6, Zenon DEF PostFail, Backoff, Pointers
  <2>3. ExclusiveUse' /\ Fresh'
    BY <1>6, Zenon DEF PostFail, ExclusiveUse, Held, Fresh
  <2>4. PostingReady'
    BY <1>6, Zenon DEF PostFail, Backoff, PostingReady
  <2> QED
    BY <2>1, <2>2, <2>3, <2>4, Zenon
<1> QED
  BY <1>1, <1>2, <1>3, <1>4, <1>5, <1>6, Zenon DEF StorageStep

(* No step of the plugin threads or of the storage thread breaks it. *)
LEMMA NextIInv == IInv /\ [Next]_vars => IInv'
<1> SUFFICES ASSUME IInv, [Next]_vars PROVE IInv'
  OBVIOUS
<1>1. CASE StorageStep
  BY <1>1, StorageStepIInv, Zenon
<1>2. CASE \E p \in Plugin : PluginStep(p)
  BY <1>2, PluginStepIInv, Zenon
<1>3. CASE UNCHANGED vars
  BY <1>3, Zenon DEF vars, pool, plugins, storage, IInv, TypeOK, Pointers, Fresh, ExclusiveUse, Held, PostingReady
<1> QED
  BY <1>1, <1>2, <1>3, Zenon DEF Next

(* Hence it holds whenever get_packet, plugin_gather and storage_main run. *)
LEMMA Invariance == Spec => []IInv
  BY InitIInv, NextIInv, PTL DEF Spec

-----------------------------------------------------------------------------
(* The variables of the pool, its plugins and the storage thread keep      *)
(* their types; in particular delay stays within its 3 bits.               *)
THEOREM TypeCorrect == Spec => []TypeOK
  BY Invariance, PTL DEF IInv

(* get_packet hands no packet to two plugins, and none that a plugin fills *)
(* is READY or DONE, whatever the interleaving.                            *)
THEOREM Exclusive == Spec => []ExclusiveUse
  BY Invariance, PTL DEF IInv

(* What storage_main found READY still is when packet_fetch hands it out   *)
(* and while it is posted.                                                 *)
THEOREM Posting == Spec => []PostingReady
  BY Invariance, PTL DEF IInv

(* The payload of a READY packet never changes: curl may read it without a *)
(* lock.                                                                   *)
THEOREM Frozen == Spec => SealedFrozen
<1>1. IInv /\ [Next]_vars => [\A k \in Packet : state[k] = "READY" => payload'[k] = payload[k]]_vars
  <2> SUFFICES ASSUME IInv, Next, NEW k \in Packet, state[k] = "READY"
               PROVE  payload'[k] = payload[k]
    OBVIOUS
  <2> USE DEF IInv, pool, plugins
  <2>1. CASE StorageStep
    BY <2>1, Zenon DEF StorageStep, StorageMain, WalkPast, FetchLock, FetchUnlock, PostOk, PostFail
  <2>2. ASSUME NEW p \in Plugin, PluginStep(p)
        PROVE  payload'[k] = payload[k]
    <3>1. CASE ScanClaim(p)
      BY <3>1, Zenon DEF ScanClaim, Claimable, Reopen, TypeOK
    <3>2. CASE Alloc(p)
      BY <3>2, Zenon DEF Alloc, TypeOK, Fresh
    <3>3. CASE \E data, expired \in BOOLEAN : Gather(p, data, expired)
      BY <3>3, Zenon DEF Gather, TypeOK, ExclusiveUse, Held
    <3>4. CASE GetPacket(p) \/ ScanNext(p) \/ ClearSpin(p) \/ LockHead(p)
                 \/ Link(p) \/ Publish(p) \/ UnlockHead(p)
      BY <3>4, Zenon DEF GetPacket, ScanNext, ClearSpin, LockHead, Link, Publish, UnlockHead
    <3> QED
      BY <2>2, <3>1, <3>2, <3>3, <3>4, Zenon DEF PluginStep
  <2> QED
    BY <2>1, <2>2, Zenon DEF Next
<1> QED
  BY <1>1, Invariance, PTL DEF Spec, SealedFrozen

(* However often posts fail and delay wraps around, storage's tick stays   *)
(* positive.                                                               *)
THEOREM NeverZero == Spec => []TickNeverZero
<1>1. Init => TickNeverZero
  BY DEF Init, TickNeverZero, STORAGE_TICK
<1>2. TickNeverZero /\ [Next]_vars => TickNeverZero'
  <2> SUFFICES ASSUME TickNeverZero, [Next]_vars PROVE TickNeverZero'
    OBVIOUS
  <2> USE DEF storage
  <2>1. CASE StorageStep
    BY <2>1 DEF StorageStep, StorageMain, WalkPast, FetchLock, FetchUnlock, PostOk, PostFail,
                TickNeverZero, STORAGE_TICK
  <2>2. CASE \E p \in Plugin : PluginStep(p)
    <3>1. PICK p \in Plugin : PluginStep(p)
      BY <2>2, Zenon
    <3>2. tick' = tick
      BY <3>1, Zenon DEF PluginStep, GetPacket, ScanNext, ScanClaim, ClearSpin, Alloc, LockHead, Link,
                         Publish, UnlockHead, Gather
    <3> QED
      BY <3>2, Zenon DEF TickNeverZero
  <2>3. CASE UNCHANGED vars
    BY <2>3, Zenon DEF vars, TickNeverZero
  <2> QED
    BY <2>1, <2>2, <2>3, Zenon DEF Next
<1> QED
  BY <1>1, <1>2, PTL DEF Spec

-----------------------------------------------------------------------------
(* The packet a plugin thread has allocated and not published yet. *)
Pending(p, k) == pc[p] \in {"lock", "link", "publish"} /\ pkt[p] = k

(* Every packet is on the list or about to be put in front of it, with the *)
(* list behind it.                                                         *)
LInv ==
  /\ packets = NULL => heap = {}
  /\ \A k \in Packet \ heap : next[k] = NULL
  /\ \A p \in Plugin : pc[p] \in {"lock", "link"} => next[pkt[p]] = NULL
  /\ \A p \in Plugin : pc[p] = "publish" => next[pkt[p]] = packets
  /\ \A k \in heap : k \in ListFrom \/ \E p \in Plugin : Pending(p, k)

(* The sets that hold the head and, with a packet, the next one. *)
Closed(S) == packets \in PtrOf(S) /\ \A j \in S : next[j] \in PtrOf(S)

(* storage_main reaches what it could reach if no link is lost. *)
LEMMA ListGrows ==
  ASSUME \A S \in SUBSET Packet : Closed(S)' => Closed(S)
  PROVE  ListFrom \subseteq ListFrom'
  BY Zenon DEF ListFrom, Closed

(* Steps that leave the list alone. *)
LEMMA ListIdle ==
  ASSUME LInv, UNCHANGED <<packets, next, heap>>,
         \A p \in Plugin : \/ pc'[p] = pc[p] /\ pkt'[p] = pkt[p]
                           \/ pc[p] = "lock" /\ pc'[p] = "link" /\ pkt'[p] = pkt[p]
                           \/ /\ pc[p] \notin {"lock", "link", "publish"}
                              /\ pc'[p] \notin {"lock", "link", "publish"}
  PROVE  LInv'
<1>1. ListFrom' = ListFrom
  BY Zenon DEF ListFrom
<1>2. \A p \in Plugin : pc'[p] \in {"lock", "link"} => pc[p] \in {"lock", "link"} /\ pkt'[p] = pkt[p]
  OBVIOUS
<1>3. \A p \in Plugin : pc'[p] = "publish" => pc[p] = "publish" /\ pkt'[p] = pkt[p]
  OBVIOUS
<1>4. \A p \in Plugin, k \in heap : Pending(p, k) => Pending(p, k)'
  BY Zenon DEF Pending
<1> QED
  BY <1>1, <1>2, <1>3, <1>4, Zenon DEF LInv

(* get_packet of the only plugin: the list grows at its head. *)
LEMMA ListPlugin ==
  ASSUME IInv, LInv, \A p, q \in Plugin : p = q, NEW p \in Plugin, PluginStep(p)
  PROVE  LInv'
<1>1. CASE Alloc(p)
  <2>1. PICK k \in Packet \ heap :
          /\ heap' = heap \cup {k} /\ next' = [next EXCEPT ![k] = NULL]
          /\ \/ packets = NULL /\ packets' = k /\ Return(p, k)
             \/ /\ packets # NULL /\ packets' = packets
                /\ pkt' = [pkt EXCEPT ![p] = k] /\ Goto(p, "lock")
    BY <1>1, Zenon DEF Alloc
  <2>2. next' = next /\ pc[p] = "scan"
    BY <1>1, <2>1 DEF Alloc, LInv, IInv, TypeOK
  <2>3. \A j \in heap : j \in ListFrom
    BY <2>2 DEF LInv, Pending
  <2>4. CASE packets = NULL
    <3>1. heap' = {k} /\ packets' = k /\ packets' # NULL
      BY <2>1, <2>4, PoolAssumption, Zenon DEF LInv
    <3>2. k \in ListFrom'
      BY <3>1, PoolAssumption, Zenon DEF ListFrom, PtrOf
    <3>3. pc'[p] = "idle"
      BY <2>1, <2>4, Zenon DEF Return, Goto, IInv, TypeOK
    <3>4. \A q \in Plugin : pc'[q] = "idle"
      BY <3>3, Zenon
    <3>5. \A j \in Packet \ heap' : next'[j] = NULL
      BY <2>1, <2>2, Zenon DEF LInv
    <3> QED
      BY <3>1, <3>2, <3>4, <3>5, Zenon DEF LInv
  <2>5. CASE packets # NULL
    <3>1. packets' = packets /\ pkt'[p] = k /\ pc'[p] = "lock"
      BY <2>1, <2>5, Zenon DEF Goto, IInv, TypeOK
    <3>2. ListFrom' = ListFrom
      BY <2>2, <3>1, Zenon DEF ListFrom
    <3>3. \A j \in heap' : j \in ListFrom' \/ Pending(p, j)'
      BY <2>1, <2>3, <3>1, <3>2, Zenon DEF Pending
    <3>4. next[k] = NULL
      BY <2>1, Zenon DEF LInv
    <3> QED
      BY <2>1, <2>2, <2>5, <3>1, <3>3, <3>4 DEF LInv
  <2> QED
    BY <2>4, <2>5, Zenon
<1>2. CASE Link(p)
  <2>1. /\ pc[p] = "link" /\ next' = [next EXCEPT ![pkt[p]] = packets]
        /\ UNCHANGED <<packets, heap, pkt>> /\ Goto(p, "publish")
    BY <1>2, Zenon DEF Link
  <2>2. next[pkt[p]] = NULL /\ pkt[p] \in heap /\ pc'[p] = "publish" /\ next'[pkt[p]] = packets
    BY <2>1, Zenon DEF LInv, Goto, IInv, TypeOK, Pointers, Claiming, PtrOf
  <2>3. \A j \in Packet : j # pkt[p] => next'[j] = next[j]
    BY <2>1, Zenon DEF IInv, TypeOK
  <2>4. ListFrom \subseteq ListFrom'
    <3>1. ASSUME NEW S \in SUBSET Packet, Closed(S)' PROVE Closed(S)
      BY <2>1, <2>2, <2>3, <3>1, Zenon DEF Closed, PtrOf
    <3> QED
      BY <3>1, ListGrows, Zenon
  <2>5. \A j \in heap : j \in ListFrom' \/ Pending(p, j)'
    BY <2>1, <2>2, <2>4 DEF LInv, Pending
  <2>6. \A k \in Packet \ heap : next'[k] = NULL
    BY <2>2, <2>3, Zenon DEF LInv
  <2> QED
    BY <2>1, <2>2, <2>5, <2>6, Zenon DEF LInv
<1>3. CASE Publish(p)
  <2>1. pc[p] = "publish" /\ packets' = pkt[p] /\ UNCHANGED <<next, heap, pkt>> /\ Goto(p, "unlock")
    BY <1>3, Zenon DEF Publish
  <2>2. next[pkt[p]] = packets /\ pkt[p] \in heap /\ pc'[p] = "unlock" /\ heap \subseteq Packet
    BY <2>1, Zenon DEF LInv, Goto, IInv, TypeOK, Pointers, Claiming, PtrOf
  <2>3. packets # NULL /\ pkt[p] # NULL
    BY <2>2, PoolAssumption, Zenon DEF LInv
  <2>4. ListFrom \subseteq ListFrom'
    <3>1. ASSUME NEW S \in SUBSET Packet, Closed(S)' PROVE Closed(S)
      BY <2>1, <2>2, <2>3, <3>1, Zenon DEF Closed, PtrOf
    <3> QED
      BY <3>1, ListGrows, Zenon
  <2>5. pkt[p] \in ListFrom'
    BY <2>1, <2>2, <2>3, Zenon DEF ListFrom, PtrOf
  <2>6. \A j \in heap : j \in ListFrom'
    BY <2>4, <2>5 DEF LInv, Pending
  <2> QED
    BY <2>1, <2>2, <2>3, <2>6, Zenon DEF LInv
<1>4. CASE GetPacket(p) \/ ScanNext(p) \/ ScanClaim(p) \/ ClearSpin(p) \/ LockHead(p) \/ UnlockHead(p)
             \/ \E data, expired \in BOOLEAN : Gather(p, data, expired)
  <2>1. UNCHANGED <<packets, next, heap>>
    BY <1>4, Zenon DEF GetPacket, ScanNext, ScanClaim, ClearSpin, LockHead, UnlockHead, Gather, pool
  <2>2. \/ pc' = pc /\ pkt' = pkt
        \/ pc[p] = "lock" /\ pc'[p] = "link" /\ pkt' = pkt
        \/ pc[p] \notin {"lock", "link", "publish"} /\ pc'[p] \notin {"lock", "link", "publish"}
    BY <1>4, Zenon DEF GetPacket, ScanNext, ScanClaim, ClearSpin, LockHead, UnlockHead, Gather, Return, Goto, IInv, TypeOK
  <2> QED
    BY <2>1, <2>2, ListIdle, Zenon
<1> QED
  BY <1>1, <1>2, <1>3, <1>4, Zenon DEF PluginStep

(* storage.h, "Send packets": with one plugin, whose get_packet nothing    *)
(* comes between, every sealed packet is on the list storage_main walks,   *)
(* however long that list gets.                                            *)
THEOREM ReadyReachableAlone ==
  ASSUME \A p, q \in Plugin : p = q
  PROVE  Spec => []ReadyReachable
<1>1. Init => LInv
  BY DEF Init, LInv
<1>2. IInv /\ LInv /\ [Next]_vars => LInv'
  <2> SUFFICES ASSUME IInv, LInv, [Next]_vars PROVE LInv'
    OBVIOUS
  <2>1. CASE StorageStep \/ UNCHANGED vars
    <3>1. UNCHANGED <<packets, next, heap, pc, pkt>>
      BY <2>1, Zenon DEF StorageStep, StorageMain, WalkPast, FetchLock, FetchUnlock, PostOk, PostFail,
                         vars, pool, plugins
    <3> QED
      BY <3>1, ListIdle, Zenon
  <2> QED
    BY <2>1, ListPlugin, Zenon DEF Next
<1>3. IInv /\ LInv => ReadyReachable
  <2> SUFFICES ASSUME IInv, LInv, NEW k \in heap, state[k] = "READY", NEW p \in Plugin, Pending(p, k) PROVE FALSE
    BY Zenon DEF LInv, ReadyReachable
  <2>1. Held(p) = k /\ k # NULL
    BY PoolAssumption, Zenon DEF Pending, Held, IInv, TypeOK
  <2> QED
    BY <2>1, Zenon DEF IInv, ExclusiveUse
<1> QED
  BY <1>1, <1>2, <1>3, Invariance, PTL DEF Spec
=============================================================================
