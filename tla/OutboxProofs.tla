---------------------------- MODULE OutboxProofs ----------------------------
(***************************************************************************)
(* What plugin_gather and storage_main do to batches, for any number of    *)
(* plugins, packets and records: no record is lost, a batch is whole and   *)
(* no record is in two, and the pool implements the outbox (Gather         *)
(* collects and seals, a post sends, every other step of get_packet and    *)
(* storage_main is invisible).                                             *)
(***************************************************************************)
EXTENDS PoolRefinesOutbox, PacketPoolProofs, SequenceTheorems

(* plugin_gather: a header and at least one record, all of one plugin and  *)
(* without a gap.                                                          *)
Whole(b) ==
  /\ b \in Seq(Item) /\ Len(b) > 1
  /\ b[1] = Header(b[1][1])
  /\ \A i \in 2..Len(b) : b[i] = <<b[1][1], b[2][2] + i - 2>>

(* Whose batch it is, and the numbers of its records *)
Owner(b) == b[1][1]
First(b) == b[2][2]
Final(b) == First(b) + Len(b) - 2

Before(b, c) == Owner(b) = Owner(c) => Final(b) < First(c)

-----------------------------------------------------------------------------
(* The parts of a whole batch have their types. *)
LEMMA WholeType ==
  ASSUME NEW b, Whole(b)
  PROVE  Owner(b) \in Plugin /\ First(b) \in Nat /\ Final(b) \in Nat /\ First(b) <= Final(b)
<1>1. b[1] \in Item /\ b[2] \in Item /\ Len(b) \in Nat
  BY DEF Whole
<1>2. b[1][1] \in Plugin /\ b[2][2] \in Nat
  BY <1>1, Zenon DEF Item
<1> QED
  BY <1>1, <1>2 DEF Whole, Owner, First, Final

(* plugin_gather writes the first record behind the header. *)
LEMMA WholeStart ==
  ASSUME NEW p \in Plugin, NEW n \in Nat, NEW b, b = Append(<<Header(p)>>, <<p, n>>)
  PROVE  Whole(b) /\ Owner(b) = p /\ First(b) = n /\ Final(b) = n /\ <<p, n>> \in Items(b)
<1>1. Whole(b) /\ Owner(b) = p /\ First(b) = n /\ Final(b) = n
  BY DEF Header, Item, Whole, Owner, First, Final
<1>2. b[2] = <<p, n>> /\ 2 \in DOMAIN b
  BY DEF Header
<1> QED
  BY <1>1, <1>2, Zenon DEF Items

(* plugin_gather writes another record behind the last one. *)
LEMMA WholeAppend ==
  ASSUME NEW b, Whole(b), NEW x, x = <<Owner(b), Final(b) + 1>>, NEW c, c = Append(b, x)
  PROVE  Whole(c) /\ Owner(c) = Owner(b) /\ First(c) = First(b) /\ Final(c) = Final(b) + 1
<1>1. x \in Item
  BY WholeType DEF Item
<1>2. /\ b \in Seq(Item) /\ Len(b) \in Nat /\ Len(b) > 1
      /\ c \in Seq(Item) /\ Len(c) = Len(b) + 1 /\ c[Len(b) + 1] = x
      /\ \A i \in 1..Len(b) : c[i] = b[i]
  BY <1>1 DEF Whole
<1>3. c[1] = b[1] /\ c[2] = b[2]
  BY <1>2
<1>4. \A i \in 2..Len(c) : c[i] = <<c[1][1], c[2][2] + i - 2>>
  <2>1. SUFFICES ASSUME NEW i \in 2..Len(c) PROVE c[i] = <<b[1][1], b[2][2] + i - 2>>
    BY <1>3, Zenon
  <2>2. CASE i = Len(b) + 1
    BY <1>2, <2>2, WholeType DEF Owner, Final, First
  <2>3. CASE i \in 2..Len(b)
    BY <1>2, <2>3 DEF Whole
  <2> QED
    BY <1>2, <2>2, <2>3
<1>5. Whole(c)
  BY <1>2, <1>3, <1>4 DEF Whole
<1>6. Owner(c) = Owner(b) /\ First(c) = First(b)
  BY <1>3, Zenon DEF Owner, First
<1> QED
  BY <1>2, <1>5, <1>6, WholeType DEF Final

(* Batches whose numbers do not overlap have no record in common. *)
LEMMA BeforeApart ==
  ASSUME NEW b, NEW c, Whole(b), Whole(c), Before(b, c) \/ Before(c, b),
         NEW i \in 2..Len(b), NEW j \in 2..Len(c)
  PROVE  b[i] # c[j]
<1>1. b[i] = <<Owner(b), First(b) + i - 2>> /\ c[j] = <<Owner(c), First(c) + j - 2>>
  BY Zenon DEF Whole, Owner, First
<1>2. Len(b) \in Nat /\ Len(c) \in Nat
  BY DEF Whole
<1>3. SUFFICES ASSUME Owner(b) = Owner(c) PROVE First(b) + i - 2 # First(c) + j - 2
  BY <1>1
<1>4. First(b) \in Nat /\ First(c) \in Nat
  BY WholeType, Zenon
<1>5. CASE Before(b, c)
  BY <1>2, <1>3, <1>4, <1>5 DEF Before, Final
<1>6. CASE Before(c, b)
  BY <1>2, <1>3, <1>4, <1>6 DEF Before, Final
<1> QED
  BY <1>5, <1>6, Zenon

-----------------------------------------------------------------------------
(* The batches that were sealed and are not forgotten. *)
Out == received \cup {payload[k] : k \in {j \in Packet : state[j] = "READY"}}

(* get_packet hands out empty packets. *)
Claimed == \A p \in Plugin : pc[p] \in Claiming => state[pkt[p]] = "EMPTY"

(* The batch that plugin p is filling ends with its last record, and none  *)
(* that was sealed reaches into it.                                        *)
Mine(p, b) ==
  /\ Whole(b) /\ Owner(b) = p /\ First(b) > 0 /\ Final(b) = made[p]
  /\ \A c \in Out : Before(c, b)

(* What a packet in use holds can be told from its state. *)
Filling ==
  \A p \in Plugin : Held(p) # NULL =>
    /\ state[Held(p)] = "EMPTY" => payload[Held(p)] = <<>>
    /\ state[Held(p)] = "BEGIN" => payload[Held(p)] = <<Header(p)>>
    /\ state[Held(p)] = "WROTE" => Mine(p, payload[Held(p)])

(* What was sealed is whole, overlaps with nothing else that was, and is   *)
(* in one packet only.                                                     *)
SealedWhole == \A b \in Out : Whole(b) /\ First(b) > 0 /\ Final(b) <= made[Owner(b)]

SealedApart == \A b, c \in Out : b = c \/ Before(b, c) \/ Before(c, b)

SealedOnce ==
  \A k, j \in Packet :
    state[k] = "READY" /\ state[j] = "READY" /\ payload[k] = payload[j] => k = j

(* Every record is in the packet its plugin fills or was sealed. *)
Kept ==
  \A p \in Plugin : \A n \in 1..made[p] :
    \/ working[p] # NULL /\ <<p, n>> \in Items(payload[working[p]])
    \/ \E b \in Out : <<p, n>> \in Items(b)

BInv == Filling /\ SealedWhole /\ SealedApart /\ SealedOnce /\ Kept

(* A step that gathers nothing: get_packet takes up packets that are empty *)
(* now, no packet in use changes, and nothing is sealed or forgotten.      *)
Quiet ==
  /\ made' = made /\ Out' = Out
  /\ \A k \in Packet : state'[k] = "READY" => state[k] = "READY" /\ payload'[k] = payload[k]
  /\ \A q \in Plugin : Held(q)' # NULL =>
       \/ (state[Held(q)] = "EMPTY" /\ payload[Held(q)] = <<>>)'
       \/ /\ Held(q)' = Held(q)
          /\ state'[Held(q)] = state[Held(q)] /\ payload'[Held(q)] = payload[Held(q)]
  /\ \A q \in Plugin : working[q] # NULL =>
       working'[q] = working[q] /\ payload'[working[q]] = payload[working[q]]

(* Such a step keeps the records together. *)
LEMMA QuietStep == ASSUME BInv, Quiet PROVE BInv'
<1>1. Filling'
  <2> SUFFICES ASSUME NEW q \in Plugin, Held(q)' # NULL
               PROVE  (/\ state[Held(q)] = "EMPTY" => payload[Held(q)] = <<>>
                       /\ state[Held(q)] = "BEGIN" => payload[Held(q)] = <<Header(q)>>
                       /\ state[Held(q)] = "WROTE" => Mine(q, payload[Held(q)]))'
    BY Zenon DEF Filling
  <2>1. CASE (state[Held(q)] = "EMPTY" /\ payload[Held(q)] = <<>>)'
    BY <2>1, Zenon
  <2>2. CASE /\ Held(q)' = Held(q)
             /\ state'[Held(q)] = state[Held(q)] /\ payload'[Held(q)] = payload[Held(q)]
    <3>1. Mine(q, payload[Held(q)]) => Mine(q, payload[Held(q)])'
      BY <2>2, Zenon DEF Mine, Quiet
    <3> QED
      BY <2>2, <3>1, Zenon DEF BInv, Filling
  <2> QED
    BY <2>1, <2>2, Zenon DEF Quiet
<1>2. SealedWhole' /\ SealedApart'
  BY Zenon DEF BInv, Quiet, SealedWhole, SealedApart
<1>3. SealedOnce'
  BY DEF BInv, Quiet, SealedOnce
<1>4. Kept'
  <2> SUFFICES ASSUME NEW q \in Plugin, NEW n \in 1..made[q]
               PROVE  (\/ working[q] # NULL /\ <<q, n>> \in Items(payload[working[q]])
                       \/ \E b \in Out : <<q, n>> \in Items(b))'
    BY Zenon DEF Quiet, Kept
  <2>1. CASE working[q] # NULL /\ <<q, n>> \in Items(payload[working[q]])
    BY <2>1 DEF Quiet, Items
  <2>2. CASE \E b \in Out : <<q, n>> \in Items(b)
    BY <2>2, Zenon DEF Quiet, Items
  <2> QED
    BY <2>1, <2>2, Zenon DEF BInv, Kept
<1> QED
  BY <1>1, <1>2, <1>3, <1>4, Zenon DEF BInv

(* What the sealed batches are depends on the READY packets only. *)
LEMMA SameOut ==
  ASSUME received' = received,
         \A k \in Packet : /\ state'[k] = "READY" <=> state[k] = "READY"
                           /\ state[k] = "READY" => payload'[k] = payload[k]
  PROVE  Out' = Out
<1>1. {j \in Packet : state'[j] = "READY"} = {j \in Packet : state[j] = "READY"}
  OBVIOUS
<1>2. \A k \in {j \in Packet : state[j] = "READY"} : payload'[k] = payload[k]
  OBVIOUS
<1> QED
  BY <1>1, <1>2, Zenon DEF Out

(* Appending to a payload keeps what it holds. *)
LEMMA ItemsAppend ==
  ASSUME NEW b \in Seq(Item), NEW x \in Item, NEW c, c = Append(b, x)
  PROVE  x \in Items(c) /\ \A y \in Items(b) : y \in Items(c)
<1>1. /\ DOMAIN b = 1..Len(b) /\ DOMAIN c = 1..(Len(b) + 1) /\ Len(b) \in Nat
      /\ c[Len(b) + 1] = x /\ \A i \in 1..Len(b) : c[i] = b[i]
  OBVIOUS
<1> QED
  BY <1>1 DEF Items

(* What plugin_gather makes of the packet k it works on: payload b, which  *)
(* has a header alone if there has been no record yet, and else ends with  *)
(* the plugin's last record.                                               *)
Gathered(p, data, k, b) ==
  /\ \/ ~data /\ state[k] # "WROTE" /\ b = <<Header(p)>>
     \/ /\ data \/ state[k] = "WROTE"
        /\ Whole(b) /\ Owner(b) = p /\ First(b) > 0 /\ Final(b) = made'[p]
        /\ \A c \in Out : Before(c, b)
  /\ \A n \in Nat \ {0} :
       <<p, n>> \in Items(payload[k]) => state[k] = "WROTE" /\ <<p, n>> \in Items(b)
  /\ data => <<p, made'[p]>> \in Items(b)

(* plugin_gather does that to the packet, whatever state it is in. *)
LEMMA GatherPayload ==
  ASSUME IInv, BInv, NEW p \in Plugin, NEW data \in BOOLEAN, NEW expired \in BOOLEAN,
         Gather(p, data, expired),
         NEW k, k = working[p], NEW b, b = payload'[k]
  PROVE  Gathered(p, data, k, b)
<1>1. /\ k \in Packet /\ k # NULL /\ Held(p) = k /\ made[p] \in Nat
      /\ state[k] \in {"EMPTY", "BEGIN", "WROTE"} /\ payload[k] \in Seq(Item)
      /\ made'[p] = IF data THEN made[p] + 1 ELSE made[p]
      /\ <<p, made[p] + 1>> \in Item /\ Header(p) \in Item
  <2>1. k \in Packet /\ k # NULL /\ pc[p] = "idle"
    BY Zenon DEF Gather, IInv, TypeOK, PtrOf
  <2>2. made[p] \in Nat /\ made'[p] = IF data THEN made[p] + 1 ELSE made[p]
    BY PoolAssumption DEF Gather, IInv, TypeOK
  <2>3. <<p, made[p] + 1>> \in Item /\ Header(p) \in Item
    BY <2>2 DEF Item, Header
  <2>4. Held(p) = k
    BY <2>1, Zenon DEF Held
  <2>5. state[k] \in {"EMPTY", "BEGIN", "WROTE"} /\ payload[k] \in Seq(Item)
    BY <2>1, <2>4, Zenon DEF IInv, TypeOK, ExclusiveUse
  <2> QED
    BY <2>1, <2>2, <2>3, <2>4, <2>5, Zenon
<1>2. /\ state[k] = "EMPTY" => payload[k] = <<>>
      /\ state[k] = "BEGIN" => payload[k] = <<Header(p)>>
      /\ state[k] = "WROTE" => Mine(p, payload[k])
  BY <1>1, Zenon DEF BInv, Filling
<1>3. b = IF data THEN Append(IF state[k] = "EMPTY" THEN Append(payload[k], Header(p)) ELSE payload[k],
                           <<p, made[p] + 1>>)
          ELSE IF state[k] = "EMPTY" THEN Append(payload[k], Header(p)) ELSE payload[k]
  BY <1>1, Zenon DEF Gather, IInv, TypeOK
<1>4. CASE state[k] = "WROTE"
  <2>1. Whole(payload[k]) /\ Owner(payload[k]) = p /\ Final(payload[k]) = made[p]
    BY <1>2, <1>4, Zenon DEF Mine
  <2>2. CASE data
    <3>1. b = Append(payload[k], <<p, made[p] + 1>>)
      BY <1>3, <1>4, <2>2, Zenon
    <3>2. Whole(b) /\ Owner(b) = p /\ First(b) = First(payload[k]) /\ Final(b) = made'[p]
      <4>1. <<p, made[p] + 1>> = <<Owner(payload[k]), Final(payload[k]) + 1>>
        BY <2>1, Zenon
      <4>2. Whole(b) /\ Owner(b) = Owner(payload[k]) /\ First(b) = First(payload[k])
              /\ Final(b) = Final(payload[k]) + 1
        BY <2>1, <3>1, <4>1, WholeAppend, Zenon
      <4> QED
        BY <1>1, <2>1, <2>2, <4>2, Zenon
    <3>3. \A c \in Out : Before(c, b)
      BY <1>2, <1>4, <2>1, <3>2, Zenon DEF Mine, Before
    <3>4. <<p, made[p] + 1>> \in Items(b) /\ \A x \in Items(payload[k]) : x \in Items(b)
      BY <1>1, <3>1, ItemsAppend, Zenon
    <3> QED
      BY <1>1, <1>2, <1>4, <2>2, <3>2, <3>3, <3>4, Zenon DEF Mine, Gathered
  <2>3. CASE ~data
    BY <1>1, <1>2, <1>3, <1>4, <2>3, Zenon DEF Mine, Gathered
  <2> QED
    BY <2>2, <2>3, Zenon
<1>5. CASE state[k] # "WROTE"
  <2>0. /\ payload[k] = <<>> \/ payload[k] = <<Header(p)>>
        /\ (IF state[k] = "EMPTY" THEN Append(payload[k], Header(p)) ELSE payload[k]) = <<Header(p)>>
    <3>1. Append(<<>>, Header(p)) = <<Header(p)>>
      BY <1>1
    <3>2. CASE state[k] = "EMPTY"
      BY <1>2, <3>1, <3>2, Zenon
    <3>3. CASE state[k] = "BEGIN"
      BY <1>2, <3>3, Zenon
    <3> QED
      BY <1>1, <1>5, <3>2, <3>3, Zenon
  <2>1. /\ b = IF data THEN Append(<<Header(p)>>, <<p, made[p] + 1>>) ELSE <<Header(p)>>
        /\ \A x \in Items(payload[k]) : x = Header(p)
    <3>1. \A x \in Items(payload[k]) : x = Header(p)
      <4>1. CASE payload[k] = <<>>
        BY <4>1 DEF Items
      <4>2. CASE payload[k] = <<Header(p)>>
        BY <4>2 DEF Items
      <4> QED
        BY <2>0, <4>1, <4>2, Zenon
    <3> QED
      BY <1>3, <2>0, <3>1, Zenon
  <2>2. \A n \in Nat \ {0} : <<p, n>> \notin Items(payload[k])
    BY <2>1, Zenon DEF Header
  <2>3. CASE data
    <3>0. b = Append(<<Header(p)>>, <<p, made[p] + 1>>)
      BY <2>1, <2>3, Zenon
    <3>1. made[p] + 1 \in Nat /\ made[p] + 1 > 0
      BY <1>1
    <3>2. /\ Whole(b) /\ Owner(b) = p /\ First(b) = made[p] + 1 /\ Final(b) = made[p] + 1
          /\ <<p, made[p] + 1>> \in Items(b)
      BY <3>0, <3>1, WholeStart, Zenon
    <3>3. ASSUME NEW c \in Out PROVE Before(c, b)
      <4>1. Whole(c) /\ Final(c) <= made[Owner(c)]
        BY Zenon DEF BInv, SealedWhole
      <4> QED
        BY <1>1, <3>2, <4>1, WholeType DEF Before
    <3> QED
      BY <1>1, <2>2, <2>3, <3>1, <3>2, <3>3, Zenon DEF Gathered
  <2> QED
    BY <1>5, <2>1, <2>2, <2>3, Zenon DEF Gathered
<1> QED
  BY <1>4, <1>5, Zenon

(* plugin_gather seals a packet only if it holds a record, and what it     *)
(* seals was not sealed before.                                            *)
LEMMA GatherSeals ==
  ASSUME IInv, BInv, NEW p \in Plugin, NEW data \in BOOLEAN, NEW expired \in BOOLEAN,
         Gather(p, data, expired),
         NEW k, k = working[p], NEW b, b = payload'[k]
  PROVE  /\ k \in heap /\ k \in Packet /\ k # NULL /\ Held(p) = k
         /\ \A j \in Packet : j # k => state'[j] = state[j] /\ payload'[j] = payload[j]
         /\ state'[k] = "READY" <=> expired /\ (data \/ state[k] = "WROTE")
         /\ state[k] # "READY" /\ b \notin Out
         /\ Out' = IF state'[k] = "READY" THEN Out \cup {b} ELSE Out
<1>1. k \in heap /\ k \in Packet /\ k # NULL /\ Held(p) = k /\ state[k] # "READY"
  BY PoolAssumption, Zenon DEF Gather, IInv, TypeOK, PtrOf, Held, ExclusiveUse
<1>2. \A j \in Packet : j # k => state'[j] = state[j] /\ payload'[j] = payload[j]
  BY <1>1, Zenon DEF Gather, IInv, TypeOK
<1>3. state'[k] = "READY" <=> expired /\ (data \/ state[k] = "WROTE")
  BY <1>1, Zenon DEF Gather, ExpiredState, IInv, TypeOK
<1>4. b \notin Out
  <2>1. ASSUME b \in Out PROVE FALSE
    <3>1. Whole(b) /\ Len(b) # 1
      BY <2>1 DEF BInv, SealedWhole, Whole
    <3>2. b # <<Header(p)>>
      <4>1. ASSUME b = <<Header(p)>> PROVE Len(b) = 1
        BY <4>1
      <4> QED
        BY <3>1, <4>1, Zenon
    <3>3. \A c \in Out : Before(c, b)
      <4>1. Gathered(p, data, k, b)
        BY GatherPayload, Zenon
      <4> QED
        BY <3>2, <4>1, Zenon DEF Gathered
    <3> QED
      BY <2>1, <3>1, <3>3, WholeType DEF Before
  <2> QED
    BY <2>1, Zenon
<1>5. Out' = IF state'[k] = "READY" THEN Out \cup {b} ELSE Out
  <2>1. received' = received
    BY Zenon DEF Gather
  <2>2. CASE state'[k] = "READY"
    <3>1. {j \in Packet : state'[j] = "READY"} = {j \in Packet : state[j] = "READY"} \cup {k}
      BY <1>1, <1>2, <2>2, Zenon
    <3>2. \A j \in {i \in Packet : state[i] = "READY"} : payload'[j] = payload[j]
      BY <1>1, <1>2, Zenon
    <3> QED
      BY <2>1, <2>2, <3>1, <3>2 DEF Out
  <2>3. CASE state'[k] # "READY"
    BY <1>1, <1>2, <2>1, <2>3, SameOut, Zenon
  <2> QED
    BY <2>2, <2>3, Zenon
<1> QED
  BY <1>1, <1>2, <1>3, <1>4, <1>5, Zenon

(* A run of plugin_gather keeps the records together. *)
LEMMA GatherStep ==
  ASSUME IInv, Claimed, BInv, NEW p \in Plugin, NEW data \in BOOLEAN, NEW expired \in BOOLEAN,
         Gather(p, data, expired)
  PROVE  BInv' /\ Claimed'
<1>k. PICK k : k = working[p]
  OBVIOUS
<1>b. PICK b : b = payload'[k]
  OBVIOUS
<1>1. /\ k \in heap /\ k \in Packet /\ k # NULL /\ Held(p) = k
      /\ \A j \in Packet : j # k => state'[j] = state[j] /\ payload'[j] = payload[j]
      /\ state'[k] = "READY" <=> expired /\ (data \/ state[k] = "WROTE")
      /\ state[k] # "READY" /\ b \notin Out
      /\ Out' = IF state'[k] = "READY" THEN Out \cup {b} ELSE Out
  BY <1>k, <1>b, GatherSeals
<1>2. Gathered(p, data, k, b)
  BY <1>k, <1>b, GatherPayload, Zenon
<1>3. /\ UNCHANGED <<pc, pkt>> /\ pc[p] = "idle"
      /\ \A q \in Plugin : made[q] \in Nat /\ (q # p => made'[q] = made[q])
      /\ made'[p] = IF data THEN made[p] + 1 ELSE made[p]
      /\ \A q \in Plugin : q # p => working'[q] = working[q] /\ Held(q)' = Held(q) /\ Held(q) # k
      /\ working'[p] = IF expired THEN NULL ELSE k
      /\ Held(p)' = working'[p]
  <2>1. UNCHANGED <<pc, pkt>> /\ pc[p] = "idle"
    BY Zenon DEF Gather
  <2>2. /\ \A q \in Plugin : made[q] \in Nat /\ (q # p => made'[q] = made[q])
        /\ made'[p] = IF data THEN made[p] + 1 ELSE made[p]
    BY PoolAssumption DEF Gather, IInv, TypeOK
  <2>3. /\ \A q \in Plugin : q # p => working'[q] = working[q]
        /\ working'[p] = IF expired THEN NULL ELSE k
    BY <1>k, Zenon DEF Gather, WorkingAfter, IInv, TypeOK
  <2>4. \A q \in Plugin : q # p => Held(q)' = Held(q) /\ Held(q) # k
    BY <1>1, <2>1, <2>3, Zenon DEF Held, IInv, ExclusiveUse
  <2> QED
    BY <2>1, <2>2, <2>3, <2>4, Zenon DEF Held
<1>w. state'[k] = "READY" =>
        /\ Whole(b) /\ Owner(b) = p /\ First(b) > 0 /\ Final(b) = made'[p]
        /\ \A c \in Out : Before(c, b)
  BY <1>1, <1>2, Zenon DEF Gathered
<1>4. SealedWhole'
  <2> SUFFICES ASSUME NEW c \in Out'
               PROVE  Whole(c) /\ First(c) > 0 /\ Final(c) <= made'[Owner(c)]
    BY Zenon DEF SealedWhole, Whole, First, Final, Owner
  <2>1. CASE c \in Out
    <3>1. Whole(c) /\ First(c) > 0 /\ Final(c) <= made[Owner(c)]
      BY <2>1, Zenon DEF BInv, SealedWhole
    <3> QED
      BY <1>3, <3>1, WholeType
  <2>2. CASE c = b /\ state'[k] = "READY"
    BY <1>w, <2>2, WholeType
  <2> QED
    BY <1>1, <2>1, <2>2, Zenon
<1>5. SealedApart'
  <2> SUFFICES ASSUME NEW c \in Out', NEW d \in Out'
               PROVE  c = d \/ Before(c, d) \/ Before(d, c)
    BY Zenon DEF SealedApart, Before, Owner, First, Final
  <2>1. CASE c \in Out /\ d \in Out
    BY <2>1, Zenon DEF BInv, SealedApart
  <2>2. CASE state'[k] = "READY"
    BY <1>1, <1>w, <2>1, <2>2, Zenon
  <2> QED
    BY <1>1, <2>1, <2>2, Zenon
<1>6. SealedOnce'
  <2> SUFFICES ASSUME NEW i \in Packet, NEW j \in Packet, i # j,
                      state'[i] = "READY", state'[j] = "READY"
               PROVE  payload'[i] # payload'[j]
    BY Zenon DEF SealedOnce
  <2>1. \A l \in Packet : state[l] = "READY" => payload[l] \in Out
    BY Zenon DEF Out
  <2>2. CASE i # k /\ j # k
    BY <1>1, <2>2, Zenon DEF BInv, SealedOnce
  <2>3. CASE i = k \/ j = k
    BY <1>b, <1>1, <2>1, <2>3, Zenon
  <2> QED
    BY <2>2, <2>3, Zenon
<1>7. Filling'
  <2> SUFFICES ASSUME NEW q \in Plugin, Held(q)' # NULL
               PROVE  (/\ state[Held(q)] = "EMPTY" => payload[Held(q)] = <<>>
                       /\ state[Held(q)] = "BEGIN" => payload[Held(q)] = <<Header(q)>>
                       /\ state[Held(q)] = "WROTE" => Mine(q, payload[Held(q)]))'
    BY Zenon DEF Filling
  <2>1. CASE q # p
    <3>1. /\ Held(q)' = Held(q) /\ Held(q) \in Packet /\ made'[q] = made[q]
          /\ state'[Held(q)] = state[Held(q)] /\ payload'[Held(q)] = payload[Held(q)]
      BY <1>1, <1>3, <2>1, HeldInHeap, Zenon DEF IInv, TypeOK
    <3>2. ASSUME Mine(q, payload[Held(q)]) PROVE Mine(q, payload[Held(q)])'
      <4>1. \A c \in Out : Before(c, payload[Held(q)])
        BY <3>2, Zenon DEF Mine
      <4>2. state'[k] = "READY" => Before(b, payload[Held(q)])
        BY <1>w, <2>1, <3>2, Zenon DEF Mine, Before
      <4>3. \A c \in Out' : Before(c, payload[Held(q)])
        BY <1>1, <4>1, <4>2, Zenon
      <4> QED
        BY <3>1, <3>2, <4>3, Zenon DEF Mine
    <3> QED
      BY <3>1, <3>2, Zenon DEF BInv, Filling
  <2>2. CASE q = p
    <3>1. Held(q)' = k /\ ~expired
      BY <1>3, <2>2, Zenon
    <3>2. state'[k] = IF data \/ state[k] = "WROTE" THEN "WROTE" ELSE "BEGIN"
      BY <1>k, <1>1, <3>1, Zenon DEF Gather, IInv, TypeOK
    <3>3. Out' = Out
      BY <1>1, <3>1, Zenon
    <3>4. (data \/ state[k] = "WROTE") => Mine(p, b)'
      BY <1>2, <3>3, Zenon DEF Mine, Gathered
    <3> QED
      BY <1>b, <1>2, <2>2, <3>1, <3>2, <3>4, Zenon DEF Gathered
  <2> QED
    BY <2>1, <2>2, Zenon
<1>8. Kept'
  <2> SUFFICES ASSUME NEW q \in Plugin, NEW n \in 1..made'[q]
               PROVE  (\/ working[q] # NULL /\ <<q, n>> \in Items(payload[working[q]])
                       \/ \E c \in Out : <<q, n>> \in Items(c))'
    BY Zenon DEF Kept
  <2>0. \A c \in Out : c \in Out'
    BY <1>1, Zenon
  <2>1. CASE \E c \in Out : <<q, n>> \in Items(c)
    BY <2>0, <2>1, Zenon DEF Items
  <2>2. CASE q # p
    <3>1. CASE working[q] # NULL /\ <<q, n>> \in Items(payload[working[q]])
      <4>1. working[q] = Held(q) /\ working[q] \in Packet /\ working[q] # k
        BY <1>3, <2>2, <3>1, Zenon DEF Held, IInv, TypeOK, Pointers, PtrOf
      <4>2. working'[q] = working[q] /\ payload'[working[q]] = payload[working[q]]
        BY <1>1, <1>3, <2>2, <4>1, Zenon
      <4> QED
        BY <3>1, <4>2, Zenon DEF Items
    <3> QED
      BY <1>3, <2>1, <2>2, <3>1, Zenon DEF BInv, Kept
  <2>3. CASE q = p /\ <<q, n>> \in Items(b)
    <3>1. CASE ~expired
      BY <1>b, <1>1, <1>3, <2>3, <3>1 DEF Items
    <3>2. CASE expired
      <4>1. state'[k] = "READY"
        BY <1>1, <1>2, <2>3, <3>2 DEF Gathered, Header, Items
      <4> QED
        BY <1>1, <2>3, <4>1, Zenon DEF Items
    <3> QED
      BY <3>1, <3>2, Zenon
  <2>4. CASE q = p /\ data /\ n = made'[p]
    BY <1>2, <2>3, <2>4, Zenon DEF Gathered
  <2>5. CASE q = p /\ n \in 1..made[p]
    <3>1. <<p, n>> \in Items(payload[k]) \/ \E c \in Out : <<p, n>> \in Items(c)
      BY <1>k, <2>5, Zenon DEF BInv, Kept
    <3>2. <<p, n>> \in Items(payload[k]) => <<p, n>> \in Items(b)
      BY <1>2, <2>5 DEF Gathered
    <3> QED
      BY <2>1, <2>3, <2>5, <3>1, <3>2, Zenon
  <2>6. q = p => (data /\ n = made'[p]) \/ n \in 1..made[p]
    BY <1>3
  <2> QED
    BY <2>2, <2>4, <2>5, <2>6, Zenon
<1>9. Claimed'
  <2>1. ASSUME NEW q \in Plugin, pc[q] \in Claiming
        PROVE  pkt[q] \in Packet /\ pkt[q] # k
    BY <1>3, <2>1, Zenon DEF Held, Claiming, IInv, TypeOK, Pointers, PtrOf
  <2> QED
    BY <1>1, <1>3, <2>1, Zenon DEF Claimed
<1> QED
  BY <1>4, <1>5, <1>6, <1>7, <1>8, <1>9, Zenon DEF BInv

-----------------------------------------------------------------------------

(* get_packet disturbs no batch. *)
LEMMA GetPacketQuiet ==
  ASSUME IInv, Claimed, Filling, NEW p \in Plugin, PluginStep(p),
         ~ \E data, expired \in BOOLEAN : Gather(p, data, expired)
  PROVE  Quiet /\ Claimed'
<1> USE DEF IInv, pool, plugins, storage
<1>1. CASE GetPacket(p) \/ ScanNext(p) \/ LockHead(p) \/ Link(p) \/ Publish(p)
  <2>1. /\ UNCHANGED <<state, payload, made, received, working>>
        /\ \A q \in Plugin : /\ Held(q)' = Held(q)
                             /\ pc'[q] \in Claiming => pc[q] \in Claiming /\ pkt'[q] = pkt[q]
    BY <1>1, Zenon DEF GetPacket, ScanNext, LockHead, Link, Publish, Goto, Held, Claiming, TypeOK, Pointers
  <2>2. Out' = Out
    BY <2>1, SameOut, Zenon
  <2>3. Quiet
    BY <2>1, <2>2, Zenon DEF Quiet
  <2> QED
    BY <2>1, <2>3, Zenon DEF Claimed
<1>2. CASE ScanClaim(p)
  <2>1. /\ pkt[p] \in Packet /\ state[pkt[p]] = "DONE"
        /\ state' = [state EXCEPT ![pkt[p]] = "EMPTY"]
        /\ payload' = [payload EXCEPT ![pkt[p]] = <<>>]
        /\ UNCHANGED <<made, received, working, pkt>>
    BY <1>2, Zenon DEF ScanClaim, Claimable, Reopen, TypeOK, PtrOf
  <2>2. \A q \in Plugin : /\ Held(q)' = IF q = p THEN pkt[p] ELSE Held(q)
                          /\ Held(q) # pkt[p]
                          /\ working[q] # NULL => Held(q) = working[q]
                          /\ pc'[q] \in Claiming => q = p \/ pc[q] \in Claiming
    BY <1>2, <2>1, Zenon DEF ScanClaim, Goto, Held, Claiming, TypeOK, Pointers, ExclusiveUse
  <2>3. Out' = Out
    BY <2>1, SameOut, Zenon DEF TypeOK
  <2>4. \A j \in Packet : j # pkt[p] => state'[j] = state[j] /\ payload'[j] = payload[j]
    BY <2>1, Zenon DEF TypeOK
  <2>5. state'[pkt[p]] = "EMPTY" /\ payload'[pkt[p]] = <<>>
    BY <2>1, Zenon DEF TypeOK
  <2>6. \A q \in Plugin : Held(q) # NULL => Held(q) \in Packet
    BY HeldInHeap, Zenon DEF TypeOK
  <2>7. Quiet
    BY <2>1, <2>2, <2>3, <2>4, <2>5, <2>6 DEF Quiet
  <2>8. Claimed'
    BY <2>1, <2>2, <2>4, <2>5, <2>6 DEF Claimed, Held, Claiming, Pointers
  <2> QED
    BY <2>7, <2>8, Zenon
<1>3. CASE ClearSpin(p) \/ UnlockHead(p)
  <2>1. /\ UNCHANGED <<state, payload, made, received>>
        /\ pc[p] \in Claiming /\ working' = [working EXCEPT ![p] = pkt[p]]
        /\ \A q \in Plugin : /\ Held(q)' = Held(q)
                             /\ pc'[q] \in Claiming => pc[q] \in Claiming /\ pkt'[q] = pkt[q]
    BY <1>3 DEF ClearSpin, UnlockHead, Return, Goto, Held, Claiming, TypeOK
  <2>2. Out' = Out
    BY <2>1, SameOut, Zenon
  <2>3. Quiet
    BY <2>1, <2>2, Zenon DEF Quiet, Pointers, TypeOK, Claiming
  <2> QED
    BY <2>1, <2>3, Zenon DEF Claimed
<1>4. CASE Alloc(p)
  <2>1. PICK k \in Packet \ heap :
        /\ state' = [state EXCEPT ![k] = "EMPTY"]
        /\ payload' = [payload EXCEPT ![k] = <<>>]
        /\ \/ Return(p, k)
           \/ /\ pkt' = [pkt EXCEPT ![p] = k]
              /\ Goto(p, "lock")
              /\ UNCHANGED working
    BY <1>4, Zenon DEF Alloc
  <2>2. UNCHANGED <<made, received>> /\ pc[p] = "scan"
    BY <1>4, Zenon DEF Alloc
  <2>3. \A q \in Plugin : /\ Held(q)' = IF q = p THEN k ELSE Held(q)
                          /\ Held(q) # k
                          /\ working[q] # NULL => Held(q) = working[q] /\ working'[q] = working[q]
                          /\ pc'[q] \in Claiming /\ q # p => pc[q] \in Claiming /\ pkt'[q] = pkt[q]
                          /\ pkt[q] # k
    BY <2>1, <2>2, PoolAssumption DEF Return, Goto, Held, Claiming, TypeOK, Pointers, PtrOf
  <2>4. Out' = Out
    BY <2>1, <2>2, SameOut, Zenon DEF TypeOK, Fresh
  <2>a. \A j \in Packet : j # k => state'[j] = state[j] /\ payload'[j] = payload[j]
    BY <2>1, Zenon DEF TypeOK
  <2>b. state'[k] = "EMPTY" /\ payload'[k] = <<>>
    BY <2>1, Zenon DEF TypeOK
  <2>c. \A q \in Plugin : Held(q) # NULL => Held(q) \in Packet
    BY HeldInHeap, Zenon DEF TypeOK
  <2>5. Quiet
    BY <2>1, <2>2, <2>3, <2>4, <2>a, <2>b, <2>c DEF Quiet
  <2>6. Claimed'
    <3> SUFFICES ASSUME NEW q \in Plugin, pc'[q] \in Claiming PROVE state'[pkt'[q]] = "EMPTY"
      BY Zenon DEF Claimed
    <3>1. CASE q = p
      <4>1. ~ Return(p, k)
        BY <3>1, Zenon DEF Return, Goto, Claiming, TypeOK
      <4> QED
        BY <2>1, <2>b, <3>1, <4>1, Zenon DEF TypeOK
    <3>2. CASE q # p
      BY <2>1, <2>3, <3>2 DEF Claimed, TypeOK, PtrOf, Pointers
    <3> QED
      BY <3>1, <3>2, Zenon
  <2> QED
    BY <2>5, <2>6, Zenon
<1> QED
  BY <1>1, <1>2, <1>3, <1>4, Zenon DEF PluginStep

(* storage_main moves batches from their packets to the server. *)
LEMMA StorageQuiet ==
  ASSUME IInv, Claimed, StorageStep
  PROVE  Quiet /\ Claimed'
<1> USE DEF IInv, pool, plugins
<1>0. UNCHANGED <<made, payload, working, pc, pkt>> /\ \A q \in Plugin : Held(q)' = Held(q)
  BY Zenon DEF StorageStep, StorageMain, WalkPast, FetchLock, FetchUnlock, PostOk, PostFail, Held
<1>1. CASE StorageMain \/ WalkPast \/ FetchLock \/ FetchUnlock
  <2>1. UNCHANGED <<state, received>>
    BY <1>1, Zenon DEF StorageMain, WalkPast, FetchLock, FetchUnlock
  <2>2. Out' = Out
    BY <1>0, <2>1, SameOut, Zenon
  <2> QED
    BY <1>0, <2>1, <2>2, Zenon DEF Quiet, Claimed
<1>2. CASE PostOk
  <2>1. /\ cur \in Packet /\ state[cur] = "READY" /\ state' = [state EXCEPT ![cur] = "DONE"]
        /\ received' = received \cup {payload[cur]}
    BY <1>2, Zenon DEF PostOk, TypeOK, PtrOf, Pointers, PostingReady
  <2>2. Out' = Out
    <3>1. \A j \in Packet : state'[j] = "READY" <=> state[j] = "READY" /\ j # cur
      BY <2>1, Zenon DEF TypeOK
    <3> QED
      BY <1>0, <2>1, <3>1, Zenon DEF Out
  <2>3. \A q \in Plugin : Held(q) # NULL => Held(q) # cur
    BY <2>1, Zenon DEF ExclusiveUse
  <2>4. Quiet
    BY <1>0, <2>1, <2>2, <2>3, HeldInHeap, Zenon DEF Quiet, TypeOK, PtrOf
  <2> QED
    BY <1>0, <2>1, <2>4, Zenon DEF Claimed, TypeOK, PtrOf, Pointers
<1>3. CASE PostFail
  <2>1. /\ cur \in Packet /\ state[cur] = "READY" /\ state' = state
        /\ received' = received \/ received' = received \cup {payload[cur]}
    BY <1>3, Zenon DEF PostFail, TypeOK, PtrOf, Pointers, PostingReady
  <2>2. Out' = Out
    BY <1>0, <2>1, Zenon DEF Out
  <2> QED
    BY <1>0, <2>1, <2>2, Zenon DEF Quiet, Claimed
<1> QED
  BY <1>1, <1>2, <1>3, Zenon DEF StorageStep

(* Nothing has been gathered when the threads start. *)
LEMMA InitBInv == Init => BInv /\ Claimed
<1> SUFFICES ASSUME Init PROVE BInv /\ Claimed
  OBVIOUS
<1>1. Out = {}
  BY Zenon DEF Init, Out
<1>2. SealedWhole /\ SealedApart /\ SealedOnce
  BY <1>1, Zenon DEF Init, SealedWhole, SealedApart, SealedOnce
<1>3. Filling /\ Claimed
  BY Zenon DEF Init, Filling, Claimed, Claiming, Held
<1>4. Kept
  BY DEF Init, Kept
<1> QED
  BY <1>2, <1>3, <1>4, Zenon DEF BInv

(* No step of the plugin threads or of the storage thread breaks it. *)
LEMMA NextBInv == IInv /\ BInv /\ Claimed /\ [Next]_vars => BInv' /\ Claimed'
<1> SUFFICES ASSUME IInv, BInv, Claimed, [Next]_vars PROVE BInv' /\ Claimed'
  OBVIOUS
<1>1. CASE StorageStep
  BY <1>1, StorageQuiet, QuietStep, Zenon
<1>2. ASSUME NEW p \in Plugin, PluginStep(p) PROVE BInv' /\ Claimed'
  <2>1. CASE \E data, expired \in BOOLEAN : Gather(p, data, expired)
    BY <2>1, GatherStep, Zenon
  <2>2. CASE ~ \E data, expired \in BOOLEAN : Gather(p, data, expired)
    <3>1. Filling
      BY Zenon DEF BInv
    <3> QED
      BY <1>2, <2>2, <3>1, GetPacketQuiet, QuietStep, Zenon
  <2> QED
    BY <2>1, <2>2, Zenon
<1>3. CASE UNCHANGED vars
  <2>1. Out' = Out /\ \A q \in Plugin : Held(q)' = Held(q)
    BY <1>3, Zenon DEF vars, pool, plugins, Out, Held
  <2>2. Quiet
    BY <1>3, <2>1, Zenon DEF vars, pool, plugins, Quiet
  <2>3. Claimed'
    BY <1>3, Zenon DEF vars, pool, plugins, Claimed
  <2> QED
    BY <2>2, <2>3, QuietStep, Zenon
<1> QED
  BY <1>1, <1>2, <1>3, Zenon DEF Next

(* Hence it holds whenever get_packet, plugin_gather and storage_main run. *)
LEMMA BatchInvariance == Spec => [](IInv /\ BInv /\ Claimed)
  BY InitIInv, NextIInv, InitBInv, NextBInv, PTL DEF Spec

-----------------------------------------------------------------------------
(* Every metric record plugin_gather has collected is in its open packet,  *)
(* in a READY packet or at the server, however many plugins fill packets,  *)
(* whatever storage_main is doing and however often a post failed.         *)
THEOREM ConservedAlways == Spec => []RecordsConserved
<1>1. IInv /\ BInv => RecordsConserved
  <2> SUFFICES ASSUME IInv, BInv, NEW p \in Plugin, NEW n \in 1..made[p],
                      ~(working[p] # NULL /\ <<p, n>> \in Items(payload[working[p]]))
               PROVE  \/ \E k \in heap : state[k] = "READY" /\ <<p, n>> \in Items(payload[k])
                      \/ \E b \in received : <<p, n>> \in Items(b)
    BY Zenon DEF RecordsConserved
  <2>1. PICK b \in Out : <<p, n>> \in Items(b)
    BY Zenon DEF BInv, Kept
  <2>2. ASSUME NEW k \in Packet, state[k] = "READY" PROVE k \in heap
    BY <2>2, Zenon DEF IInv, Fresh
  <2> QED
    BY <2>1, <2>2, Zenon DEF Out
<1> QED
  BY <1>1, BatchInvariance, PTL

(* What storage_main sends is one header followed by consecutive records   *)
(* of one plugin, and no record comes in two batches.                      *)
THEOREM BatchesWholeAlways == Spec => []BatchesWhole
<1>1. BInv => BatchesWhole
  <2> SUFFICES ASSUME BInv PROVE BatchesWhole
    OBVIOUS
  <2>1. \A b \in received : b \in Out
    BY Zenon DEF Out
  <2>2. \A b \in received : Whole(b)
    BY <2>1, Zenon DEF BInv, SealedWhole
  <2>3. ASSUME NEW b \in received, NEW c \in received, b # c,
               NEW i \in 2..Len(b), NEW j \in 2..Len(c)
        PROVE  b[i] # c[j]
    <3>1. Before(b, c) \/ Before(c, b)
      BY <2>1, <2>3, Zenon DEF BInv, SealedApart
    <3> QED
      BY <2>2, <3>1, BeforeApart, Zenon
  <2> QED
    BY <2>2, <2>3, Zenon DEF BatchesWhole, Whole
<1> QED
  BY <1>1, BatchInvariance, PTL

-----------------------------------------------------------------------------
(* The records of a payload that plugin_gather adds to. *)
LEMMA RecordsAppend ==
  ASSUME NEW b \in Seq(Item), b # <<>>, NEW x \in Item, NEW c, c = Append(b, x)
  PROVE  Records(c) = Append(Records(b), x)
<1>1. Len(b) \in Nat /\ Len(b) > 0 /\ c \in Seq(Item) /\ c # <<>>
  OBVIOUS
<1>2. Tail(b) \in Seq(Item) /\ Tail(c) \in Seq(Item)
  BY <1>1
<1>3. Len(Tail(c)) = Len(b) /\ Len(Append(Tail(b), x)) = Len(b)
  BY <1>1, <1>2
<1>4. ASSUME NEW i \in 1..Len(b) PROVE Tail(c)[i] = Append(Tail(b), x)[i]
  <2>1. CASE i = Len(b)
    BY <1>1, <1>2, <2>1
  <2>2. CASE i # Len(b)
    BY <1>1, <1>2, <2>2
  <2> QED
    BY <2>1, <2>2, Zenon
<1>5. Tail(c) = Append(Tail(b), x)
  <2>1. Append(Tail(b), x) \in Seq(Item)
    BY <1>2
  <2> QED
    BY <1>2, <1>3, <1>4, <2>1, SeqEqual, Zenon
<1> QED
  BY <1>1, <1>5, Zenon DEF Records

(* Sealed batches can be told apart by their records. *)
LEMMA RecordsApart ==
  ASSUME SealedWhole, SealedApart, NEW b \in Out, NEW c \in Out, Records(b) = Records(c)
  PROVE  b = c
<1>1. Whole(b) /\ Whole(c)
  BY Zenon DEF SealedWhole
<1>2. /\ b \in Seq(Item) /\ c \in Seq(Item) /\ Len(b) > 1 /\ Len(c) > 1
      /\ Len(b) \in Nat /\ Len(c) \in Nat
  BY <1>1 DEF Whole
<1>3. Records(b) = Tail(b) /\ Records(c) = Tail(c)
  BY <1>2 DEF Records
<1>4. Tail(b)[1] = b[2] /\ Tail(c)[1] = c[2]
  BY <1>2
<1>5. b[2] = c[2]
  BY <1>3, <1>4, Zenon
<1>6. 2 \in 2..Len(b) /\ 2 \in 2..Len(c)
  BY <1>2
<1> QED
  BY <1>1, <1>5, <1>6, BeforeApart, Zenon DEF SealedApart

(* A run of plugin_gather collects into the open batch, and seals it if    *)
(* the packet has expired and holds a record.                              *)
LEMMA GatherCollects ==
  ASSUME IInv, BInv, NEW p \in Plugin, NEW data \in BOOLEAN, NEW expired \in BOOLEAN,
         Gather(p, data, expired)
  PROVE  \E seal \in BOOLEAN : O!Collect(p, data, seal)
<1>k. PICK k : k = working[p]
  OBVIOUS
<1>b. PICK b : b = payload'[k]
  OBVIOUS
<1>1. /\ k \in heap /\ k \in Packet /\ k # NULL /\ Held(p) = k
      /\ \A j \in Packet : j # k => state'[j] = state[j] /\ payload'[j] = payload[j]
      /\ state'[k] = "READY" <=> expired /\ (data \/ state[k] = "WROTE")
      /\ state[k] # "READY"
  BY <1>k, <1>b, GatherSeals
<1>2. Gathered(p, data, k, b)
  BY <1>k, <1>b, GatherPayload, Zenon
<1>3. UNCHANGED <<received, heap>> /\ made' = [made EXCEPT ![p] = IF data THEN @ + 1 ELSE @]
  BY Zenon DEF Gather
<1>4. /\ \A q \in Plugin : q # p => working'[q] = working[q] /\ working[q] # k
      /\ working'[p] = IF expired THEN NULL ELSE k
  <2>1. /\ \A q \in Plugin : q # p => working'[q] = working[q]
        /\ working'[p] = IF expired THEN NULL ELSE k
    BY <1>k, Zenon DEF Gather, WorkingAfter, IInv, TypeOK
  <2>2. ASSUME NEW q \in Plugin, q # p, working[q] = k PROVE FALSE
    BY <1>1, <2>2 DEF IInv, Held, ExclusiveUse, Pointers
  <2> QED
    BY <2>1, <2>2, Zenon
<1>5. Records(b) = IF data THEN Append(OpenBatch(p), <<p, made[p] + 1>>) ELSE OpenBatch(p)
  <2>1. /\ payload[k] \in Seq(Item) /\ Header(p) \in Item /\ <<p, made[p] + 1>> \in Item
        /\ state[k] \in {"EMPTY", "BEGIN", "WROTE"} /\ OpenBatch(p) = Records(payload[k])
    <3>1. made[p] \in Nat
      BY PoolAssumption DEF IInv, TypeOK
    <3>2. Header(p) \in Item /\ <<p, made[p] + 1>> \in Item
      BY <3>1 DEF Header, Item
    <3> QED
      BY <1>k, <1>1, <3>2, Zenon DEF IInv, TypeOK, ExclusiveUse, OpenBatch
  <2>2. PICK g : g = IF state[k] = "EMPTY" THEN Append(payload[k], Header(p)) ELSE payload[k]
    BY Zenon
  <2>3. b = IF data THEN Append(g, <<p, made[p] + 1>>) ELSE g
    BY <1>k, <1>b, <1>1, <2>2, Zenon DEF Gather, IInv, TypeOK
  <2>4. g \in Seq(Item) /\ g # <<>> /\ Records(g) = Records(payload[k])
    <3>1. CASE state[k] = "EMPTY"
      <4>1. payload[k] = <<>>
        BY <1>1, <3>1, Zenon DEF BInv, Filling
      <4>2. g = <<Header(p)>>
        BY <2>1, <2>2, <3>1, <4>1
      <4>3. g \in Seq(Item) /\ g # <<>> /\ Tail(g) = <<>>
        BY <2>1, <4>2
      <4> QED
        BY <4>1, <4>3, Zenon DEF Records
    <3>2. CASE state[k] = "BEGIN"
      <4>1. payload[k] = <<Header(p)>>
        BY <1>1, <3>2, Zenon DEF BInv, Filling
      <4>2. payload[k] # <<>>
        BY <4>1
      <4> QED
        BY <2>1, <2>2, <3>2, <4>2, Zenon
    <3>3. CASE state[k] = "WROTE"
      <4>1. Len(payload[k]) > 1
        BY <1>1, <3>3, Zenon DEF BInv, Filling, Mine, Whole
      <4>2. payload[k] # <<>>
        BY <4>1
      <4> QED
        BY <2>1, <2>2, <3>3, <4>2, Zenon
    <3> QED
      BY <2>1, <3>1, <3>2, <3>3, Zenon
  <2>5. data => Records(b) = Append(Records(g), <<p, made[p] + 1>>)
    BY <2>1, <2>3, <2>4, RecordsAppend, Zenon
  <2> QED
    BY <2>1, <2>3, <2>4, <2>5, Zenon
<1>6. \A q \in Plugin : q # p => OpenBatch(q)' = OpenBatch(q)
  BY <1>1, <1>4 DEF OpenBatch, Records, IInv, TypeOK, PtrOf
<1>7. /\ (data \/ state[k] = "WROTE") => Records(b) # <<>>
      /\ ~(data \/ state[k] = "WROTE") => Records(b) = <<>>
  <2>1. CASE data \/ state[k] = "WROTE"
    <3>1. b \in Seq(Item) /\ Len(b) > 1
      BY <1>2, <2>1, Zenon DEF Gathered, Whole
    <3>2. b # <<>> /\ Tail(b) # <<>>
      <4>1. b # <<>>
        BY <3>1
      <4>2. Len(Tail(b)) = Len(b) - 1 /\ Len(b) \in Nat
        BY <3>1, <4>1, HeadTailProperties
      <4>3. \A n \in Nat : n > 1 => n - 1 # 0
        OBVIOUS
      <4>4. Len(Tail(b)) # 0
        BY <3>1, <4>2, <4>3, Zenon
      <4> QED
        BY <4>1, <4>4, EmptySeq, Zenon
    <3> QED
      BY <2>1, <3>2, Zenon DEF Records
  <2>2. CASE ~(data \/ state[k] = "WROTE")
    <3>1. Tail(<<Header(p)>>) = <<>> /\ <<Header(p)>> # <<>>
      OBVIOUS
    <3> QED
      BY <1>2, <2>2, <3>1, Zenon DEF Gathered, Records
  <2> QED
    BY <2>1, <2>2, Zenon
<1>8. OpenBatch(p)' = IF state'[k] = "READY" THEN <<>> ELSE Records(b)
  <2>1. CASE expired
    BY <1>1, <1>4, <1>7, <2>1, Zenon DEF OpenBatch
  <2>2. CASE ~expired
    BY <1>b, <1>1, <1>4, <2>2, Zenon DEF OpenBatch, Records
  <2> QED
    BY <2>1, <2>2, Zenon
<1> DEFINE Ready == {i \in heap : state[i] = "READY"}
           Sealed == {Records(payload[j]) : j \in Ready}
<1>9. Sealed' = IF state'[k] = "READY" THEN Sealed \cup {Records(b)} ELSE Sealed
  <2>1. Ready' = IF state'[k] = "READY" THEN Ready \cup {k} ELSE Ready
    BY <1>1, <1>3, Zenon DEF IInv, TypeOK
  <2>2. \A j \in Ready : payload'[j] = payload[j]
    BY <1>1, Zenon DEF IInv, TypeOK
  <2>3. Sealed' = {Records(payload'[j]) : j \in Ready'}
    BY Zenon DEF Records
  <2> HIDE DEF Ready
  <2> QED
    BY <1>b, <2>1, <2>2, <2>3, Zenon
<1>10. PICK seal \in BOOLEAN : seal = (state'[k] = "READY")
  BY Zenon
<1>11. O!Collect(p, data, seal)
  <2>1. [q \in Plugin |-> OpenBatch(q)]'
          = [[q \in Plugin |-> OpenBatch(q)] EXCEPT ![p] =
               IF seal THEN <<>> ELSE IF data THEN Append(OpenBatch(p), <<p, made[p] + 1>>) ELSE OpenBatch(p)]
    BY <1>5, <1>6, <1>8, <1>10, Zenon
  <2>2. {Records(c) : c \in received}' = {Records(c) : c \in received}
    BY <1>3, Zenon DEF Records
  <2> QED
    BY <1>1, <1>3, <1>5, <1>7, <1>9, <1>10, <2>1, <2>2, Zenon DEF O!Collect
<1> QED
  BY <1>11, Zenon

(* get_packet is invisible in the outbox: a plugin that gets a packet has  *)
(* no open batch before and an empty one afterwards.                       *)
LEMMA GetPacketStutters ==
  ASSUME IInv, Claimed, BInv, NEW p \in Plugin, PluginStep(p),
         ~ \E data, expired \in BOOLEAN : Gather(p, data, expired)
  PROVE  UNCHANGED O!vars
<1>1. Quiet
  BY GetPacketQuiet, Zenon DEF BInv
<1> USE DEF IInv, pool, plugins, storage
<1>2. /\ received' = received /\ heap \subseteq heap' /\ heap' \subseteq Packet
      /\ \A j \in Packet : state[j] = "READY" => state'[j] = "READY" /\ payload'[j] = payload[j]
  <2>1. CASE GetPacket(p) \/ ScanNext(p) \/ ClearSpin(p) \/ LockHead(p) \/ Link(p) \/ Publish(p)
               \/ UnlockHead(p)
    BY <2>1, Zenon DEF GetPacket, ScanNext, ClearSpin, LockHead, Link, Publish, UnlockHead, TypeOK
  <2>2. CASE ScanClaim(p)
    BY <2>2, Zenon DEF ScanClaim, Claimable, Reopen, TypeOK
  <2>3. CASE Alloc(p)
    BY <2>3, Zenon DEF Alloc, TypeOK, Fresh
  <2> QED
    BY <2>1, <2>2, <2>3, Zenon DEF PluginStep
<1>3. ASSUME NEW q \in Plugin PROVE OpenBatch(q)' = OpenBatch(q)
  <2>1. CASE working[q] # NULL
    BY <1>1, <2>1, Zenon DEF Quiet, OpenBatch, Records
  <2>2. CASE working[q] = NULL
    <3>1. working'[q] # NULL => payload'[working'[q]] = <<>>
      <4>1. CASE GetPacket(p) \/ ScanNext(p) \/ LockHead(p) \/ Link(p) \/ Publish(p) \/ ScanClaim(p)
        BY <2>2, <4>1, Zenon DEF GetPacket, ScanNext, LockHead, Link, Publish, ScanClaim
      <4>2. CASE ClearSpin(p) \/ UnlockHead(p)
        <5>1. pc[p] \in Claiming /\ payload' = payload /\ working' = [working EXCEPT ![p] = pkt[p]]
          BY <4>2, Zenon DEF ClearSpin, UnlockHead, Return, Claiming
        <5>2. payload[pkt[p]] = <<>>
          BY <5>1, Zenon DEF Claimed, Claiming, Held, Pointers, BInv, Filling
        <5> QED
          BY <2>2, <5>1, <5>2, Zenon DEF TypeOK
      <4>3. CASE Alloc(p)
        BY <2>2, <4>3 DEF Alloc, Return, TypeOK
      <4> QED
        BY <4>1, <4>2, <4>3, Zenon DEF PluginStep
    <3> QED
      BY <2>2, <3>1, Zenon DEF OpenBatch, Records
  <2> QED
    BY <2>1, <2>2, Zenon
<1>4. {Records(payload[j]) : j \in {i \in heap : state[i] = "READY"}}'
        = {Records(payload[j]) : j \in {i \in heap : state[i] = "READY"}}
  <2>1. {i \in heap : state[i] = "READY"}' = {i \in heap : state[i] = "READY"}
    BY <1>1, <1>2, Zenon DEF Quiet, Fresh, TypeOK
  <2>2. \A j \in {i \in heap : state[i] = "READY"} : payload'[j] = payload[j]
    BY <1>2, Zenon DEF TypeOK
  <2> QED
    BY <2>1, <2>2, Zenon DEF Records
<1>5. {Records(c) : c \in received}' = {Records(c) : c \in received}
  BY <1>2, Zenon DEF Records
<1>6. [q \in Plugin |-> OpenBatch(q)]' = [q \in Plugin |-> OpenBatch(q)]
  BY <1>3, Zenon
<1>7. made' = made
  BY <1>1, Zenon DEF Quiet
<1> QED
  BY <1>4, <1>5, <1>6, <1>7, Zenon DEF O!vars

(* storage_main sends batches; the pool forgets one only when the post is  *)
(* acknowledged.                                                           *)
LEMMA StorageSends ==
  ASSUME IInv, BInv, StorageStep
  PROVE  [O!Next]_(O!vars)
<1> USE DEF IInv, pool, plugins
<1> DEFINE Ready == {i \in heap : state[i] = "READY"}
           Sealed == {Records(payload[j]) : j \in Ready}
           Delivered == {Records(c) : c \in received}
<1>1. UNCHANGED <<made, payload, working, heap>>
  BY Zenon DEF StorageStep, StorageMain, WalkPast, FetchLock, FetchUnlock, PostOk, PostFail
<1>2. [q \in Plugin |-> OpenBatch(q)]' = [q \in Plugin |-> OpenBatch(q)]
  BY <1>1, Zenon DEF OpenBatch, Records
<1>3. CASE state' = state /\ received' = received
  BY <1>1, <1>2, <1>3, Zenon DEF O!vars, Records
<1>4. CASE spc = "post" /\ received' = received \cup {payload[cur]}
  <2>1. cur \in heap /\ state[cur] = "READY"
    BY <1>4, Zenon DEF TypeOK, PtrOf, Pointers, PostingReady
  <2>2. Delivered' = Delivered \cup {Records(payload[cur])}
    BY <1>4, Zenon DEF Records
  <2>3. Records(payload[cur]) \in Sealed
    BY <2>1, Zenon
  <2>4. CASE state' = state
    <3>1. Sealed' = Sealed
      BY <1>1, <2>4, Zenon DEF Records
    <3>2. O!Send(Records(payload[cur]), FALSE)
      BY <1>1, <1>2, <2>2, <2>3, <3>1, Zenon DEF O!Send
    <3> QED
      BY <2>3, <3>2, Zenon DEF O!Next
  <2>5. CASE state' = [state EXCEPT ![cur] = "DONE"]
    <3>1. Ready' = Ready \ {cur}
      BY <1>1, <2>1, <2>5, Zenon DEF TypeOK
    <3>2. ASSUME NEW j \in Ready, j # cur PROVE Records(payload[j]) # Records(payload[cur])
      <4>1. j \in Packet /\ state[j] = "READY" /\ cur \in Packet
        BY <2>1, Zenon DEF TypeOK
      <4>2. payload[j] \in Out /\ payload[cur] \in Out
        BY <2>1, <4>1, Zenon DEF Out
      <4>3. payload[j] # payload[cur]
        BY <2>1, <3>2, <4>1, Zenon DEF BInv, SealedOnce
      <4> QED
        BY <4>2, <4>3, RecordsApart, Zenon DEF BInv
    <3>3. Sealed' = Sealed \ {Records(payload[cur])}
      <4>1. Sealed' = {Records(payload[j]) : j \in Ready'}
        BY <1>1, Zenon DEF Records
      <4> HIDE DEF Ready
      <4> QED
        BY <3>1, <3>2, <4>1, Zenon
    <3>4. O!Send(Records(payload[cur]), TRUE)
      BY <1>1, <1>2, <2>2, <2>3, <3>3, Zenon DEF O!Send
    <3> QED
      BY <2>3, <3>4, Zenon DEF O!Next
  <2> QED
    BY <1>4, <2>4, <2>5, Zenon DEF StorageStep, StorageMain, WalkPast, FetchLock, FetchUnlock, PostOk, PostFail
<1> QED
  BY <1>3, <1>4, Zenon DEF StorageStep, StorageMain, WalkPast, FetchLock, FetchUnlock, PostOk, PostFail

(* The pool of storage.c, shared by plugin_gather and storage_main,        *)
(* implements the outbox: what the server is sent are batches sealed once, *)
(* and none leaves the pool before a post of it was acknowledged.          *)
THEOREM PoolImplementsOutbox == Spec => ImplementsOutbox
<1>1. Init => O!Init
  BY DEF Init, O!Init, OpenBatch
<1>2. IInv /\ BInv /\ Claimed /\ [Next]_vars => [O!Next]_(O!vars)
  <2> SUFFICES ASSUME IInv, BInv, Claimed, [Next]_vars PROVE [O!Next]_(O!vars)
    OBVIOUS
  <2>1. CASE StorageStep
    BY <2>1, StorageSends, Zenon
  <2>2. ASSUME NEW p \in Plugin, PluginStep(p) PROVE [O!Next]_(O!vars)
    <3>1. ASSUME NEW data \in BOOLEAN, NEW expired \in BOOLEAN, Gather(p, data, expired)
          PROVE  O!Next
      BY <3>1, GatherCollects, Zenon DEF O!Next
    <3> QED
      BY <2>2, <3>1, GetPacketStutters, Zenon
  <2>3. CASE UNCHANGED vars
    BY <2>3, Zenon DEF vars, pool, plugins, O!vars, OpenBatch, Records
  <2> QED
    BY <2>1, <2>2, <2>3, Zenon DEF Next
<1> QED
  BY <1>1, <1>2, BatchInvariance, PTL DEF Spec, ImplementsOutbox, O!Spec
=============================================================================
