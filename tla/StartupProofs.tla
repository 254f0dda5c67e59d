---------------------------- MODULE StartupProofs ---------------------------
(***************************************************************************)
(* What post promises its callers, for any number of threads and of types  *)
(* of packets, and what main, metadata.c and plugin_regr promise about     *)
(* ids, for any number of plugins, targets and restarts, and whenever the  *)
(* process is killed.  None of it is inductive.  That an answer is the     *)
(* thread's own rests on what the handle points to and on the status it    *)
(* holds, from the step that sets them to the step that reads them; the    *)
(* ids rest on what is in memory at each stage of main, and on where an id *)
(* is kept until it is taken up again.                                     *)
(***************************************************************************)
EXTENDS Startup, WellFoundedInduction, TLAPS

(* A thread in the midst of post has the lock. *)
Locked == \A t \in Thread : pc[t] \in Holding => spin[kind[t]]

(* The handle points to the packet of the thread that performs. *)
OwnPacket ==
  \A t \in Thread :
    pc[t] = "perform" => postfields[kind[t]] = t /\ writedata[kind[t]] = t

(* Until the status is read it is that of the thread's own transfer. *)
OwnInfo ==
  \A t \in Thread :
    pc[t] = "getinfo" =>
      /\ code[t] = (answer[t] \in {"ok", "error"})
      /\ code[t] => info[kind[t]] = (answer[t] = "ok")

(* What post returns is settled when the status has been read. *)
OwnResult ==
  \A t \in Thread :
    pc[t] \in {"unlock", "return"} => (Posted(t) <=> answer[t] = "ok")

SInv ==
  /\ SenderTypeOK /\ HandleExclusive
  /\ Locked /\ OwnPacket /\ OwnInfo /\ OwnResult
  /\ response = told

-----------------------------------------------------------------------------
(* sender_init: it holds before the first post. *)
LEMMA SInvInit == SenderInit => SInv
  BY SenderAssumption
  DEF SenderInit, SInv, SenderTypeOK, HandleExclusive, Locked, OwnPacket, OwnInfo, OwnResult,
      ForEach, ForType, SomeType, PostPc, Holding, Bodies, Reply

(* What curl_easy_perform changes, given that the handle points to the     *)
(* packet of the thread that calls it                                      *)
Effect(t, reply, good) ==
  /\ pc[t] = "perform" /\ pc' = [pc EXCEPT ![t] = "getinfo"]
  /\ code' = [code EXCEPT ![t] = (reply \in {"ok", "error"})]
  /\ reply \in {"ok", "error"} => good = (reply = "ok")
  /\ info' = [info EXCEPT ![kind[t]] = good]
  /\ response' = [response EXCEPT ![t] = IF reply \in Bodies THEN reply ELSE response[t]]
  /\ answer' = [answer EXCEPT ![t] = reply]
  /\ told' = [told EXCEPT ![t] = IF reply \in Bodies THEN reply ELSE told[t]]
  /\ UNCHANGED <<kind, status, spin, postfields, writedata>>

(* curl_easy_perform and callback: they have that effect. *)
LEMMA PerformEffect ==
  ASSUME OwnPacket, NEW t \in Thread, NEW reply \in Reply, Perform(t, reply)
  PROVE  \E good \in BOOLEAN : Effect(t, reply, good)
<1>1. pc[t] = "perform" /\ postfields[kind[t]] = t /\ writedata[kind[t]] = t
  BY DEF Perform, OwnPacket
<1>2. PICK good \in BOOLEAN :
        /\ reply \in {"ok", "error"} => good = (reply = "ok")
        /\ info' = [info EXCEPT ![kind[t]] = good]
  <2>1. CASE reply \in {"ok", "error"}
    BY <2>1, Zenon DEF Perform, TransferOk
  <2>2. CASE reply \notin {"ok", "error"}
    BY <2>2, Zenon DEF Perform, TransferOk
  <2> QED
    BY <2>1, <2>2
<1>3. code' = [code EXCEPT ![t] = (reply \in {"ok", "error"})]
  BY Zenon DEF Perform, TransferOk
<1>4. /\ response' = [response EXCEPT ![t] = IF reply \in Bodies THEN reply ELSE response[t]]
      /\ answer' = [answer EXCEPT ![t] = reply]
      /\ told' = [told EXCEPT ![t] = IF reply \in Bodies THEN reply ELSE told[t]]
  BY <1>1, Zenon DEF Perform
<1>5. pc' = [pc EXCEPT ![t] = "getinfo"] /\ UNCHANGED <<kind, status, spin, postfields, writedata>>
  BY Zenon DEF Perform, Goto
<1>6. Effect(t, reply, good)
  BY <1>1, <1>2, <1>3, <1>4, <1>5, Zenon DEF Effect
<1> QED
  BY <1>6

(* post: every step keeps the types. *)
LEMMA TypeStep == SenderTypeOK /\ OwnPacket /\ [SenderNext]_senderVars => SenderTypeOK'
<1> SUFFICES ASSUME SenderTypeOK, OwnPacket, [SenderNext]_senderVars PROVE SenderTypeOK'
  OBVIOUS
<1>1. ASSUME NEW t \in Thread, NEW k \in Type, NEW new \in BOOLEAN, Post(t, k, new)
      PROVE  SenderTypeOK'
  BY <1>1 DEF Post, SenderTypeOK, PostPc, Goto, handles
<1>2. ASSUME NEW t \in Thread, Acquire(t) PROVE SenderTypeOK'
  BY <1>2 DEF Acquire, SenderTypeOK, PostPc, Goto, locals, history
<1>3. ASSUME NEW t \in Thread, SetOpt(t) PROVE SenderTypeOK'
  BY <1>3 DEF SetOpt, SenderTypeOK, PostPc, Goto, locals, history
<1>4. ASSUME NEW t \in Thread, NEW reply \in Reply, Perform(t, reply) PROVE SenderTypeOK'
  <2>1. PICK good \in BOOLEAN : Effect(t, reply, good)
    BY <1>4, PerformEffect
  <2>2. code' \in [Thread -> BOOLEAN] /\ info' \in [Type -> BOOLEAN]
    BY <2>1 DEF Effect, SenderTypeOK
  <2>3. /\ response' \in [Thread -> Bodies \cup {"none"}]
        /\ told' \in [Thread -> Bodies \cup {"none"}]
    BY <2>1 DEF Effect, SenderTypeOK
  <2>4. answer' \in [Thread -> Reply \cup {"none"}] /\ pc' \in [Thread -> PostPc]
    BY <2>1 DEF Effect, SenderTypeOK, PostPc
  <2> QED
    BY <2>1, <2>2, <2>3, <2>4, Zenon DEF Effect, SenderTypeOK
<1>5. ASSUME NEW t \in Thread, GetInfo(t) PROVE SenderTypeOK'
  BY <1>5 DEF GetInfo, SenderTypeOK, PostPc, Goto, handles, history
<1>6. ASSUME NEW t \in Thread, Release(t) PROVE SenderTypeOK'
  BY <1>6 DEF Release, SenderTypeOK, PostPc, Goto, locals, history
<1>7. ASSUME NEW t \in Thread, NEW freed \in BOOLEAN, Return(t, freed) PROVE SenderTypeOK'
  BY <1>7 DEF Return, SenderTypeOK, PostPc, Goto, handles
<1>8. CASE UNCHANGED senderVars
  BY <1>8 DEF senderVars, SenderTypeOK, locals, handles, history
<1> QED
  BY <1>1, <1>2, <1>3, <1>4, <1>5, <1>6, <1>7, <1>8 DEF SenderNext, PostStep

(* post: every step keeps the lock with the one thread that is between     *)
(* taking it and giving it back.                                           *)
LEMMA LockStep ==
  SInv /\ [SenderNext]_senderVars => HandleExclusive' /\ Locked'
<1> SUFFICES ASSUME SInv, [SenderNext]_senderVars PROVE HandleExclusive' /\ Locked'
  OBVIOUS
<1> USE DEF SInv, SenderTypeOK, HandleExclusive, Locked, Holding
<1>1. ASSUME NEW t \in Thread, NEW k \in Type, NEW new \in BOOLEAN, Post(t, k, new)
      PROVE  HandleExclusive' /\ Locked'
  BY <1>1 DEF Post, Goto, handles
<1>2. ASSUME NEW t \in Thread, Acquire(t) PROVE HandleExclusive' /\ Locked'
  BY <1>2 DEF Acquire, Goto, locals
<1>3. ASSUME NEW t \in Thread, SetOpt(t) PROVE HandleExclusive' /\ Locked'
  BY <1>3 DEF SetOpt, Goto, locals
<1>4. ASSUME NEW t \in Thread, NEW reply \in Reply, Perform(t, reply)
      PROVE  HandleExclusive' /\ Locked'
  BY <1>4 DEF Perform, Goto
<1>5. ASSUME NEW t \in Thread, GetInfo(t) PROVE HandleExclusive' /\ Locked'
  BY <1>5 DEF GetInfo, Goto, handles
<1>6. ASSUME NEW t \in Thread, Release(t) PROVE HandleExclusive' /\ Locked'
  BY <1>6 DEF Release, Goto, locals
<1>7. ASSUME NEW t \in Thread, NEW freed \in BOOLEAN, Return(t, freed)
      PROVE  HandleExclusive' /\ Locked'
  BY <1>7 DEF Return, Goto, handles
<1>8. CASE UNCHANGED senderVars
  BY <1>8 DEF senderVars, locals, handles
<1> HIDE DEF SInv, SenderTypeOK, HandleExclusive, Locked, Holding
<1> QED
  BY <1>1, <1>2, <1>3, <1>4, <1>5, <1>6, <1>7, <1>8 DEF SenderNext, PostStep

(* post and callback: every step keeps what a thread relies on in the      *)
(* handle, from setting it to reading the result.                          *)
LEMMA OwnStep ==
  SInv /\ [SenderNext]_senderVars =>
    OwnPacket' /\ OwnInfo' /\ OwnResult' /\ response' = told'
<1> DEFINE Own == OwnPacket /\ OwnInfo /\ OwnResult /\ response = told
<1> SUFFICES ASSUME SInv, [SenderNext]_senderVars PROVE Own'
  OBVIOUS
<1> USE DEF SInv, SenderTypeOK, OwnPacket, OwnInfo, OwnResult, Posted
<1>1. ASSUME NEW t \in Thread, NEW k \in Type, NEW new \in BOOLEAN, Post(t, k, new)
      PROVE  Own'
  BY <1>1 DEF Post, Goto, handles
<1>2. ASSUME NEW t \in Thread, Acquire(t) PROVE Own'
  BY <1>2 DEF Acquire, Goto, locals, history
<1>3. ASSUME NEW t \in Thread, SetOpt(t) PROVE Own'
  BY <1>3 DEF SetOpt, Goto, locals, history, HandleExclusive, Holding
<1>4. ASSUME NEW t \in Thread, NEW reply \in Reply, Perform(t, reply) PROVE Own'
  <2>1. PICK good \in BOOLEAN : Effect(t, reply, good)
    BY <1>4, PerformEffect
  <2>2. OwnPacket' /\ OwnResult' /\ response' = told'
    BY <2>1 DEF Effect
  <2>3. ASSUME NEW u \in Thread, pc'[u] = "getinfo", u # t
        PROVE  /\ code'[u] = code[u] /\ answer'[u] = answer[u]
               /\ info'[kind'[u]] = info[kind[u]] /\ pc[u] = "getinfo"
    BY <2>1, <2>3 DEF Effect, HandleExclusive, Holding
  <2>4. /\ code'[t] = (answer'[t] \in {"ok", "error"})
        /\ code'[t] => info'[kind'[t]] = (answer'[t] = "ok")
    <3>1. answer'[t] = reply
      BY <2>1 DEF Effect
    <3>2. code'[t] = (reply \in {"ok", "error"})
      BY <2>1 DEF Effect
    <3>3. info'[kind'[t]] = good
      BY <2>1 DEF Effect
    <3>4. code'[t] => info'[kind'[t]] = (reply = "ok")
      BY <2>1, <3>2, <3>3, Zenon DEF Effect
    <3> QED
      BY <3>1, <3>2, <3>4
  <2>5. OwnInfo'
    BY <2>3, <2>4
  <2> QED
    BY <2>2, <2>5
<1>5. ASSUME NEW t \in Thread, GetInfo(t) PROVE Own'
  BY <1>5 DEF GetInfo, Goto, handles, history
<1>6. ASSUME NEW t \in Thread, Release(t) PROVE Own'
  BY <1>6 DEF Release, Goto, locals, history
<1>7. ASSUME NEW t \in Thread, NEW freed \in BOOLEAN, Return(t, freed) PROVE Own'
  <2>1. OwnPacket' /\ response' = told'
    BY <1>7 DEF Return, Goto, handles
  <2>2. ASSUME NEW u \in Thread, pc'[u] \in {"getinfo", "unlock", "return"}
        PROVE  /\ u # t /\ pc[u] = pc'[u] /\ code'[u] = code[u] /\ status'[u] = status[u]
               /\ answer'[u] = answer[u] /\ info'[kind'[u]] = info[kind[u]]
    BY <1>7, <2>2 DEF Return, Goto, handles
  <2>3. OwnInfo'
    BY <2>2
  <2>4. OwnResult'
    BY <2>2
  <2> QED
    BY <2>1, <2>3, <2>4
<1>8. CASE UNCHANGED senderVars
  BY <1>8 DEF senderVars, locals, handles, history
<1> HIDE DEF SInv, SenderTypeOK, OwnPacket, OwnInfo, OwnResult, Posted, Own
<1> QED
  BY <1>1, <1>2, <1>3, <1>4, <1>5, <1>6, <1>7, <1>8 DEF SenderNext, PostStep

-----------------------------------------------------------------------------
(* post: the inductive invariant holds in every run of any threads.        *)
LEMMA SInvAlways == SenderSpec => []SInv
<1>1. SInv /\ [SenderNext]_senderVars => SInv'
  BY TypeStep, LockStep, OwnStep DEF SInv
<1> QED
  BY SInvInit, <1>1, PTL DEF SenderSpec

(* post: two threads never use one curl handle at a time, and the spin     *)
(* lock is free whenever none does, for any number of threads and types.   *)
THEOREM HandleExclusiveAlways == SenderSpec => []HandleExclusive
<1>1. SInv => HandleExclusive
  BY DEF SInv
<1> QED
  BY SInvAlways, <1>1, PTL

(* post and callback: every thread gets the outcome and the response of    *)
(* its own packet, for any number of threads and types.                    *)
THEOREM AnswerOwnAlways == SenderSpec => []AnswerOwn
<1>1. SInv => AnswerOwn
  BY DEF SInv, AnswerOwn, OwnResult
<1> QED
  BY SInvAlways, <1>1, PTL

-----------------------------------------------------------------------------

(* Where main is says what the process has in memory. *)
Life ==
  /\ loaded \subseteq Plugin
  /\ phase \in {"license", "scan", "run"} => aid = aidfile
  /\ phase = "aid_write" => aidfile = None
  /\ phase \notin {"scan", "run"} => loaded = {}
  /\ phase # "run" => gathering = {} /\ oob = {} /\ \A p \in Plugin : pc[p] = "idle"
  /\ ~resdir => files = {} /\ gathering = {}

(* An id is that of a plugin main knows of, and who posts has a packet and *)
(* does not gather.                                                        *)
Ids ==
  \A p \in Plugin :
    /\ tid[p] # 0 => p \in loaded
    /\ pc[p] # "idle" => p \in oob /\ p \in loaded \ gathering

(* Plugins have an id before they post and while they gather, and the      *)
(* server knows of no other, unless 0 was made up.                         *)
Nonzero ==
  clash \/
    /\ \A x \in registered : x.id # 0
    /\ \A p \in Plugin : p \in gathering \/ p \in oob => tid[p] # 0

(* The server took a registration that it answers with "ok", and every     *)
(* file is that of a registration.                                         *)
Server ==
  /\ \A p \in Plugin :
       /\ pc[p] = "idle" => answer[p] = "none"
       /\ answer[p] = "ok" => \E x \in registered : x.id = tid[p] /\ x.target = target[p]
  /\ \A f \in files : \E x \in registered : x.id = f.id /\ x.target = f.target

(* All registrations were made under the id that is in .aid. *)
AidKept == \A x \in registered : x.aid = aidfile

(* The id i is, or was, that of target g. *)
Names(i, g) ==
  \/ \E x \in registered : x.id = i /\ x.target = g
  \/ \E p \in Plugin : tid[p] = i /\ tid[p] # 0 /\ target[p] = g

OneName == clash \/ \A i, g, h : Names(i, g) /\ Names(i, h) => g = h

(* The id of a file belongs to nobody but the plugin that wrote the file. *)
FilesApart == clash \/ \A f \in files, p \in Plugin : tid[p] = f.id => p \in gathering

(* The target of p is that of no other block. *)
Solo(p) == \A q \in Plugin : target[q] = target[p] => q = p

(* A target that was registered is known by the id it has in memory or on  *)
(* disk.                                                                   *)
Remembered ==
  disturbed \/ clash \/
    /\ phase = "scan" => \A f \in files : \E q \in loaded : target[q] = f.target
    /\ \A p \in Plugin : Solo(p) => \A x \in registered : x.target = target[p] =>
         \/ tid[p] = x.id
         \/ phase # "run" /\ [id |-> x.id, target |-> x.target] \in files

UInv ==
  /\ SInv /\ TypeOK /\ Life /\ Ids /\ Nonzero /\ Server /\ AidKept
  /\ OneName /\ FilesApart /\ TidsDistinct /\ FilesOfGathering
  /\ Remembered /\ TargetKept

-----------------------------------------------------------------------------
(* util.c: the product of three readings is cut to 64 bit. *)
LEMMA IdWord == Id \subseteq Word /\ 0 \in Word /\ None \notin Word
<1>1. \A n \in Nat : n % Modulus \in Word
  BY StartupAssumption DEF Word
<1>2. \A a, b, c \in Clock : a * b * c \in Nat
  <2> SUFFICES ASSUME NEW a \in Clock, NEW b \in Clock, NEW c \in Clock
               PROVE  a * b * c \in Nat
    OBVIOUS
  <2>1. a \in Nat /\ b \in Nat /\ c \in Nat
    BY StartupAssumption
  <2> QED
    BY <2>1
<1>3. Id \subseteq Word
  <2> SUFFICES ASSUME NEW i \in Id PROVE i \in Word
    OBVIOUS
  <2>1. PICK a \in Clock, b \in Clock, c \in Clock : i = (a * b * c) % Modulus
    BY DEF Id
  <2> HIDE DEF Word
  <2>2. a * b * c \in Nat
    BY <1>2
  <2> QED
    BY <1>1, <2>1, <2>2
<1> QED
  BY <1>3, StartupAssumption DEF Word, None

(* main: the search through the plugins finds one that is searched for.    *)
LEMMA FirstIn ==
  ASSUME NEW ps \in SUBSET Plugin, ps # {}
  PROVE  First(ps) \in ps
<1> DEFINE R == OpToRel(<, Nat)
           I == {i \in 1..Len(Order) : Order[i] \in ps}
<1>1. Len(Order) \in Nat
  BY StartupAssumption
<1>2. I \subseteq Nat
  BY <1>1
<1>3. I # {}
  BY StartupAssumption, Zenon
<1>4. PICK i \in I : \A j \in I : <<j, i>> \notin R
  <2> HIDE DEF I, R
  <2>1. IsWellFoundedOn(R, Nat)
    BY NatLessThanWellFounded, Zenon DEF R
  <2> QED
    BY <1>2, <1>3, <2>1, WFMin, Zenon
<1>5. \A j \in I : ~(j < i)
  BY <1>2, <1>4, Zenon DEF OpToRel
<1>6. i \in 1..Len(Order) /\ Order[i] \in ps /\ \A j \in 1..(i-1) : Order[j] \notin ps
  BY <1>1, <1>5
<1> HIDE DEF I, R
<1> QED
  BY <1>6, Zenon DEF First

-----------------------------------------------------------------------------
(* main: it holds before the first start. *)
LEMMA UInvInit == Init => UInv
<1> SUFFICES ASSUME Init PROVE UInv
  OBVIOUS
<1>1. SInv
  BY SInvInit, Zenon DEF Init
<1>2. target \in [Plugin -> Target]
  BY StartupAssumption, Zenon DEF Init
<1>3. pc = [p \in Plugin |-> "idle"] /\ answer = [p \in Plugin |-> "none"]
  BY Zenon DEF Init, SenderInit, ForEach, Plugin
<1>4. tid = [p \in Plugin |-> 0] /\ registered = {} /\ files = {} /\ loaded = {} /\ gathering = {}
  BY Zenon DEF Init
<1>5. TypeOK
  BY <1>1, <1>2, <1>3, IdWord DEF Init, TypeOK, SInv
<1>6. Life /\ Ids /\ Nonzero /\ Server /\ AidKept
  BY <1>3, Zenon DEF Init, Life, Ids, Nonzero, Server, AidKept
<1>7. \A i, g : ~Names(i, g)
  BY <1>4, Zenon DEF Names
<1>8. OneName
  BY <1>7, Zenon DEF OneName
<1>9. FilesApart /\ TidsDistinct /\ TargetKept
  BY <1>4, Zenon DEF FilesApart, TidsDistinct, TargetKept
<1>10. FilesOfGathering
  BY Zenon DEF Init, FilesOfGathering
<1>11. Remembered
  BY <1>4, Zenon DEF Remembered
<1> QED
  BY <1>1, <1>5, <1>6, <1>8, <1>9, <1>10, <1>11, Zenon DEF UInv

(* post: whatever main does, the sender is in its own reach or as new. *)
LEMMA SenderPart == SInv /\ [Next]_vars => SInv'
<1> SUFFICES ASSUME SInv, [Next]_vars PROVE SInv'
  OBVIOUS
<1>1. [SenderNext]_senderVars => SInv'
  BY TypeStep, LockStep, OwnStep, Zenon DEF SInv
<1>2. SenderGone => SInv'
  <2>1. SenderInit' => SInv'
    BY SInvInit, PTL
  <2> QED
    BY <2>1, Zenon DEF SenderGone, SenderInit, ForEach, ForType, SomeType
<1>3. CASE Edit \/ Launch \/ GetAid \/ WriteAid \/ Scanned \/ UNCHANGED vars
  BY <1>1, <1>3, Zenon DEF Edit, Launch, GetAid, WriteAid, Scanned, vars
<1>4. CASE Kill \/ MetaFails
  BY <1>2, <1>4, Zenon DEF Kill, MetaFails, Exit
<1>5. CASE Sparse
  BY <1>1, <1>2, <1>5, Zenon DEF Sparse, Exit
<1>6. ASSUME NEW f \in files, Scan(f) PROVE SInv'
  BY <1>1, <1>6, Zenon DEF Scan
<1>7. ASSUME NEW p \in Plugin, Register(p) PROVE SInv'
  <2>1. (p \notin oob) \in BOOLEAN
    OBVIOUS
  <2> QED
    BY <1>1, <1>7, <2>1, StartupAssumption, Zenon DEF Register, SenderNext, Plugin
<1>8. ASSUME NEW p \in Plugin, Transmit(p) PROVE SInv'
  BY <1>1, <1>8, Zenon DEF Transmit, SenderNext, Plugin
<1>9. ASSUME NEW p \in Plugin, Posting(p) PROVE SInv'
  BY <1>1, <1>9, Zenon DEF Posting, SenderNext, Plugin
<1>10. ASSUME NEW p \in Plugin, Accepted(p) PROVE SInv'
  BY <1>1, <1>2, <1>10, Zenon DEF Accepted, Exit, SenderNext, Plugin
<1>11. ASSUME NEW p \in Plugin, Refused(p) PROVE SInv'
  BY <1>1, <1>11, Zenon DEF Refused, SenderNext, Plugin
<1> QED
  BY <1>3, <1>4, <1>5, <1>6, <1>7, <1>8, <1>9, <1>10, <1>11, Zenon DEF Next

-----------------------------------------------------------------------------
(* plugin_regr: no other registration, no other id of a target. *)
LEMMA TargetKeptStep ==
  ASSUME TargetKept, target' = target, registered' = registered,
         disturbed => disturbed', clash => clash'
  PROVE  TargetKept'
<1> SUFFICES ASSUME ~disturbed', ~clash', NEW p \in Plugin,
                    \A q \in Plugin : target[q] = target[p] => q = p,
                    NEW x \in registered, NEW y \in registered,
                    x.target = target[p], y.target = target[p]
             PROVE  x.id = y.id
  BY DEF TargetKept
<1> QED
  BY Zenon DEF TargetKept

(* What is known of ids and files depends on these alone. *)
known == <<target, resdir, files, loaded, tid, gathering, registered, clash, disturbed>>

(* main and plugin_regr: a step that changes none of them and does not go  *)
(* from one stage to another keeps what is known of them.                  *)
LEMMA KnownKept ==
  ASSUME UInv, UNCHANGED known
  PROVE  /\ OneName' /\ FilesApart' /\ TidsDistinct' /\ TargetKept'
         /\ phase' = phase => FilesOfGathering' /\ Remembered'
         /\ oob' = oob => Nonzero'
<1>1. OneName'
  <2>1. \A i, g : Names(i, g)' => Names(i, g)
    BY Zenon DEF known, Names
  <2>2. UNCHANGED <<clash>>
    BY Zenon DEF known
  <2> QED
    BY <2>1, <2>2, Zenon DEF UInv, OneName
<1>2. FilesApart' /\ TidsDistinct'
  BY Zenon DEF UInv, known, FilesApart, TidsDistinct
<1>3. phase' = phase => FilesOfGathering' /\ Remembered'
  BY Zenon DEF UInv, known, FilesOfGathering, Remembered, Solo
<1>4. TargetKept'
  BY TargetKeptStep, Zenon DEF UInv, known
<1>5. oob' = oob => Nonzero'
  BY Zenon DEF UInv, known, Nonzero
<1> QED
  BY <1>1, <1>2, <1>3, <1>4, <1>5, Zenon

(* post: its steps leave all that is known alone. *)
LEMMA PostingStep ==
  ASSUME UInv, SInv', NEW p \in Plugin, Posting(p)
  PROVE  UInv'
<1>1. /\ UNCHANGED <<disk, phase, starts, memory, observed>>
      /\ answer' = answer /\ pc[p] # "idle" /\ \E l \in PostPc : l # "idle" /\ pc' = [pc EXCEPT ![p] = l]
  BY Zenon DEF Posting, PostStep, Acquire, SetOpt, GetInfo, Release, Goto, PostPc, history
<1>2. pc \in [Plugin -> PostPc]
  BY Zenon DEF UInv, SInv, SenderTypeOK, Plugin
<1>3. \A q \in Plugin : pc'[q] = "idle" <=> pc[q] = "idle"
  BY <1>1, <1>2, Zenon
<1>4. UNCHANGED known /\ UNCHANGED <<phase, aid, aidfile, on, oob, answer>>
  BY <1>1, Zenon DEF known, disk, memory, observed
<1>5. TypeOK'
  BY <1>3, <1>4, Zenon DEF UInv, TypeOK, SInv, known
<1>6. Life' /\ Ids' /\ Server' /\ AidKept'
  BY <1>3, <1>4, Zenon DEF UInv, known, Life, Ids, Server, AidKept
<1> QED
  BY <1>4, <1>5, <1>6, KnownKept, Zenon DEF UInv

(* plugin.conf is edited, or nothing happens. *)
LEMMA EditStep == UInv /\ SInv' /\ (Edit \/ UNCHANGED vars) => UInv'
<1> SUFFICES ASSUME UInv, SInv', Edit \/ UNCHANGED vars PROVE UInv'
  OBVIOUS
<1>1. UNCHANGED known /\ UNCHANGED <<phase, aid, aidfile, oob, pc, answer>>
  BY Zenon DEF Edit, known, vars, disk, memory, observed, senderVars, history
<1>2. on' \subseteq Plugin
  BY Zenon DEF UInv, TypeOK, Edit, vars, disk
<1>3. TypeOK'
  BY <1>1, <1>2, Zenon DEF UInv, TypeOK, SInv, known
<1>4. Life' /\ Ids' /\ Server' /\ AidKept'
  BY <1>1, Zenon DEF UInv, known, Life, Ids, Server, AidKept
<1> QED
  BY <1>1, <1>3, <1>4, KnownKept, Zenon DEF UInv

(* main and get_aid: a start, and the id written to its file. *)
LEMMA LaunchStep == UInv /\ SInv' /\ (Launch \/ WriteAid) => UInv'
<1> SUFFICES ASSUME UInv, SInv', Launch \/ WriteAid PROVE UInv'
  OBVIOUS
<1>1. UNCHANGED known /\ UNCHANGED <<aid, on, oob, pc, answer>>
  BY Zenon DEF Launch, WriteAid, known, disk, memory, observed, senderVars, history
<1>2. \/ phase = "down" /\ phase' = "aid" /\ aidfile' = aidfile
      \/ phase = "aid_write" /\ phase' = "license" /\ aidfile' = aid
  BY Zenon DEF Launch, WriteAid, disk
<1>3. TypeOK'
  BY <1>1, <1>2, Zenon DEF UInv, TypeOK, SInv, known, Life
<1>4. Life'
  BY <1>1, <1>2, Zenon DEF UInv, TypeOK, known, Life
<1>5. Ids' /\ Server'
  BY <1>1, Zenon DEF UInv, known, Ids, Server
<1>6. AidKept'
  <2>1. phase = "aid_write" => registered = {}
    BY IdWord DEF UInv, TypeOK, Life, AidKept
  <2> QED
    BY <1>1, <1>2, <2>1, Zenon DEF UInv, AidKept, known
<1>7. FilesOfGathering' /\ Remembered'
  <2>1. phase # "run" /\ phase' # "run" /\ phase' # "scan"
    BY <1>2, Zenon
  <2>2. FilesOfGathering'
    BY <2>1, Zenon DEF FilesOfGathering
  <2>3. Remembered'
    BY <1>1, <2>1, Zenon DEF UInv, Remembered, known, Solo
  <2> QED
    BY <2>2, <2>3, Zenon
<1> QED
  BY <1>1, <1>3, <1>4, <1>5, <1>6, <1>7, KnownKept, Zenon DEF UInv

(* main: the start is over, and the files are gone. *)
LEMMA ScannedStep == UInv /\ SInv' /\ Scanned => UInv'
<1> SUFFICES ASSUME UInv, SInv', Scanned PROVE UInv'
  OBVIOUS
<1>1. UNCHANGED known /\ UNCHANGED <<aid, aidfile, on, oob, pc, answer>>
  BY Zenon DEF Scanned, known, disk, memory, observed, senderVars, history
<1>2. phase = "scan" /\ phase' = "run" /\ files = {} /\ gathering = {}
  BY Zenon DEF Scanned, UInv, Life
<1>3. TypeOK'
  BY <1>1, <1>2, Zenon DEF UInv, TypeOK, SInv, known
<1>4. Life'
  BY <1>1, <1>2, Zenon DEF UInv, known, Life
<1>5. Ids' /\ Server' /\ AidKept'
  BY <1>1, Zenon DEF UInv, known, Ids, Server, AidKept
<1>6. FilesOfGathering'
  BY <1>1, <1>2, Zenon DEF FilesOfGathering, known
<1>7. Remembered'
  BY <1>1, <1>2, Zenon DEF UInv, Remembered, known, Solo
<1> QED
  BY <1>1, <1>3, <1>4, <1>5, <1>6, <1>7, KnownKept, Zenon DEF UInv

(* get_aid: the id in the file is taken up, and one is made up only if     *)
(* there is none.                                                          *)
LEMMA GetAidStep == UInv /\ SInv' /\ GetAid => UInv'
<1> SUFFICES ASSUME UInv, SInv', GetAid PROVE UInv'
  OBVIOUS
<1>1. UNCHANGED known /\ UNCHANGED <<on, oob, pc, answer>>
  BY Zenon DEF GetAid, known, senderVars, history
<1>2. /\ phase = "aid" /\ phase' \in {"license", "aid_write"} /\ aidfile' = aidfile
      /\ phase' = "license" => aidfile # None /\ aid' = aidfile
      /\ phase' = "aid_write" => aidfile = None /\ aid' \in Id
  BY Zenon DEF GetAid
<1>3. aid' \in Word
  BY <1>2, IdWord, Zenon DEF UInv, TypeOK
<1>4. TypeOK'
  BY <1>1, <1>2, <1>3, Zenon DEF UInv, TypeOK, SInv, known
<1>5. Life'
  BY <1>1, <1>2, Zenon DEF UInv, Life, known
<1>6. Ids' /\ Server' /\ AidKept'
  BY <1>1, <1>2, Zenon DEF UInv, Ids, Server, AidKept, known
<1>7. FilesOfGathering' /\ Remembered'
  <2>1. phase # "run" /\ phase' # "run" /\ phase' # "scan"
    BY <1>2, Zenon
  <2>2. FilesOfGathering'
    BY <2>1, Zenon DEF FilesOfGathering
  <2>3. Remembered'
    BY <1>1, <2>1, Zenon DEF UInv, Remembered, known, Solo
  <2> QED
    BY <2>2, <2>3, Zenon
<1> QED
  BY <1>1, <1>4, <1>5, <1>6, <1>7, KnownKept, Zenon DEF UInv

(* The process ends, at any time: what the plugins that gather go by is on *)
(* disk, and an id that is nowhere else is the one thing that is lost.     *)
LEMMA ExitStep ==
  ASSUME UInv, SInv', Exit,
         UNCHANGED <<target, on, resdir, aidfile, files, registered, clash>>,
         disturbed \/ Unsaved => disturbed'
  PROVE  UInv'
<1>1. /\ phase' = "down" /\ aid' = 0 /\ loaded' = {} /\ oob' = {} /\ gathering' = {}
      /\ tid' = [p \in Plugin |-> 0]
  BY Zenon DEF Exit
<1>2. pc' = [p \in Plugin |-> "idle"] /\ answer' = [p \in Plugin |-> "none"]
  BY Zenon DEF Exit, SenderGone, ForEach, Plugin
<1>3. \A p \in Plugin : tid'[p] = 0 /\ pc'[p] = "idle" /\ answer'[p] = "none"
  BY <1>1, <1>2, Zenon
<1>4. TypeOK'
  BY <1>1, <1>3, IdWord DEF UInv, TypeOK, SInv
<1>5. Life' /\ Ids' /\ Nonzero' /\ Server' /\ AidKept'
  BY <1>1, <1>3, Zenon DEF UInv, Life, Ids, Nonzero, Server, AidKept
<1>6. OneName'
  <2>1. \A i, g : Names(i, g)' => Names(i, g)
    BY <1>3, Zenon DEF Names
  <2> QED
    BY <2>1, Zenon DEF UInv, OneName
<1>7. FilesApart'
  <2> SUFFICES ASSUME ~clash, NEW f \in files, NEW p \in Plugin, tid'[p] = f.id
               PROVE  FALSE
    BY Zenon DEF FilesApart
  <2>1. f.id # 0
    BY Zenon DEF UInv, Nonzero, Server
  <2> QED
    BY <1>3, <2>1
<1>8. TidsDistinct' /\ FilesOfGathering'
  BY <1>1, Zenon DEF TidsDistinct, FilesOfGathering
<1>9. TargetKept'
  BY TargetKeptStep, Zenon DEF UInv
<1>10. Remembered'
  <2> SUFFICES ASSUME ~disturbed', ~clash, NEW p \in Plugin, Solo(p),
                      NEW x \in registered, x.target = target[p]
               PROVE  [id |-> x.id, target |-> x.target] \in files
    BY <1>1, Zenon DEF Remembered, Solo
  <2>1. tid[p] = x.id \/ [id |-> x.id, target |-> x.target] \in files
    BY Zenon DEF UInv, Remembered
  <2>2. CASE tid[p] = x.id
    <3>1. tid[p] # 0
      BY <2>2, Zenon DEF UInv, Nonzero
    <3>2. p \in gathering
      BY <3>1, Zenon DEF UInv, Ids, Unsaved
    <3>3. PICK f \in files : f.id = tid[p] /\ f.target = target[p]
      BY <3>2, Zenon DEF UInv, Life, FilesOfGathering
    <3>4. f \in [id : Word, target : Target]
      BY Zenon DEF UInv, TypeOK
    <3>5. f = [id |-> x.id, target |-> x.target]
      BY <2>2, <3>3, <3>4
    <3> QED
      BY <3>5, Zenon
  <2> QED
    BY <2>1, <2>2, Zenon
<1> QED
  BY <1>4, <1>5, <1>6, <1>7, <1>8, <1>9, <1>10, Zenon DEF UInv

(* Killed, or ended by main when metadata or plugin.conf are of no use. *)
LEMMA EndStep == UInv /\ SInv' /\ (Kill \/ MetaFails) => UInv'
<1> SUFFICES ASSUME UInv, SInv', Kill \/ MetaFails PROVE UInv'
  OBVIOUS
<1>1. Exit /\ UNCHANGED <<target, on, resdir, aidfile, files, registered, clash>>
  BY Zenon DEF Kill, MetaFails, disk, observed
<1>2. MetaFails => ~Unsaved
  BY Zenon DEF MetaFails, Unsaved, UInv, Life
<1>3. disturbed \/ Unsaved => disturbed'
  BY <1>2, Zenon DEF Kill, MetaFails, observed
<1> QED
  BY <1>1, <1>3, ExitStep, Zenon

(* main and sparse: no id is in memory when the plugins are read. *)
LEMMA SparseStep == UInv /\ SInv' /\ Sparse => UInv'
<1> SUFFICES ASSUME UInv, SInv', Sparse PROVE UInv'
  OBVIOUS
<1>1. /\ phase = "license" /\ loaded = {} /\ gathering = {} /\ \A p \in Plugin : tid[p] = 0
  BY Zenon DEF Sparse, UInv, Life, Ids
<1>2. UNCHANGED <<target, on, resdir, aidfile, files, registered, clash>>
  BY Zenon DEF Sparse, disk
<1>3. CASE valid /\ on = {}
  <2>1. Exit /\ disturbed' = disturbed /\ ~Unsaved
    BY <1>1, <1>3, Zenon DEF Sparse, Unsaved
  <2> QED
    BY <1>2, <2>1, ExitStep, Zenon
<1>4. CASE ~(valid /\ on = {})
  <2>1. /\ UNCHANGED <<aid, tid, oob, gathering, pc, answer>> /\ phase' = "scan"
        /\ loaded' = (IF valid THEN on ELSE {})
        /\ disturbed' = (disturbed \/ Forgets(loaded'))
    BY <1>4, Zenon DEF Sparse, senderVars, history
  <2>2. loaded' \subseteq Plugin
    BY <2>1, Zenon DEF UInv, TypeOK
  <2>3. TypeOK'
    BY <1>1, <1>2, <2>1, <2>2, Zenon DEF UInv, TypeOK, SInv, Life
  <2>4. Life'
    BY <1>1, <1>2, <2>1, <2>2, Zenon DEF UInv, Life
  <2>5. Ids' /\ Nonzero' /\ Server' /\ AidKept'
    BY <1>1, <1>2, <2>1, Zenon DEF UInv, Life, Ids, Nonzero, Server, AidKept
  <2>6. OneName'
    <3>1. \A i, g : Names(i, g)' => Names(i, g)
      BY <1>2, <2>1, Zenon DEF Names
    <3> QED
      BY <1>2, <3>1, Zenon DEF UInv, OneName
  <2>7. FilesApart'
    BY <1>2, <2>1, Zenon DEF UInv, FilesApart
  <2>8. TidsDistinct'
    BY <1>1, <2>1, <2>2, Zenon DEF TidsDistinct
  <2>9. FilesOfGathering'
    BY <2>1, Zenon DEF FilesOfGathering
  <2>10. disturbed => disturbed'
    BY <2>1, Zenon
  <2>11. TargetKept'
    BY <1>2, <2>10, TargetKeptStep, Zenon DEF UInv
  <2>12. Remembered'
    <3>1. ~disturbed' => \A f \in files : \E q \in loaded' : target[q] = f.target
      BY <2>1, Zenon DEF Forgets
    <3>2. phase # "run" /\ phase' # "run"
      BY <1>1, <2>1, Zenon
    <3> QED
      BY <1>2, <2>1, <2>10, <3>1, <3>2, Zenon DEF UInv, Remembered, Solo
  <2> QED
    BY <2>3, <2>4, <2>5, <2>6, <2>7, <2>8, <2>9, <2>11, <2>12, Zenon DEF UInv
<1> QED
  BY <1>3, <1>4, Zenon

-----------------------------------------------------------------------------
(* main: a file gives its id to one plugin, and no other file has that id. *)
LEMMA ScanStep ==
  ASSUME UInv, SInv', NEW f \in files, Scan(f)
  PROVE  UInv'
<1>1. /\ UNCHANGED <<target, on, resdir, aidfile, phase, aid, loaded, oob, gathering>>
      /\ UNCHANGED <<registered, clash, disturbed, pc, answer>>
  BY Zenon DEF Scan, observed, senderVars, history
<1>2. phase = "scan" /\ files' = files \ {f} /\ gathering = {} /\ \A p \in Plugin : pc[p] = "idle"
  BY Zenon DEF Scan, UInv, Life
<1>3. f \in [id : Word, target : Target]
  BY Zenon DEF UInv, TypeOK
<1>4. PICK x \in registered : x.id = f.id /\ x.target = f.target
  BY Zenon DEF UInv, Server
<1>5. \/ Fits(f) = {} /\ tid' = tid
      \/ \E p \in loaded : target[p] = f.target /\ tid' = [tid EXCEPT ![p] = f.id]
  <2>1. CASE Fits(f) = {}
    BY <2>1, Zenon DEF Scan, Restored
  <2>2. CASE Fits(f) # {}
    <3>1. Fits(f) \in SUBSET Plugin
      BY Zenon DEF Fits, UInv, Life
    <3>2. First(Fits(f)) \in Fits(f)
      BY <2>2, <3>1, FirstIn, Zenon
    <3>3. tid' = [tid EXCEPT ![First(Fits(f))] = f.id]
      BY <2>2, Zenon DEF Scan, Restored
    <3> QED
      BY <3>2, <3>3, Zenon DEF Fits
  <2> QED
    BY <2>1, <2>2, Zenon
<1>6. /\ tid' \in [Plugin -> Word]
      /\ \A p \in Plugin : tid'[p] # tid[p] =>
           p \in loaded /\ target[p] = f.target /\ tid'[p] = f.id
      /\ \A p, q \in Plugin : tid'[p] # tid[p] /\ tid'[q] # tid[q] => p = q
  BY <1>3, <1>5 DEF UInv, TypeOK, Life
<1>7. TypeOK'
  BY <1>1, <1>2, <1>6, Zenon DEF UInv, TypeOK, SInv
<1>8. Life'
  BY <1>1, <1>2, Zenon DEF UInv, Life
<1>9. Ids' /\ Nonzero' /\ Server' /\ AidKept'
  <2>1. Ids' /\ Nonzero'
    BY <1>1, <1>2, <1>6, Zenon DEF UInv, Life, Ids, Nonzero
  <2>2. Server'
    BY <1>1, <1>2, <1>3, Zenon DEF UInv, Server
  <2>3. AidKept'
    BY <1>1, Zenon DEF UInv, AidKept
  <2> QED
    BY <2>1, <2>2, <2>3, Zenon
<1>10. OneName'
  <2>1. \A i, g : Names(i, g)' => Names(i, g)
    BY <1>1, <1>4, <1>6, Zenon DEF Names
  <2> QED
    BY <1>1, <2>1, Zenon DEF UInv, OneName
<1>11. FilesApart'
  <2> SUFFICES ASSUME ~clash, NEW h \in files', NEW p \in Plugin, tid'[p] = h.id
               PROVE  FALSE
    BY <1>1, Zenon DEF FilesApart
  <2>1. tid[p] # h.id
    BY <1>2, Zenon DEF UInv, FilesApart
  <2>2. h.id = f.id /\ h \in files /\ h # f
    BY <1>2, <1>6, <2>1, Zenon
  <2>3. h.target = f.target
    <3>1. PICK y \in registered : y.id = h.id /\ y.target = h.target
      BY <2>2, Zenon DEF UInv, Server
    <3>2. Names(f.id, f.target) /\ Names(f.id, h.target)
      BY <1>4, <2>2, <3>1, Zenon DEF Names
    <3> QED
      BY <3>2, Zenon DEF UInv, OneName
  <2>4. h \in [id : Word, target : Target]
    BY <2>2, Zenon DEF UInv, TypeOK
  <2> QED
    BY <1>3, <2>2, <2>3, <2>4
<1>12. TidsDistinct'
  <2> SUFFICES ASSUME ~clash, NEW p \in loaded, NEW q \in loaded,
                      tid'[p] = tid'[q], tid'[p] # 0, p # q
               PROVE  FALSE
    BY <1>1, Zenon DEF TidsDistinct
  <2>1. p \in Plugin /\ q \in Plugin
    BY Zenon DEF UInv, Life
  <2>2. tid[p] # f.id /\ tid[q] # f.id
    BY <1>2, <2>1, Zenon DEF UInv, FilesApart
  <2>3. tid'[p] = tid[p] /\ tid'[q] = tid[q]
    BY <1>6, <2>1, <2>2, Zenon
  <2> QED
    BY <2>3, Zenon DEF UInv, TidsDistinct
<1>13. FilesOfGathering' /\ TargetKept'
  <2>1. FilesOfGathering'
    BY <1>1, <1>2, Zenon DEF FilesOfGathering
  <2> QED
    BY <1>1, <2>1, TargetKeptStep, Zenon DEF UInv
<1>14. Remembered'
  <2> SUFFICES ASSUME ~disturbed, ~clash
               PROVE  Remembered'
    BY <1>1, Zenon DEF Remembered
  <2>1. \A h \in files : \E q \in loaded : target[q] = h.target
    BY <1>2, Zenon DEF UInv, Remembered
  <2>2. ASSUME NEW p \in Plugin, Solo(p), NEW y \in registered, y.target = target[p]
        PROVE  tid'[p] = y.id \/ [id |-> y.id, target |-> y.target] \in files'
    <3>1. tid[p] = y.id \/ [id |-> y.id, target |-> y.target] \in files
      BY <2>2, Zenon DEF UInv, Remembered
    <3>2. CASE target[p] = f.target
      <4>1. x.id = y.id
        BY <1>4, <2>2, <3>2, Zenon DEF UInv, TargetKept, Solo
      <4>2. PICK q \in loaded : target[q] = f.target /\ tid' = [tid EXCEPT ![q] = f.id]
        BY <1>5, <2>1, Zenon DEF Fits
      <4>3. q = p
        BY <2>2, <3>2, <4>2, Zenon DEF Solo, UInv, Life
      <4> QED
        BY <1>4, <4>1, <4>2, <4>3, Zenon DEF UInv, TypeOK
    <3>3. CASE target[p] # f.target
      <4>1. tid'[p] = tid[p]
        BY <1>6, <3>3, Zenon
      <4>2. [id |-> y.id, target |-> y.target] # f
        BY <2>2, <3>3
      <4> QED
        BY <1>2, <3>1, <4>1, <4>2, Zenon
    <3> QED
      BY <3>2, <3>3, Zenon
  <2>3. phase # "run"
    BY <1>2, Zenon
  <2> QED
    BY <1>1, <1>2, <2>1, <2>2, <2>3, Zenon DEF Remembered, Solo
<1> QED
  BY <1>7, <1>8, <1>9, <1>10, <1>11, <1>12, <1>13, <1>14, Zenon DEF UInv

-----------------------------------------------------------------------------
(* plugin_regr: what p takes as its id, made up or not, is its own. *)
Renamed(p) ==
  /\ tid' \in [Plugin -> Word]
  /\ \A q \in Plugin : q # p => tid'[q] = tid[q]
  /\ clash => clash'
  /\ ~clash' => tid'[p] # 0
  /\ OneName' /\ FilesApart' /\ TidsDistinct'

(* plugin_regr: an id that is made up is no other target's or plugin's,    *)
(* unless it was in use.                                                   *)
LEMMA NewIdStep ==
  ASSUME UInv, NEW p \in loaded \ gathering, NewId(p),
         UNCHANGED <<target, files, loaded, gathering, registered>>
  PROVE  Renamed(p)
<1>1. p \in Plugin /\ loaded \subseteq Plugin /\ tid \in [Plugin -> Word]
  BY Zenon DEF UInv, TypeOK, Life
<1>2. PICK i \in Word : tid' = [tid EXCEPT ![p] = i] /\ clash' = (clash \/ i \in InUse(p))
  BY IdWord, Zenon DEF NewId
<1>3. tid' \in [Plugin -> Word] /\ \A q \in Plugin : tid'[q] = IF q = p THEN i ELSE tid[q]
  BY <1>1, <1>2, Zenon
<1>4. clash => clash'
  BY <1>2, Zenon
<1>5. ASSUME ~clash'
      PROVE  /\ i # 0 /\ \A x \in registered : x.id # i
             /\ \A q \in Plugin : q # p => tid[q] # i
             /\ Nonzero /\ ~clash
  <2>1. i \notin InUse(p) /\ ~clash
    BY <1>2, <1>5, Zenon
  <2>2. i # 0 /\ (\A x \in registered : x.id # i) /\ \A q \in loaded \ {p} : tid[q] # i
    BY <2>1, Zenon DEF InUse
  <2> QED
    BY <2>1, <2>2, Zenon DEF UInv, Ids
<1>6. OneName'
  <2> SUFFICES ASSUME ~clash', NEW j, NEW g, NEW h, Names(j, g)', Names(j, h)'
               PROVE  g = h
    BY Zenon DEF OneName
  <2>1. ASSUME NEW a, Names(j, a)'
        PROVE  (j # i /\ Names(j, a)) \/ (j = i /\ a = target[p])
    BY <1>1, <1>3, <1>5, <2>1, Zenon DEF Names
  <2>2. CASE j = i
    <3>1. g = target[p] /\ h = target[p]
      BY <2>1, <2>2, Zenon
    <3> QED
      BY <3>1
  <2>3. CASE j # i
    <3>1. Names(j, g) /\ Names(j, h)
      BY <2>1, <2>3, Zenon
    <3> QED
      BY <1>5, <3>1, Zenon DEF UInv, OneName
  <2> QED
    BY <2>2, <2>3, Zenon
<1>7. FilesApart'
  <2> SUFFICES ASSUME ~clash', NEW f \in files, NEW q \in Plugin, tid'[q] = f.id
               PROVE  q \in gathering
    BY Zenon DEF FilesApart
  <2>1. f.id # i
    BY <1>5, Zenon DEF UInv, Server
  <2>2. tid[q] = f.id
    BY <1>3, <2>1, Zenon
  <2> QED
    BY <1>5, <2>2, Zenon DEF UInv, FilesApart
<1>8. TidsDistinct'
  <2> SUFFICES ASSUME ~clash', NEW q \in loaded, NEW r \in loaded,
                      tid'[q] = tid'[r], tid'[q] # 0, q # r
               PROVE  FALSE
    BY Zenon DEF TidsDistinct
  <2>1. q \in Plugin /\ r \in Plugin
    BY <1>1, Zenon
  <2>2. q # p /\ r # p
    BY <1>3, <1>5, <2>1, Zenon
  <2>3. tid[q] = tid[r] /\ tid[q] # 0
    BY <1>3, <2>1, <2>2, Zenon
  <2> QED
    BY <1>5, <2>3, Zenon DEF UInv, TidsDistinct
<1> QED
  BY <1>1, <1>3, <1>4, <1>5, <1>6, <1>7, <1>8, Zenon DEF Renamed

(* plugin_regr: the plugins that gather and their files are left alone. *)
LEMMA FilesKept ==
  ASSUME UInv, NEW p \in loaded \ gathering, Renamed(p),
         UNCHANGED <<target, resdir, files, phase, gathering>>
  PROVE  FilesOfGathering'
<1>1. \A q \in gathering : tid'[q] = tid[q]
  BY Zenon DEF UInv, TypeOK, Life, Renamed
<1>2. SUFFICES ASSUME phase = "run", resdir
               PROVE  /\ \A f \in files : \E q \in gathering : f.id = tid'[q] /\ f.target = target[q]
                      /\ \A q \in gathering : \E f \in files : f.id = tid'[q] /\ (clash' \/ f.target = target[q])
  BY Zenon DEF FilesOfGathering
<1>3. /\ \A f \in files : \E q \in gathering : f.id = tid[q] /\ f.target = target[q]
      /\ \A q \in gathering : \E f \in files : f.id = tid[q] /\ (clash \/ f.target = target[q])
  BY <1>2, Zenon DEF UInv, FilesOfGathering
<1>4. clash => clash'
  BY Zenon DEF Renamed
<1> QED
  BY <1>1, <1>3, <1>4, Zenon

(* plugin_regr, up to post: a plugin whose target is known keeps its id,   *)
(* and makes one up otherwise.                                             *)
LEMMA RegisterStep ==
  ASSUME UInv, SInv', NEW p \in Plugin, Register(p)
  PROVE  UInv'
<1>1. /\ phase = "run" /\ p \in loaded \ gathering /\ pc[p] = "idle"
      /\ UNCHANGED <<target, on, resdir, aidfile, files, phase, aid, loaded, gathering>>
      /\ UNCHANGED <<registered, disturbed, answer>>
      /\ pc' = [pc EXCEPT ![p] = "spin"] /\ oob' = oob \cup {p}
  BY Zenon DEF Register, Post, Goto, disk
<1>2. pc \in [Plugin -> PostPc]
  BY Zenon DEF UInv, SInv, SenderTypeOK, Plugin
<1>3. \A q \in Plugin : pc'[q] = IF q = p THEN "spin" ELSE pc[q]
  BY <1>1, <1>2, Zenon
<1>4. \/ ~(p \notin oob /\ tid[p] = 0) /\ UNCHANGED <<tid, clash>>
      \/ p \notin oob /\ tid[p] = 0 /\ NewId(p)
  BY Zenon DEF Register
<1>5. Renamed(p) /\ (tid[p] # 0 => tid' = tid)
  <2>1. CASE ~(p \notin oob /\ tid[p] = 0) /\ UNCHANGED <<tid, clash>>
    <3>1. UNCHANGED known
      BY <1>1, <2>1, Zenon DEF known
    <3>2. OneName' /\ FilesApart' /\ TidsDistinct'
      BY <3>1, KnownKept, Zenon
    <3>3. ~clash => tid[p] # 0
      BY <2>1, Zenon DEF UInv, Nonzero
    <3> QED
      BY <2>1, <3>2, <3>3, Zenon DEF UInv, TypeOK, Renamed
  <2>2. CASE p \notin oob /\ tid[p] = 0 /\ NewId(p)
    BY <1>1, <2>2, NewIdStep, Zenon
  <2> QED
    BY <1>4, <2>1, <2>2, Zenon
<1>6. TypeOK'
  BY <1>1, <1>3, <1>5, Zenon DEF UInv, TypeOK, SInv, Renamed
<1>7. Life'
  BY <1>1, Zenon DEF UInv, Life
<1>8. Ids' /\ Nonzero' /\ Server' /\ AidKept'
  <2>1. Ids' /\ Nonzero'
    <3>1. Ids'
      BY <1>1, <1>3, <1>5, Zenon DEF UInv, Ids, Renamed
    <3>2. Nonzero'
      BY <1>1, <1>5, Zenon DEF UInv, Nonzero, Renamed
    <3> QED
      BY <3>1, <3>2, Zenon
  <2>2. Server'
    <3>1. \A f \in files' : \E x \in registered' : x.id = f.id /\ x.target = f.target
      BY <1>1, Zenon DEF UInv, Server
    <3>2. ASSUME NEW q \in Plugin
          PROVE  /\ pc'[q] = "idle" => answer'[q] = "none"
                 /\ answer'[q] = "ok" => \E x \in registered' : x.id = tid'[q] /\ x.target = target'[q]
      <4>1. answer'[q] = answer[q] /\ target'[q] = target[q] /\ registered' = registered
        BY <1>1, Zenon
      <4>2. ASSUME q # p
            PROVE  pc'[q] = pc[q] /\ tid'[q] = tid[q]
        BY <1>3, <1>5, <4>2, Zenon DEF Renamed
      <4>3. ASSUME q = p
            PROVE  pc'[q] = "spin" /\ answer[q] = "none"
        BY <1>1, <1>3, <4>3, Zenon DEF UInv, Server
      <4> QED
        BY <4>1, <4>2, <4>3, Zenon DEF UInv, Server
    <3> QED
      BY <3>1, <3>2, Zenon DEF Server
  <2>3. AidKept'
    BY <1>1, Zenon DEF UInv, AidKept
  <2> QED
    BY <2>1, <2>2, <2>3, Zenon
<1>9. FilesOfGathering' /\ TargetKept'
  <2>3. FilesOfGathering'
    BY <1>1, <1>5, FilesKept, Zenon
  <2>4. target' = target /\ registered' = registered /\ disturbed' = disturbed /\ (clash => clash')
    BY <1>1, <1>5, Zenon DEF Renamed
  <2>5. TargetKept'
    <3>1. TargetKept
      BY Zenon DEF UInv
    <3> QED
      BY <2>4, <3>1, TargetKeptStep, Zenon
  <2> QED
    BY <2>3, <2>5, Zenon
<1>10. Remembered'
  <2> SUFFICES ASSUME ~disturbed, ~clash', NEW q \in Plugin, Solo(q),
                      NEW x \in registered, x.target = target[q]
               PROVE  tid'[q] = x.id
    BY <1>1, Zenon DEF Remembered, Solo
  <2>1. ~clash
    BY <1>5, Zenon DEF Renamed
  <2>2. tid[q] = x.id /\ x.id # 0
    BY <1>1, <2>1, Zenon DEF UInv, Remembered, Nonzero
  <2> QED
    BY <1>5, <2>2, Zenon DEF Renamed
<1> QED
  BY <1>5, <1>6, <1>7, <1>8, <1>9, <1>10, Zenon DEF UInv, Renamed

(* post: a plugin that is about to return has a packet, has an id unless   *)
(* that is in use, and does not gather.                                    *)
LEMMA Returning ==
  ASSUME UInv, NEW p \in Plugin, pc[p] # "idle"
  PROVE  /\ phase = "run" /\ p \in oob /\ p \in loaded \ gathering
         /\ clash \/ tid[p] # 0
         /\ aid = aidfile
         /\ pc \in [Plugin -> PostPc] /\ answer \in [Plugin -> Reply \cup {"none"}]
<1>1. p \in oob /\ p \in loaded \ gathering
  BY Zenon DEF UInv, Ids
<1>2. clash \/ tid[p] # 0
  BY <1>1, Zenon DEF UInv, Nonzero
<1>3. phase = "run"
  BY Zenon DEF UInv, Life
<1> QED
  BY <1>1, <1>2, <1>3, Zenon DEF UInv, Life, SInv, SenderTypeOK, Plugin

(* plugin_regr, refused: another id is made up, which costs the target its *)
(* old one, or the same one is tried again.                                *)
LEMMA RefusedStep ==
  ASSUME UInv, SInv', NEW p \in Plugin, Refused(p)
  PROVE  UInv'
<1>1. /\ pc[p] = "return"
      /\ UNCHANGED <<target, on, resdir, aidfile, files, phase, aid, loaded, oob, gathering, registered>>
      /\ pc' = [pc EXCEPT ![p] = "idle"] /\ answer' = [answer EXCEPT ![p] = "none"]
  BY Zenon DEF Refused, Return, Goto, disk
<1>2. /\ phase = "run" /\ p \in oob /\ p \in loaded \ gathering /\ (clash \/ tid[p] # 0)
      /\ pc \in [Plugin -> PostPc] /\ answer \in [Plugin -> Reply \cup {"none"}]
  BY <1>1, Returning, Zenon
<1>3. \A q \in Plugin : /\ pc'[q] = IF q = p THEN "idle" ELSE pc[q]
                        /\ answer'[q] = IF q = p THEN "none" ELSE answer[q]
  BY <1>1, <1>2, Zenon
<1>4. \/ UNCHANGED <<tid, clash, disturbed>>
      \/ NewId(p) /\ disturbed' = TRUE
  BY Zenon DEF Refused
<1>5. Renamed(p)
  <2>1. CASE UNCHANGED <<tid, clash, disturbed>>
    <3>1. UNCHANGED known
      BY <1>1, <2>1, Zenon DEF known
    <3>2. OneName' /\ FilesApart' /\ TidsDistinct'
      BY <3>1, KnownKept, Zenon
    <3> QED
      BY <1>2, <2>1, <3>2, Zenon DEF UInv, TypeOK, Renamed
  <2>2. CASE NewId(p)
    BY <1>1, <1>2, <2>2, NewIdStep, Zenon
  <2> QED
    BY <1>4, <2>1, <2>2, Zenon
<1>6. TypeOK'
  BY <1>1, <1>2, <1>5, Zenon DEF UInv, TypeOK, SInv, Renamed
<1>7. Life'
  BY <1>1, <1>2, Zenon DEF UInv, Life
<1>8. Ids' /\ Nonzero' /\ Server' /\ AidKept'
  <2>1. Ids' /\ Nonzero'
    <3>1. Ids'
      BY <1>1, <1>2, <1>3, <1>5, Zenon DEF UInv, Ids, Renamed
    <3>2. Nonzero'
      BY <1>1, <1>5, Zenon DEF UInv, Nonzero, Renamed
    <3> QED
      BY <3>1, <3>2, Zenon
  <2>2. Server'
    <3>1. \A q \in Plugin :
            /\ pc'[q] = "idle" => answer'[q] = "none"
            /\ answer'[q] = "ok" => answer[q] = "ok" /\ tid'[q] = tid[q]
      BY <1>3, <1>5, Zenon DEF UInv, Server, Renamed
    <3>2. Server /\ target' = target /\ files' = files /\ registered' = registered
      BY <1>1, Zenon DEF UInv
    <3>3. \A q \in Plugin : answer'[q] = "ok" =>
            \E x \in registered' : x.id = tid'[q] /\ x.target = target'[q]
      BY <3>1, <3>2 DEF Server
    <3>4. \A f \in files' : \E x \in registered' : x.id = f.id /\ x.target = f.target
      BY <3>2 DEF Server
    <3> QED
      BY <3>1, <3>3, <3>4, Zenon DEF Server
  <2>3. AidKept'
    BY <1>1, Zenon DEF UInv, AidKept
  <2> QED
    BY <2>1, <2>2, <2>3, Zenon
<1>9. FilesOfGathering'
  BY <1>1, <1>2, <1>5, FilesKept, Zenon
<1>10. (disturbed => disturbed') /\ (clash => clash')
  <2>1. clash => clash'
    BY <1>5, Zenon DEF Renamed
  <2>2. disturbed => disturbed'
    BY <1>4, Zenon
  <2> QED
    BY <2>1, <2>2, Zenon
<1>11. TargetKept'
  BY <1>1, <1>10, TargetKeptStep, Zenon DEF UInv
<1>12. Remembered'
  <2>1. CASE UNCHANGED <<tid, clash, disturbed>>
    <3>1. UNCHANGED known /\ phase' = phase
      BY <1>1, <2>1, Zenon DEF known
    <3> QED
      BY <3>1, KnownKept, Zenon
  <2>2. CASE disturbed' = TRUE
    BY <2>2, Zenon DEF Remembered
  <2> QED
    BY <1>4, <2>1, <2>2, Zenon
<1> QED
  BY <1>5, <1>6, <1>7, <1>8, <1>9, <1>11, <1>12, Zenon DEF UInv, Renamed

With(p) == registered \cup {[aid |-> aid, id |-> tid[p], target |-> target[p]]}

(* curl_easy_perform for a registration: the server may take it, and has   *)
(* taken it if it says so.                                                 *)
LEMMA TransmitEffect ==
  ASSUME UInv, NEW p \in Plugin, Transmit(p)
  PROVE  /\ UNCHANGED <<disk, phase, starts, memory, clash, disturbed>>
         /\ pc[p] = "perform" /\ pc' = [pc EXCEPT ![p] = "getinfo"]
         /\ \E reply \in Reply :
              /\ answer' = [answer EXCEPT ![p] = reply]
              /\ registered' = With(p) \/ (registered' = registered /\ reply # "ok")
<1>1. OwnPacket /\ p \in Thread
  BY Zenon DEF UInv, SInv, Plugin
<1>2. PICK reply \in Reply :
        /\ Perform(p, reply)
        /\ registered' \in CASE reply = "ok"                  -> {With(p)}
                             [] reply \in {"error", "taken"} -> {registered}
                             [] OTHER                         -> {registered, With(p)}
  <2>1. pc[p] = "perform"
    BY Zenon DEF Transmit, Perform
  <2>2. postfields[kind[p]] = p
    BY <1>1, <2>1, Zenon DEF OwnPacket
  <2> QED
    BY <2>2, Zenon DEF Transmit, With
<1>3. PICK good \in BOOLEAN : Effect(p, reply, good)
  BY <1>1, <1>2, PerformEffect, Zenon
<1>4. registered' = With(p) \/ (registered' = registered /\ reply # "ok")
  BY <1>2, Zenon DEF Reply
<1> QED
  BY <1>3, <1>4, Zenon DEF Transmit, Effect

(* plugin_regr: a registration is that of an id in use, and a target that  *)
(* was registered before is registered with the id it had.                 *)
LEMMA TransmitStep ==
  ASSUME UInv, SInv', NEW p \in Plugin, Transmit(p)
  PROVE  UInv'
<1> DEFINE new == [aid |-> aid, id |-> tid[p], target |-> target[p]]
<1>1. /\ UNCHANGED <<target, on, resdir, aidfile, files, phase, aid, loaded, tid, oob, gathering>>
      /\ UNCHANGED <<clash, disturbed>>
      /\ pc[p] = "perform" /\ pc' = [pc EXCEPT ![p] = "getinfo"]
  BY TransmitEffect, Zenon DEF disk, memory
<1>2. PICK reply \in Reply :
        /\ answer' = [answer EXCEPT ![p] = reply]
        /\ registered' = With(p) \/ (registered' = registered /\ reply # "ok")
  BY TransmitEffect, Zenon
<1>3. /\ phase = "run" /\ p \in oob /\ p \in loaded \ gathering
      /\ clash \/ tid[p] # 0
      /\ aid = aidfile
      /\ pc \in [Plugin -> PostPc] /\ answer \in [Plugin -> Reply \cup {"none"}]
  BY <1>1, Returning, Zenon
<1>4. \A q \in Plugin : /\ pc'[q] = IF q = p THEN "getinfo" ELSE pc[q]
                        /\ answer'[q] = IF q = p THEN reply ELSE answer[q]
  BY <1>1, <1>2, <1>3, Zenon
<1>5. registered \subseteq registered' /\ \A x \in registered' : x \in registered \/ x = new
  BY <1>2, Zenon DEF With
<1>6. new.aid = aid /\ new.id = tid[p] /\ new.target = target[p]
  OBVIOUS
<1>7. new \in [aid : Word, id : Word, target : Target]
  BY <1>3 DEF UInv, TypeOK
<1>8. reply = "ok" => new \in registered'
  BY <1>2, Zenon DEF With
<1> HIDE DEF new
<1>9. TypeOK'
  BY <1>1, <1>3, <1>5, <1>7, Zenon DEF UInv, TypeOK, SInv
<1>10. Life'
  BY <1>1, <1>3, Zenon DEF UInv, Life
<1>11. Ids' /\ Nonzero'
  <2>1. Ids'
    BY <1>1, <1>3, <1>4, Zenon DEF UInv, Ids
  <2>2. Nonzero'
    BY <1>1, <1>3, <1>5, <1>6, Zenon DEF UInv, Nonzero
  <2> QED
    BY <2>1, <2>2, Zenon
<1>12. Server'
  <2>1. \A q \in Plugin : pc'[q] = "idle" => answer'[q] = "none"
    BY <1>4, Zenon DEF UInv, Server
  <2>2. ASSUME NEW q \in Plugin, answer'[q] = "ok"
        PROVE  \E x \in registered' : x.id = tid[q] /\ x.target = target[q]
    <3>1. CASE q = p
      BY <1>4, <1>6, <1>8, <2>2, <3>1, Zenon
    <3>2. CASE q # p
      BY <1>4, <1>5, <2>2, <3>2, Zenon DEF UInv, Server
    <3> QED
      BY <3>1, <3>2, Zenon
  <2>3. \A f \in files : \E x \in registered' : x.id = f.id /\ x.target = f.target
    BY <1>5, Zenon DEF UInv, Server
  <2> QED
    BY <1>1, <2>1, <2>2, <2>3, Zenon DEF Server
<1>13. AidKept'
  BY <1>1, <1>3, <1>5, <1>6, Zenon DEF UInv, AidKept
<1>14. OneName'
  <2>1. ~clash => \A i, g : Names(i, g)' => Names(i, g)
    BY <1>1, <1>3, <1>5, <1>6, Zenon DEF Names
  <2> QED
    BY <1>1, <2>1, Zenon DEF UInv, OneName
<1>15. FilesApart' /\ TidsDistinct' /\ FilesOfGathering'
  BY <1>1, Zenon DEF UInv, FilesApart, TidsDistinct, FilesOfGathering
<1>16. ASSUME ~disturbed, ~clash, NEW q \in Plugin, Solo(q), NEW x \in registered', x.target = target[q]
       PROVE  tid[q] = x.id
  <2>1. CASE x \in registered
    BY <1>3, <1>16, <2>1, Zenon DEF UInv, Remembered
  <2>2. CASE x = new
    BY <1>6, <1>16, <2>2, Zenon DEF Solo
  <2> QED
    BY <1>5, <2>1, <2>2, Zenon
<1>17. TargetKept'
  <2> SUFFICES ASSUME ~disturbed, ~clash, NEW q \in Plugin, Solo(q),
                      NEW x \in registered', NEW y \in registered',
                      x.target = target[q], y.target = target[q]
               PROVE  x.id = y.id
    BY <1>1, Zenon DEF TargetKept, Solo
  <2> QED
    BY <1>16, Zenon
<1>18. Remembered'
  <2>1. phase' = "run"
    BY <1>1, <1>3, Zenon
  <2> QED
    BY <1>1, <1>16, <2>1, Zenon DEF Remembered, Solo
<1> QED
  BY <1>9, <1>10, <1>11, <1>12, <1>13, <1>14, <1>15, <1>17, <1>18, Zenon DEF UInv

(* plugin_regr, accepted: the file is that of the one plugin with the id. *)
LEMMA AcceptedStep ==
  ASSUME UInv, SInv', NEW p \in Plugin, Accepted(p)
  PROVE  UInv'
<1> DEFINE new == [id |-> tid[p], target |-> target[p]]
<1>1. pc[p] = "return" /\ Posted(p)
  BY Zenon DEF Accepted, Return
<1>2. UNCHANGED <<target, on, resdir, aidfile, registered, clash>>
  BY Zenon DEF Accepted
<1>3. CASE ~resdir
  <2>1. Exit /\ UNCHANGED files /\ disturbed'
    BY <1>3, Zenon DEF Accepted
  <2> QED
    BY <1>2, <2>1, ExitStep, Zenon
<1>4. CASE resdir
  <2>1. /\ UNCHANGED <<phase, aid, loaded, tid, disturbed>>
        /\ files' = Written(p) /\ gathering' = gathering \cup {p} /\ oob' = oob \ {p}
        /\ pc' = [pc EXCEPT ![p] = "idle"] /\ answer' = [answer EXCEPT ![p] = "none"]
    BY <1>4, Zenon DEF Accepted, Return, Goto
  <2>2. /\ phase = "run" /\ p \in loaded \ gathering /\ (clash \/ tid[p] # 0)
        /\ pc \in [Plugin -> PostPc] /\ answer \in [Plugin -> Reply \cup {"none"}]
    BY <1>1, Returning, Zenon
  <2>3. \A q \in Plugin : /\ pc'[q] = IF q = p THEN "idle" ELSE pc[q]
                          /\ answer'[q] = IF q = p THEN "none" ELSE answer[q]
    BY <2>1, <2>2, Zenon
  <2>4. new.id = tid[p] /\ new.target = target[p] /\ new \in [id : Word, target : Target]
    BY <2>2 DEF UInv, TypeOK
  <2>5. PICK x \in registered : x.id = tid[p] /\ x.target = target[p]
    <3>1. answer[p] = "ok"
      BY <1>1, Zenon DEF UInv, SInv, OwnResult, Plugin
    <3> QED
      BY <3>1, Zenon DEF UInv, Server
  <2>6. /\ new \in files'
        /\ \A f \in files' : f = new \/ f \in files
        /\ \A f \in files : f \in files' \/ f.id = new.id
    BY <2>1, <2>4, Zenon DEF Written
  <2> HIDE DEF new
  <2>8. TypeOK'
    BY <1>2, <2>1, <2>2, <2>3, <2>4, <2>6, Zenon DEF UInv, TypeOK, SInv
  <2>9. Life'
    BY <1>2, <1>4, <2>1, <2>2, Zenon DEF UInv, Life
  <2>10. Ids' /\ Nonzero'
    <3>1. Ids'
      BY <2>1, <2>2, <2>3, Zenon DEF UInv, Ids
    <3>2. Nonzero'
      BY <1>2, <2>1, <2>2, Zenon DEF UInv, Nonzero
    <3> QED
      BY <3>1, <3>2, Zenon
  <2>11. Server' /\ AidKept'
    <3>1. \A f \in files' : \E y \in registered : y.id = f.id /\ y.target = f.target
      BY <2>4, <2>5, <2>6, Zenon DEF UInv, Server
    <3>2. \A q \in Plugin :
            /\ pc'[q] = "idle" => answer'[q] = "none"
            /\ answer'[q] = "ok" => answer[q] = "ok"
      BY <2>3, Zenon DEF UInv, Server
    <3>3. Server'
      BY <1>2, <2>1, <3>1, <3>2, Zenon DEF UInv, Server
    <3>4. AidKept'
      BY <1>2, Zenon DEF UInv, AidKept
    <3> QED
      BY <3>3, <3>4, Zenon
  <2>12. OneName'
    <3>1. \A i, g : Names(i, g)' => Names(i, g)
      BY <1>2, <2>1, Zenon DEF Names
    <3> QED
      BY <1>2, <3>1, Zenon DEF UInv, OneName
  <2>13. FilesApart'
    <3> SUFFICES ASSUME ~clash, NEW f \in files', NEW q \in Plugin, tid[q] = f.id
                 PROVE  q \in gathering'
      BY <1>2, <2>1, Zenon DEF FilesApart
    <3>1. CASE f \in files
      <4>1. q \in gathering
        BY <3>1, Zenon DEF UInv, FilesApart
      <4> QED
        BY <2>1, <4>1, Zenon
    <3>2. CASE f = new
      <4>1. tid[q] = tid[p] /\ q \in loaded
        BY <2>2, <2>4, <3>2, Zenon DEF UInv, Ids
      <4>2. q = p
        BY <2>2, <4>1, Zenon DEF UInv, TidsDistinct
      <4> QED
        BY <2>1, <4>2, Zenon
    <3> QED
      BY <2>6, <3>1, <3>2, Zenon
  <2>14. TidsDistinct'
    BY <1>2, <2>1, Zenon DEF UInv, TidsDistinct
  <2>15. FilesOfGathering'
    <3>1. /\ \A f \in files : \E q \in gathering : f.id = tid[q] /\ f.target = target[q]
          /\ \A q \in gathering : \E f \in files : f.id = tid[q] /\ (clash \/ f.target = target[q])
      BY <1>4, <2>2, Zenon DEF UInv, FilesOfGathering
    <3>2. \A f \in files' : \E q \in gathering' : f.id = tid[q] /\ f.target = target[q]
      BY <2>1, <2>4, <2>6, <3>1, Zenon
    <3>3. ASSUME NEW q \in gathering
          PROVE  \E f \in files' : f.id = tid[q] /\ (clash \/ f.target = target[q])
      <4>1. PICK f \in files : f.id = tid[q] /\ (clash \/ f.target = target[q])
        BY <3>1, <3>3, Zenon
      <4>2. CASE tid[q] # tid[p]
        BY <2>4, <2>6, <4>1, <4>2, Zenon
      <4>3. CASE tid[q] = tid[p]
        <5>1. q \in loaded /\ q # p
          BY <2>2, Zenon DEF UInv, TypeOK
        <5>2. clash
          BY <2>2, <4>3, <5>1, Zenon DEF UInv, TidsDistinct
        <5> QED
          BY <2>4, <2>6, <4>3, <5>2, Zenon
      <4> QED
        BY <4>2, <4>3, Zenon
    <3>4. \A q \in gathering' : \E f \in files' : f.id = tid[q] /\ (clash \/ f.target = target[q])
      BY <2>1, <2>4, <2>6, <3>3, Zenon
    <3> QED
      BY <1>2, <2>1, <3>2, <3>4, Zenon DEF FilesOfGathering
  <2>16. TargetKept'
    BY <1>2, <2>1, TargetKeptStep, Zenon DEF UInv
  <2>17. Remembered'
    <3>1. phase' = "run"
      BY <2>1, <2>2, Zenon
    <3> QED
      BY <1>2, <2>1, <2>2, <3>1, Zenon DEF UInv, Remembered, Solo
  <2> QED
    BY <2>8, <2>9, <2>10, <2>11, <2>12, <2>13, <2>14, <2>15, <2>16, <2>17, Zenon DEF UInv
<1> QED
  BY <1>3, <1>4, Zenon

-----------------------------------------------------------------------------
(* main and plugin_regr: it holds in every run, over all starts. *)
LEMMA UInvAlways == Spec => []UInv
<1>1. UInv /\ [Next]_vars => UInv'
  <2> SUFFICES ASSUME UInv, [Next]_vars PROVE UInv'
    OBVIOUS
  <2>1. SInv'
    BY SenderPart, Zenon DEF UInv
  <2>2. CASE Edit \/ UNCHANGED vars
    BY <2>1, <2>2, EditStep, Zenon
  <2>3. CASE Kill \/ MetaFails
    BY <2>1, <2>3, EndStep, Zenon
  <2>4. CASE Launch \/ WriteAid
    BY <2>1, <2>4, LaunchStep, Zenon
  <2>5. CASE GetAid
    BY <2>1, <2>5, GetAidStep, Zenon
  <2>6. CASE Sparse
    BY <2>1, <2>6, SparseStep, Zenon
  <2>7. CASE \E f \in files : Scan(f)
    BY <2>1, <2>7, ScanStep, Zenon
  <2>8. CASE Scanned
    BY <2>1, <2>8, ScannedStep, Zenon
  <2>9. ASSUME NEW p \in Plugin,
               Register(p) \/ Transmit(p) \/ Posting(p) \/ Accepted(p) \/ Refused(p)
        PROVE  UInv'
    BY <2>1, <2>9, RegisterStep, TransmitStep, PostingStep, AcceptedStep, RefusedStep, Zenon
  <2> QED
    BY <2>2, <2>3, <2>4, <2>5, <2>6, <2>7, <2>8, <2>9, Zenon DEF Next
<1> QED
  BY UInvInit, <1>1, PTL DEF Spec

(* main, metadata.c and plugin_regr: the state is well formed at every     *)
(* stage of every start.                                                   *)
THEOREM StartupTypeCorrect == Spec => []TypeOK
<1>1. UInv => TypeOK
  BY Zenon DEF UInv
<1> QED
  BY UInvAlways, <1>1, PTL

(* post: plugins that register at the same time get their own answers,     *)
(* also when the process is killed amidst it and started again.            *)
THEOREM RegistrationsAnswered == Spec => [](HandleExclusive /\ AnswerOwn)
<1>1. UInv => HandleExclusive /\ AnswerOwn
  BY Zenon DEF UInv, SInv, AnswerOwn, OwnResult
<1> QED
  BY UInvAlways, <1>1, PTL

(* get_aid: all registrations ever made are made under one agent id.       *)
THEOREM AidStableAlways == Spec => []AidStable
<1>1. UInv => AidStable
  BY Zenon DEF UInv, AidKept, AidStable
<1> QED
  BY UInvAlways, <1>1, PTL

(* main and plugin_regr: an id never names two targets, whatever the clock *)
(* returns, unless one that is in use was made up again.                   *)
THEOREM IdNamesTargetAlways == Spec => []IdNamesTarget
<1>1. UInv => IdNamesTarget
  <2> SUFFICES ASSUME UInv, ~clash, NEW x \in registered, NEW y \in registered, x.id = y.id
               PROVE  x.target = y.target
    BY Zenon DEF IdNamesTarget
  <2>1. Names(x.id, x.target) /\ Names(x.id, y.target)
    BY Zenon DEF Names
  <2> QED
    BY <2>1, Zenon DEF UInv, OneName
<1> QED
  BY UInvAlways, <1>1, PTL

(* main: the plugins of a process go by different ids, also if they        *)
(* observe the same target, unless an id in use was made up again.         *)
THEOREM TidsDistinctAlways == Spec => []TidsDistinct
<1>1. UInv => TidsDistinct
  BY Zenon DEF UInv
<1> QED
  BY UInvAlways, <1>1, PTL

(* main and plugin_regr: the files under res/ are those of the plugins     *)
(* that gather, from the moment the plugins are started, and only a clash  *)
(* of ids makes one overwrite another.                                     *)
THEOREM FilesOfGatheringAlways == Spec => []FilesOfGathering
<1>1. UInv => FilesOfGathering
  BY Zenon DEF UInv
<1> QED
  BY UInvAlways, <1>1, PTL

(* main and plugin_regr: a target of one block keeps its id over restarts  *)
(* and kills, as long as no id in use is made up again and nothing else    *)
(* happens that is known to cost it its id.                                *)
THEOREM TargetKeptAlways == Spec => []TargetKept
<1>1. UInv => TargetKept
  BY Zenon DEF UInv
<1> QED
  BY UInvAlways, <1>1, PTL
=============================================================================
