------------------------------- MODULE Sender -------------------------------
(***************************************************************************)
(* post (sender.c), called by several threads at a time.  There is one     *)
(* curl handle for each type of packet, and a spin lock with it.  What a   *)
(* post sends, where the answer is written and which status is read back   *)
(* all go through the handle, one call of libcurl after the other.         *)
(* A thread has one packet at a time and stands for it here.               *)
(***************************************************************************)
EXTENDS Naturals

CONSTANTS
  Thread,      (* the threads that post                                    *)
  Type,        (* packet types: METRIC, REGISTER, ALERT                    *)
  NoThread     (* no packet                                                *)

ASSUME SenderAssumption == NoThread \notin Thread /\ Type # {}

VARIABLES
  pc,          (* where each thread is in post, "idle" outside             *)
  kind,        (* pkt->type of its packet                                  *)
  response,    (* pkt->response of its packet                              *)
  code,        (* curl_code: did the transfer go well?                     *)
  status,      (* status_code: was it 200 or 202?                          *)
  spin,        (* sender[type].spin                                        *)
  postfields,  (* the packet whose payload CURLOPT_POSTFIELDS points to    *)
  writedata,   (* the packet that CURLOPT_WRITEDATA points to              *)
  info,        (* CURLINFO_RESPONSE_CODE of the handle: 200 or 202?        *)
  answer,      (* what the server answered to the packet in this post      *)
  told         (* the last body it sent in answer to the packet            *)

locals  == <<kind, response, code, status>>
handles == <<spin, postfields, writedata, info>>
history == <<answer, told>>
senderVars == <<pc, locals, handles, history>>

(* How curl_easy_perform ends (external): "ok" is 200 or 202 and "error"   *)
(* another status, without a body; "taken" has the body ETARGETREG and     *)
(* "other" another one; "lost" is no answer, or not all of it, in time.    *)
Reply  == {"ok", "error", "taken", "other", "lost"}
Bodies == {"taken", "other"}

(* callback returns 0, so that a transfer with a body fails *)
TransferOk(reply) == reply \in {"ok", "error"}

PostPc == {"idle", "spin", "setopt", "perform", "getinfo", "unlock", "return"}

(* The steps in which a thread has the handle of its packet's type *)
Holding == {"setopt", "perform", "getinfo", "unlock"}

ForEach(v) == [t \in Thread |-> v]
ForType(v) == [k \in Type |-> v]
SomeType   == CHOOSE k \in Type : TRUE

SenderInit ==
  /\ pc = ForEach("idle") /\ kind = ForEach(SomeType) /\ response = ForEach("none")
  /\ code = ForEach(FALSE) /\ status = ForEach(FALSE)
  /\ spin = ForType(FALSE) /\ info = ForType(FALSE)
  /\ postfields = ForType(NoThread) /\ writedata = ForType(NoThread)
  /\ answer = ForEach("none") /\ told = ForEach("none")

(* The process ends, and its memory with it *)
SenderGone ==
  /\ pc' = ForEach("idle") /\ kind' = ForEach(SomeType) /\ response' = ForEach("none")
  /\ code' = ForEach(FALSE) /\ status' = ForEach(FALSE)
  /\ spin' = ForType(FALSE) /\ info' = ForType(FALSE)
  /\ postfields' = ForType(NoThread) /\ writedata' = ForType(NoThread)
  /\ answer' = ForEach("none") /\ told' = ForEach("none")

-----------------------------------------------------------------------------
Goto(t, l) == pc' = [pc EXCEPT ![t] = l]

(* post is called for a new packet of type k, whose response is 0, or for  *)
(* the packet of an earlier attempt                                        *)
Post(t, k, new) ==
  /\ pc[t] = "idle"
  /\ new \/ kind[t] = k
  /\ Goto(t, "spin")
  /\ kind' = [kind EXCEPT ![t] = k]
  /\ response' = [response EXCEPT ![t] = IF new THEN "none" ELSE @]
  /\ told' = [told EXCEPT ![t] = IF new THEN "none" ELSE @]
  /\ UNCHANGED <<code, status, handles, answer>>

(* Mutant: the lock is tested, then set without a look. *)
AcquireAny(t) ==
  /\ pc[t] = "spin"
  /\ Goto(t, "setopt")
  /\ spin' = [spin EXCEPT ![kind[t]] = TRUE]
  /\ UNCHANGED <<locals, postfields, writedata, info, history>>

Acquire(t) ==
  /\ pc[t] = "spin" /\ ~spin[kind[t]]
  /\ Goto(t, "setopt")
  /\ spin' = [spin EXCEPT ![kind[t]] = TRUE]
  /\ UNCHANGED <<locals, postfields, writedata, info, history>>

(* Mutant: the packet to write the response to is set for the first post only. *)
SetOptOnce(t) ==
  /\ pc[t] = "setopt"
  /\ Goto(t, "perform")
  /\ postfields' = [postfields EXCEPT ![kind[t]] = t]
  /\ writedata' = [writedata EXCEPT ![kind[t]] = IF @ = NoThread THEN t ELSE @]
  /\ UNCHANGED <<locals, spin, info, history>>

SetOpt(t) ==
  /\ pc[t] = "setopt"
  /\ Goto(t, "perform")
  /\ postfields' = [postfields EXCEPT ![kind[t]] = t]
  /\ writedata' = [writedata EXCEPT ![kind[t]] = t]
  /\ UNCHANGED <<locals, spin, info, history>>

(* curl_easy_perform: the payload goes out and the answer to it comes in;  *)
(* callback stores the number in the body, if there is one, in the packet  *)
(* it is given                                                             *)
Perform(t, reply) ==
  /\ pc[t] = "perform"
  /\ Goto(t, "getinfo")
  /\ code' = [code EXCEPT ![t] = TransferOk(reply)]
  /\ \E good \in IF TransferOk(reply) THEN {reply = "ok"} ELSE BOOLEAN :
       info' = [info EXCEPT ![kind[t]] = good]
  /\ response' = [response EXCEPT ![writedata[kind[t]]] = IF reply \in Bodies THEN reply ELSE @]
  /\ answer' = [answer EXCEPT ![postfields[kind[t]]] = reply]
  /\ told' = [told EXCEPT ![postfields[kind[t]]] = IF reply \in Bodies THEN reply ELSE @]
  /\ UNCHANGED <<kind, status, spin, postfields, writedata>>

GetInfo(t) ==
  /\ pc[t] = "getinfo"
  /\ Goto(t, "unlock")
  /\ status' = [status EXCEPT ![t] = info[kind[t]]]
  /\ UNCHANGED <<kind, response, code, handles, history>>

Release(t) ==
  /\ pc[t] = "unlock"
  /\ Goto(t, "return")
  /\ spin' = [spin EXCEPT ![kind[t]] = FALSE]
  /\ UNCHANGED <<locals, postfields, writedata, info, history>>

(* post returns 0 *)
Posted(t) == code[t] /\ status[t]

(* The caller frees the packet (packet_free), or keeps it for a retry *)
Return(t, freed) ==
  /\ pc[t] = "return"
  /\ Goto(t, "idle")
  /\ response' = [response EXCEPT ![t] = IF freed THEN "none" ELSE @]
  /\ told' = [told EXCEPT ![t] = IF freed THEN "none" ELSE @]
  /\ answer' = [answer EXCEPT ![t] = "none"]
  /\ code' = [code EXCEPT ![t] = FALSE]
  /\ status' = [status EXCEPT ![t] = FALSE]
  /\ UNCHANGED <<kind, handles>>

(* The steps within post that are nobody else's business *)
PostStep(t) ==
  Acquire(t) \/ SetOpt(t) \/ GetInfo(t) \/ Release(t)

SenderNext ==
  \E t \in Thread :
    \/ \E k \in Type, new \in BOOLEAN : Post(t, k, new)
    \/ PostStep(t) \/ \E reply \in Reply : Perform(t, reply)
    \/ \E freed \in BOOLEAN : Return(t, freed)

SenderSpec == SenderInit /\ [][SenderNext]_senderVars

-----------------------------------------------------------------------------
SenderTypeOK ==
  /\ pc \in [Thread -> PostPc]
  /\ kind \in [Thread -> Type]
  /\ response \in [Thread -> Bodies \cup {"none"}]
  /\ code \in [Thread -> BOOLEAN]
  /\ status \in [Thread -> BOOLEAN]
  /\ spin \in [Type -> BOOLEAN]
  /\ postfields \in [Type -> Thread \cup {NoThread}]
  /\ writedata \in [Type -> Thread \cup {NoThread}]
  /\ info \in [Type -> BOOLEAN]
  /\ answer \in [Thread -> Reply \cup {"none"}]
  /\ told \in [Thread -> Bodies \cup {"none"}]

(* post: two threads never use the handle of one type at a time, and the   *)
(* lock is taken only while one does: no way through post leaves it taken. *)
HandleExclusive ==
  /\ \A t, u \in Thread :
       pc[t] \in Holding /\ pc[u] \in Holding /\ kind[t] = kind[u] => t = u
  /\ \A k \in Type : spin[k] => \E t \in Thread : pc[t] \in Holding /\ kind[t] = k

(* post: a thread is told of success exactly if the server accepted its    *)
(* own packet with no more to say, and finds in its packet the last body   *)
(* that was meant for it, however the posts of other threads interleave.   *)
AnswerOwn ==
  \A t \in Thread :
    /\ pc[t] = "return" => (Posted(t) <=> answer[t] = "ok")
    /\ response[t] = told[t]
=============================================================================
