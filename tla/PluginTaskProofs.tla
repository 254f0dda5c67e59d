-------------------------- MODULE PluginTaskProofs --------------------------
(***************************************************************************)
(* The invariants of PluginTask for any number of target ids, any thread   *)
(* ids of the database, and any answers, crashes and restarts.             *)
(***************************************************************************)
EXTENDS PluginTask, TLAPS

(* mysql_gather and plugin_alert: m->on is on but between a down alert and *)
(* the up alert after it, and no record is written while an alert waits.   *)
Alerting ==
  /\ task \in {"prep", "regr", "up"} => on
  /\ task = "down" => ~on
  /\ task \in {"up", "down"} => ~flowing

(* mysql_gather: a connection that was lost has its old thread id only if  *)
(* the restarted database gave it out again.                               *)
NewConnection == ~on /\ db # 0 /\ db = conn => reused

(* plugin_regr: a plugin that is not registered is not known to the server *)
(* unless the agent failed to hear of it.                                  *)
Unknown == task \in {"prep", "regr"} /\ ~unheard => registered = {}

PInv ==
  /\ TypeOK /\ RegisteredTid /\ OneTarget /\ StatusAgrees /\ MetricsNotDown
  /\ Alerting /\ NewConnection /\ Unknown

-----------------------------------------------------------------------------
(* No id at all is in the range of the ids. *)
LEMMA ZeroId == 0 \in 0..MaxTid
  BY PluginAssumption

(* plugin_init at the first start of the process. *)
LEMMA PInvInit == Init => PInv
<1> SUFFICES ASSUME Init PROVE PInv
  OBVIOUS
<1>1. TypeOK
  BY ZeroId DEF Init, TypeOK
<1>2. RegisteredTid /\ OneTarget /\ StatusAgrees /\ MetricsNotDown
  BY DEF Init, RegisteredTid, OneTarget, StatusAgrees, MetricsNotDown
<1>3. Alerting /\ NewConnection /\ Unknown
  BY DEF Init, Alerting, NewConnection, Unknown
<1> QED
  BY <1>1, <1>2, <1>3 DEF PInv

(* plugin_regr: the id that is posted is one of the ids there are, and the *)
(* plugin's own if it has one.                                             *)
LEMMA FirstIdType ==
  ASSUME TypeOK, FirstId <= MaxTid
  PROVE  FirstId \in 1..MaxTid /\ (tid # 0 => FirstId = tid)
  BY PluginAssumption DEF TypeOK, FirstId

(* callback: what becomes of the response is a response. *)
LEMMA ResponseType ==
  ASSUME NEW reply \in Reply, NEW old \in {"none", "ETARGETREG", "other"}
  PROVE  ResponseTo(reply, old) \in {"none", "ETARGETREG", "other"}
  BY DEF Reply, ResponseTo

(* plugin_regr: whatever the server answers to a registration. *)
LEMMA RegisterStep ==
  ASSUME PInv, task \in {"prep", "regr"}, NEW reply \in Reply, Register(reply),
         on' = TRUE, conn' \in ConnId \cup {0}, UNCHANGED <<flowing, db, silent, reused>>
  PROVE  PInv'
<1> DEFINE t == FirstId
           answer == ResponseTo(reply, IF oob THEN response ELSE "none")
           made == IF t > issued THEN t ELSE issued
<1>1. /\ registered' = IF Accepted(reply) THEN registered \cup {t} ELSE registered
      /\ unheard' = (unheard \/ (Accepted(reply) /\ reply # "ok"))
      /\ issued' <= MaxTid
  BY DEF Register, Written
<1>2. t \in Nat \ {0} /\ made \in Nat /\ t <= made /\ (tid # 0 => t = tid)
  BY PluginAssumption DEF PInv, TypeOK, FirstId
<1>3. answer \in {"none", "ETARGETREG", "other"}
  BY ResponseType DEF PInv, TypeOK
<1>4. ~unheard => registered = {}
  BY DEF PInv, Unknown
<1>5. unheard' \in BOOLEAN
  BY <1>1 DEF PInv, TypeOK
<1>6. CASE reply = "ok"
  <2>1. Registered(t)
    BY <1>6 DEF Register
  <2>2. t \in 1..MaxTid
    BY <1>1, <1>2, <2>1, PluginAssumption DEF Registered, PInv, TypeOK
  <2>3. registered' = registered \cup {t} /\ unheard' = unheard
    <3>1. Accepted(reply)
      BY <1>6 DEF Accepted
    <3>2. unheard \in BOOLEAN
      BY DEF PInv, TypeOK
    <3> QED
      BY <1>1, <1>6, <3>1, <3>2, Zenon
  <2>4. TypeOK'
    <3>1. issued' \in 0..MaxTid /\ tid' \in 0..MaxTid
      BY <2>1, <2>2 DEF Registered, PInv, TypeOK
    <3>2. files' \subseteq 1..MaxTid /\ registered' \subseteq 1..MaxTid
      BY <2>1, <2>2, <2>3 DEF Registered, PInv, TypeOK
    <3> QED
      BY <1>5, <2>1, <3>1, <3>2, ZeroId DEF Registered, PInv, TypeOK
  <2>5. RegisteredTid' /\ OneTarget'
    BY <1>4, <2>1, <2>3 DEF Registered, RegisteredTid, OneTarget
  <2>6. StatusAgrees' /\ MetricsNotDown' /\ Alerting' /\ NewConnection' /\ Unknown'
    BY <2>1 DEF Registered, StatusAgrees, MetricsNotDown, Alerting, NewConnection, Unknown
  <2> QED
    BY <2>4, <2>5, <2>6 DEF PInv
<1>7. CASE reply # "ok"
  <2>1. NotRegistered(t, answer)
    BY <1>7 DEF Register
  <2>2. task' = "regr" /\ oob' = TRUE /\ posted' = t /\ response' = answer /\ UNCHANGED <<files, reported>>
    BY <2>1 DEF NotRegistered, Written
  <2>3. /\ tid' = IF answer = "ETARGETREG" THEN made + 1 ELSE t
        /\ issued' = IF answer = "ETARGETREG" THEN made + 1 ELSE made
    BY <2>1 DEF NotRegistered
  <2>4. t \in 1..MaxTid /\ tid' \in 0..MaxTid /\ issued' \in 0..MaxTid
    BY <1>1, <1>2, <2>3, PluginAssumption
  <2>5. registered' \subseteq 1..MaxTid
    BY <1>1, <2>4 DEF PInv, TypeOK
  <2>6. TypeOK'
    BY <1>3, <1>5, <2>2, <2>4, <2>5 DEF PInv, TypeOK
  <2>7. ~unheard' => registered' = {}
    BY <1>1, <1>4, <1>7, Zenon
  <2>8. RegisteredTid' /\ OneTarget' /\ StatusAgrees' /\ Unknown'
    BY <2>2, <2>7 DEF RegisteredTid, OneTarget, StatusAgrees, Unknown
  <2>9. MetricsNotDown' /\ Alerting' /\ NewConnection'
    BY <2>2 DEF PInv, MetricsNotDown, Alerting, NewConnection
  <2> QED
    BY <2>6, <2>8, <2>9 DEF PInv
<1> QED
  BY <1>6, <1>7

(* plugin_gather and plugin_alert: the task, m->on and what the server     *)
(* knows of the database change, the ids do not.                           *)
LEMMA SameIds ==
  ASSUME PInv, task \in {"gather", "up", "down"}, task' \in {"gather", "up", "down"},
         UNCHANGED <<tid, files, registered, unheard>>
  PROVE  RegisteredTid' /\ OneTarget' /\ Unknown'
  BY DEF PInv, RegisteredTid, OneTarget, Unknown

(* plugin_gather with mysql_gather, to its end or cut short. *)
LEMMA GatherStep ==
  ASSUME PInv, GatherDown \/ GatherNoData \/ GatherUp \/ GatherMetrics \/ GatherCut
  PROVE  PInv'
<1> USE DEF GatherDown, GatherNoData, GatherUp, GatherMetrics, GatherCut, target, server
<1>1. TypeOK'
  BY DEF PInv, TypeOK
<1>2. RegisteredTid' /\ OneTarget' /\ Unknown'
  BY SameIds
<1>3. StatusAgrees' /\ Alerting' /\ NewConnection'
  BY DEF PInv, TypeOK, StatusAgrees, Alerting, NewConnection
<1>4. MetricsNotDown'
  BY DEF PInv, TypeOK, StatusAgrees, NewConnection, MetricsNotDown
<1> QED
  BY <1>1, <1>2, <1>3, <1>4 DEF PInv

(* plugin_alert. *)
LEMMA AlertStep ==
  ASSUME PInv, NEW reply \in Reply, Alert(reply)
  PROVE  PInv'
<1>1. /\ task \in {"up", "down"} /\ task' \in {"gather", "up", "down"}
      /\ reply # "ok" => task' = task
      /\ reply = "ok" => task' = "gather" /\ reported' = task
      /\ reported' \in {task, reported}
      /\ oob' = (reply # "ok")
      /\ UNCHANGED <<tid, posted, response, on, conn, flowing, files, issued, db, silent, reused, registered, unheard>>
  BY DEF Alert, Accepted, target
<1>2. TypeOK'
  BY <1>1 DEF PInv, TypeOK
<1>3. RegisteredTid' /\ OneTarget' /\ Unknown'
  BY <1>1, SameIds
<1>4. StatusAgrees' /\ Alerting' /\ NewConnection' /\ MetricsNotDown'
  BY <1>1 DEF PInv, TypeOK, StatusAgrees, Alerting, NewConnection, MetricsNotDown
<1> QED
  BY <1>2, <1>3, <1>4 DEF PInv

(* The database goes down, or comes up under an old or a new thread id, or *)
(* its host stops to answer or answers again.                              *)
LEMMA DbStep ==
  ASSUME PInv, DbDown \/ DbUp \/ Silence
  PROVE  PInv'
<1> USE DEF DbDown, DbUp, Silence, memory, server
<1>1. TypeOK'
  <2>1. db' \in ConnId \cup {0} /\ silent' \in BOOLEAN /\ reused' \in BOOLEAN
    BY Zenon DEF PInv, TypeOK
  <2>2. UNCHANGED <<memory, files, issued, server>>
    BY Zenon
  <2> QED
    BY <2>1, <2>2 DEF PInv, TypeOK
<1>2. RegisteredTid' /\ OneTarget' /\ Unknown' /\ StatusAgrees' /\ Alerting'
  BY DEF PInv, RegisteredTid, OneTarget, Unknown, StatusAgrees, Alerting
<1>3. MetricsNotDown' /\ NewConnection'
  <2>1. reused => reused'
    BY Zenon
  <2>2. MetricsNotDown'
    BY <2>1, Zenon DEF PInv, MetricsNotDown
  <2>3. CASE DbDown
    BY <2>2, <2>3 DEF NewConnection
  <2>4. CASE DbUp
    BY <2>2, <2>4, Zenon DEF NewConnection
  <2>5. CASE Silence
    BY <2>2, <2>5, Zenon DEF PInv, NewConnection
  <2> QED
    BY <2>3, <2>4, <2>5
<1> QED
  BY <1>1, <1>2, <1>3 DEF PInv

(* plugin_init after the process was killed, with the id of a file or with *)
(* none.                                                                   *)
LEMMA VolatileStep ==
  ASSUME PInv, NEW t \in 0..MaxTid, Volatile(t), files' = {},
         issued' \in 0..MaxTid, registered' \subseteq 1..MaxTid, UNCHANGED <<db, silent, reused, reported>>
  PROVE  PInv'
<1>1. TypeOK'
  BY ZeroId DEF Volatile, PInv, TypeOK
<1>2. RegisteredTid' /\ OneTarget' /\ StatusAgrees' /\ MetricsNotDown'
  BY DEF Volatile, RegisteredTid, OneTarget, StatusAgrees, MetricsNotDown
<1>3. Alerting' /\ NewConnection' /\ Unknown'
  BY DEF Volatile, Alerting, NewConnection, Unknown
<1> QED
  BY <1>1, <1>2, <1>3 DEF PInv

(* No run of the task, no step of the database and no restart breaks it. *)
LEMMA PInvNext == PInv /\ [Next]_vars => PInv'
<1> SUFFICES ASSUME PInv, [Next]_vars PROVE PInv'
  OBVIOUS
<1>1. ASSUME NEW reply \in Reply, Prep(reply) PROVE PInv'
  BY <1>1, RegisterStep DEF Prep, PInv, TypeOK, target
<1>2. ASSUME NEW reply \in Reply, Regr(reply) PROVE PInv'
  BY <1>2, RegisterStep DEF Regr, PInv, TypeOK, Alerting, target
<1>3. ASSUME NEW reply \in Reply, Alert(reply) PROVE PInv'
  BY <1>3, AlertStep
<1>4. CASE GatherDown \/ GatherNoData \/ GatherUp \/ GatherMetrics \/ GatherCut
  BY <1>4, GatherStep
<1>5. CASE DbDown \/ DbUp \/ Silence
  BY <1>5, DbStep
<1>6. CASE Restart
  <2>1. PICK t \in 0..MaxTid : Volatile(t)
    BY <1>6, PluginAssumption DEF Restart, PInv, TypeOK
  <2> QED
    BY <1>6, <2>1, VolatileStep DEF Restart, PInv, TypeOK, target
<1>7. CASE RegrKilled
  <2>1. FirstId \in 1..MaxTid
    BY <1>7, FirstIdType DEF RegrKilled, PInv
  <2>2. issued' \in 0..MaxTid /\ registered' \subseteq 1..MaxTid
    BY <1>7, <2>1 DEF RegrKilled, Written, PInv, TypeOK
  <2> QED
    BY <1>7, <2>2, ZeroId, VolatileStep DEF RegrKilled, target
<1>8. CASE UNCHANGED vars
  BY <1>8 DEF vars, memory, target, server, PInv, TypeOK, RegisteredTid, OneTarget, StatusAgrees,
              MetricsNotDown, Alerting, NewConnection, Unknown
<1> QED
  BY <1>1, <1>2, <1>3, <1>4, <1>5, <1>6, <1>7, <1>8 DEF Next

(* Hence it holds over all restarts. *)
LEMMA PInvAlways == Spec => []PInv
  BY PInvInit, PInvNext, PTL DEF Spec

-----------------------------------------------------------------------------
(* plugin_regr, plugin_gather and plugin_alert keep their types; no id 0   *)
(* gets into a file or to the server.                                      *)
THEOREM PluginTypeCorrect == Spec => []TypeOK
  BY PInvAlways, PTL DEF PInv

(* plugin_regr: a plugin gathers under an id that the server has taken and *)
(* that is on disk.                                                        *)
THEOREM RegisteredTidAlways == Spec => []RegisteredTid
  BY PInvAlways, PTL DEF PInv

(* plugin_regr: the plugin is one target as long as the agent hears of     *)
(* every registration that the server takes.                               *)
THEOREM OneTargetAlways == Spec => []OneTarget
  BY PInvAlways, PTL DEF PInv

(* plugin_alert and mysql_gather: while gathering, m->on is off exactly if *)
(* the last alert was a down alert.                                        *)
THEOREM StatusAgreesAlways == Spec => []StatusAgrees
  BY PInvAlways, PTL DEF PInv

(* mysql_gather: metrics flow after a down alert without an up alert only  *)
(* if the database gave the old thread id out again.                       *)
THEOREM MetricsNotDownAlways == Spec => []MetricsNotDown
  BY PInvAlways, PTL DEF PInv
=============================================================================
