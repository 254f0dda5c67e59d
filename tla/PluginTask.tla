----------------------------- MODULE PluginTask -----------------------------
(***************************************************************************)
(* The life of one plugin, as a sequence of runs of its task: preparation, *)
(* registration under a target id (plugin_regr), gathering and the up and  *)
(* down alerts (plugin.c), for the MySQL module, whose gather callback     *)
(* raises the alerts (mysql.c).  The target id outlives the process in a   *)
(* file under res/, which main reads and removes at the next start         *)
(* (agent.c).  One action is one run of the task, a gather that the        *)
(* scheduler cuts short, a step of the observed database, or the end of    *)
(* the process and its next start.  Ids are names here; that two may come  *)
(* out the same, or one as 0, is in Startup.                               *)
(***************************************************************************)
EXTENDS Naturals, FiniteSets

CONSTANTS
  MaxTid,      (* bound on the target ids that are made up                 *)
  ConnId       (* thread ids the database gives to connections             *)

ASSUME PluginAssumption ==
  /\ MaxTid \in Nat \ {0}
  /\ ConnId \subseteq Nat \ {0} /\ ConnId # {}

VARIABLES
  task,        (* p->task                                                  *)
  tid,         (* p->tid, 0 while there is none                            *)
  oob,         (* p->oob is set                                            *)
  posted,      (* the target id written in p->oob->payload                 *)
  response,    (* p->oob->response                                         *)
  on,          (* m->on                                                    *)
  conn,        (* m->tid: thread id of the connection when last looked at  *)
  flowing,     (* the last run of plugin_gather wrote a record             *)
  files,       (* target ids with a complete file under res/; main skips   *)
               (* one that is not                                          *)
  issued,      (* target ids made up so far                                *)
  db,          (* thread id of a connection to the database, 0: it is down *)
  silent,      (* its host does not even refuse a connection, and calls of *)
               (* the client library do not return                         *)
  reused,      (* a restarted database gave the plugin its old thread id   *)
  registered,  (* target ids the server has taken                          *)
  reported,    (* last alert the server got since the plugin registered    *)
  unheard      (* the server took a post and the agent did not learn of    *)
               (* it, or forgot it as the process ended                    *)

memory == <<task, tid, oob, posted, response, on, conn, flowing>>
server == <<registered, reported, unheard>>
target == <<db, silent, reused>>
vars   == <<memory, files, issued, target, server>>

(* How a post ends: "ok" is status 200 or 202 and no body; any body makes  *)
(* callback return 0 and the transfer fail, after it has set response.     *)
Reply == {"ok", "lost", "chatty", "down", "taken", "refused"}

Accepted(reply) == reply \in {"ok", "lost", "chatty"}

(* callback: without a body response keeps its value *)
ResponseTo(reply, old) ==
  CASE reply = "taken" -> "ETARGETREG"
    [] reply \in {"chatty", "refused"} -> "other"
    [] OTHER -> old

Init ==
  /\ task = "prep" /\ tid = 0 /\ oob = FALSE /\ posted = 0 /\ response = "none"
  /\ on = TRUE /\ conn = 0 /\ flowing = FALSE
  /\ files = {}
  /\ issued = 0
  /\ db \in ConnId /\ silent = FALSE /\ reused = FALSE
  /\ registered = {} /\ reported = "none" /\ unheard = FALSE

-----------------------------------------------------------------------------
(* plugin_regr                                                             *)

FirstId == IF tid = 0 THEN issued + 1 ELSE tid

(* Mutant: the packet of an earlier attempt is posted as it is. *)
WrittenOnce == IF oob THEN posted ELSE FirstId

(* The id in the packet: written as it is made, and again before a retry. *)
Written == FirstId

(* Mutant: the file is named before the id is made up. *)
RegisteredEarly(t) ==
  /\ files' = files \cup {tid}
  /\ task' = "gather" /\ tid' = t /\ oob' = FALSE /\ posted' = 0 /\ response' = "none"
  /\ issued' = IF t > issued THEN t ELSE issued
  /\ reported' = "none"

(* Mutant: no file is written. *)
RegisteredNoFile(t) ==
  /\ task' = "gather" /\ tid' = t /\ oob' = FALSE /\ posted' = 0 /\ response' = "none"
  /\ issued' = IF t > issued THEN t ELSE issued
  /\ reported' = "none"
  /\ UNCHANGED files

(* The post succeeded: the file is written, the plugin starts to gather. *)
Registered(t) ==
  /\ files' = files \cup {t}
  /\ task' = "gather" /\ tid' = t /\ oob' = FALSE /\ posted' = 0 /\ response' = "none"
  /\ issued' = IF t > issued THEN t ELSE issued
  /\ reported' = "none"

(* It failed: the packet is kept; a new id only after ETARGETREG. *)
NotRegistered(t, answer) ==
  LET made == IF t > issued THEN t ELSE issued
  IN
  /\ task' = "regr" /\ oob' = TRUE /\ posted' = Written /\ response' = answer
  /\ tid' = IF answer = "ETARGETREG" THEN made + 1 ELSE t
  /\ issued' = IF answer = "ETARGETREG" THEN made + 1 ELSE made
  /\ UNCHANGED <<files, reported>>

Register(reply) ==
  /\ registered' = IF Accepted(reply) THEN registered \cup {Written} ELSE registered
  /\ unheard' = (unheard \/ (Accepted(reply) /\ reply # "ok"))
  /\ IF reply = "ok" THEN Registered(FirstId)
     ELSE NotRegistered(FirstId, ResponseTo(reply, IF oob THEN response ELSE "none"))
  /\ issued' <= MaxTid

(* Mutant: a registration that failed is not tried again. *)
RegrOnce(reply) ==
  /\ task = "regr" /\ ~oob
  /\ Register(reply)
  /\ UNCHANGED <<on, conn, flowing, target>>

Regr(reply) ==
  /\ task = "regr"
  /\ Register(reply)
  /\ UNCHANGED <<on, conn, flowing, target>>

(* plugin_prep: mysql_prep connects, or it is tried again next time *)
Prep(reply) ==
  /\ task = "prep" /\ db # 0 /\ ~silent
  /\ on' = TRUE /\ conn' = db
  /\ Register(reply)
  /\ UNCHANGED <<flowing, target>>

-----------------------------------------------------------------------------
(* Mutant: the loss of the database only yields no data. *)
GatherDownQuiet ==
  /\ task = "gather" /\ ~silent /\ db = 0 /\ on
  /\ flowing' = FALSE
  /\ UNCHANGED <<task, tid, oob, posted, response, on, conn, files, issued, target, server>>

(* plugin_gather with mysql_gather: EPLUGDOWN, ENODATA, EPLUGUP or ENONE,  *)
(* of which mysql_ping decides                                             *)
GatherDown ==
  /\ task = "gather" /\ ~silent /\ db = 0 /\ on
  /\ on' = FALSE /\ task' = "down" /\ flowing' = FALSE
  /\ UNCHANGED <<tid, oob, posted, response, conn, files, issued, target, server>>

GatherNoData ==
  /\ task = "gather" /\ ~silent /\ db = 0 /\ ~on
  /\ flowing' = FALSE
  /\ UNCHANGED <<task, tid, oob, posted, response, on, conn, files, issued, target, server>>

(* Mutant: m->on is not set. *)
GatherUpOff ==
  /\ task = "gather" /\ ~silent /\ db \notin {0, conn}
  /\ conn' = db /\ task' = "up" /\ flowing' = FALSE
  /\ UNCHANGED <<tid, oob, posted, response, on, files, issued, target, server>>

(* Mutant: only the id of the new connection is taken note of. *)
GatherUpQuiet ==
  /\ task = "gather" /\ ~silent /\ db \notin {0, conn}
  /\ conn' = db /\ flowing' = FALSE
  /\ UNCHANGED <<task, tid, oob, posted, response, on, files, issued, target, server>>

GatherUp ==
  /\ task = "gather" /\ ~silent /\ db \notin {0, conn}
  /\ conn' = db /\ on' = TRUE /\ task' = "up" /\ flowing' = FALSE
  /\ UNCHANGED <<tid, oob, posted, response, files, issued, target, server>>

GatherMetrics ==
  /\ task = "gather" /\ ~silent /\ db # 0 /\ db = conn
  /\ flowing' = TRUE
  /\ UNCHANGED <<task, tid, oob, posted, response, on, conn, files, issued, target, server>>

(* scheduler_main: a gather that does not answer the next ping is cut      *)
(* short, whatever it waits for; it begins anew                            *)
GatherCut ==
  /\ task = "gather"
  /\ flowing' = FALSE
  /\ UNCHANGED <<task, tid, oob, posted, response, on, conn, files, issued, target, server>>

(* plugin_alert: the packet is kept until it has been posted; what it gets *)
(* as a response is not looked at                                          *)
Alert(reply) ==
  /\ task \in {"up", "down"}
  /\ reported' = IF Accepted(reply) THEN task ELSE reported
  /\ oob' = (reply # "ok")
  /\ task' = IF reply = "ok" THEN "gather" ELSE task
  /\ UNCHANGED <<tid, posted, response, on, conn, flowing, files, issued, target, registered, unheard>>

-----------------------------------------------------------------------------
(* The database goes down and comes back (external). *)
DbDown ==
  /\ db # 0
  /\ db' = 0
  /\ UNCHANGED <<silent, reused, memory, files, issued, server>>

DbUp ==
  /\ db = 0
  /\ db' \in ConnId
  /\ reused' = (reused \/ db' = conn)
  /\ UNCHANGED <<silent, memory, files, issued, server>>

(* Its host stops to answer, or answers again (external). *)
Silence ==
  /\ silent' = ~silent
  /\ UNCHANGED <<db, reused, memory, files, issued, server>>

(* plugin_init in a new process *)
Volatile(t) ==
  /\ tid' = t
  /\ task' = "prep" /\ oob' = FALSE /\ posted' = 0 /\ response' = "none"
  /\ on' = TRUE /\ conn' = 0 /\ flowing' = FALSE
  /\ unheard' = TRUE

(* The process is killed and started again: main takes the id from the     *)
(* name of a file that fits the plugin and removes every file it could     *)
(* read.                                                                   *)
Restart ==
  /\ IF files = {} THEN Volatile(0) ELSE \E t \in files : Volatile(t)
  /\ files' = {}
  /\ UNCHANGED <<issued, target, registered, reported>>

(* The process is killed after the server took the registration, before    *)
(* the file is complete.                                                   *)
RegrKilled ==
  /\ task = "regr" \/ (task = "prep" /\ db # 0 /\ ~silent)
  /\ FirstId <= MaxTid
  /\ registered' = registered \cup {Written}
  /\ issued' = IF FirstId > issued THEN FirstId ELSE issued
  /\ Volatile(0) /\ files' = {}
  /\ UNCHANGED <<target, reported>>

-----------------------------------------------------------------------------
Next ==
  \/ \E reply \in Reply : Prep(reply) \/ Regr(reply) \/ Alert(reply)
  \/ GatherDown \/ GatherNoData \/ GatherUp \/ GatherMetrics \/ GatherCut
  \/ DbDown \/ DbUp \/ Silence
  \/ Restart \/ RegrKilled

Spec == Init /\ [][Next]_vars

(* The scheduler pings the plugin again and again, and a post that is      *)
(* tried again and again succeeds in the end.  A host that refuses the     *)
(* connection does so within the half second to the next ping, so that not *)
(* every gather is cut short; one that is silent is not assumed to answer. *)
Fairness ==
  /\ WF_vars(GatherDown)
  /\ SF_vars(Regr("ok")) /\ SF_vars(Alert("ok"))

FairSpec == Spec /\ Fairness

-----------------------------------------------------------------------------
(* p->task is one of the tasks of plugin.c, and no id 0 (none) gets into a  *)
(* file under res/ or to the server.                                       *)
TypeOK ==
  /\ task \in {"prep", "regr", "gather", "up", "down"}
  /\ tid \in 0..MaxTid /\ posted \in 0..MaxTid /\ issued \in 0..MaxTid
  /\ oob \in BOOLEAN /\ on \in BOOLEAN /\ flowing \in BOOLEAN /\ unheard \in BOOLEAN
  /\ silent \in BOOLEAN /\ reused \in BOOLEAN
  /\ response \in {"none", "ETARGETREG", "other"}
  /\ conn \in ConnId \cup {0} /\ db \in ConnId \cup {0}
  /\ files \subseteq 1..MaxTid /\ registered \subseteq 1..MaxTid
  /\ reported \in {"none", "up", "down"}

(* plugin_regr: a plugin gathers under an id that the server has taken and *)
(* that is on disk for the next start.                                     *)
RegisteredTid ==
  task \in {"gather", "up", "down"} => tid \in registered /\ tid \in files

(* plugin_regr: as long as the agent hears of every registration the       *)
(* server takes, and is not restarted, the plugin is one target only.      *)
OneTarget == ~unheard => registered \subseteq {tid}

(* plugin_alert and mysql_gather: while gathering, m->on is off exactly if *)
(* the last alert was a down alert.                                        *)
StatusAgrees == task = "gather" => (~on <=> reported = "down")

(* mysql_gather: metrics flow after a down alert without an up alert only  *)
(* if the restarted server gave the new connection the old thread id,      *)
(* which is how mysql_gather tells a new connection.                       *)
MetricsNotDown == flowing /\ reported = "down" => reused

(* mysql_gather and plugin_alert: the server is told of a database that    *)
(* goes down and stays down, on a host that answers.  (Of one whose host   *)
(* is silent it is not told: mysql_ping waits, for the default of the      *)
(* library, and the scheduler cuts every gather short before.)             *)
DownReported ==
  task = "gather" /\ db = 0 ~> (reported = "down" \/ db # 0 \/ silent \/ task = "prep")

(* plugin_regr: a plugin that failed to register is registered in the end, *)
(* whatever answers it got before, or the process starts anew.             *)
Registers == task = "regr" ~> task \in {"gather", "prep"}
=============================================================================
