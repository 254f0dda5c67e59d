------------------------------- MODULE Startup -------------------------------
(***************************************************************************)
(* From the start of the process to plugins that gather, and over to the   *)
(* next start: main (agent.c) with the agent's own id (metadata.c), the    *)
(* target ids it finds in files under res/, and the plugins that register  *)
(* at the same time, through post (Sender).  What outlives the process is  *)
(* on disk or with the server; the process may be killed between any two   *)
(* steps.  An id is the product of three readings of the clock, in 64 bit: *)
(* it may come out as one that is in use, or as 0, which means no id.      *)
(***************************************************************************)
EXTENDS Sender, Integers, Sequences, FiniteSets

CONSTANTS
  Order,       (* the blocks of plugin.conf: a sequence of all plugins     *)
  Target,      (* what plugins observe: their type and, for mysql, address *)
  Hosts,       (* the targets that plugin.conf may give to the blocks, and *)
               (* whether there is a directory /res                        *)
  Clock,       (* what epoch_time may return: it moves on between any two  *)
               (* readings, and may be set                                 *)
  Modulus,     (* one more than the largest number (2^64)                  *)
  MaxStarts    (* bound on the starts of the process                       *)

Plugin == Thread

ASSUME StartupAssumption ==
  /\ Order \in Seq(Plugin) /\ \A p \in Plugin : \E i \in 1..Len(Order) : Order[i] = p
  /\ Hosts \subseteq [target : [Plugin -> Target], resdir : BOOLEAN]
  /\ "REGISTER" \in Type
  /\ Clock \subseteq Nat /\ Modulus \in Nat \ {0}
  /\ MaxStarts \in Nat

VARIABLES
  target,      (* the target of each plugin block in plugin.conf           *)
  on,          (* the blocks that are switched on                          *)
  valid,       (* does plugin.conf follow its grammar (sparse)?            *)
  resdir,      (* is there a directory /res?                               *)
  aidfile,     (* the id in .aid, None: no file or no number in it         *)
  files,       (* complete files under res/: the id, which is the name,    *)
               (* and the target                                           *)
  phase,       (* where main is, "down": there is no process               *)
  starts,      (* starts so far                                            *)
  aid,         (* aid                                                      *)
  loaded,      (* the plugins main knows of: plugins[0 .. pluginc-1]       *)
  tid,         (* p->tid, 0 while there is none                            *)
  oob,         (* plugins with a packet in p->oob                          *)
  gathering,   (* plugins that are registered and gather                   *)
  registered,  (* registrations the server has taken                       *)
  clash,       (* has a target id been made up that is in use, or 0?       *)
  disturbed    (* has something happened that can cost a plugin its id?    *)

disk     == <<target, on, valid, resdir, aidfile, files>>
memory   == <<aid, loaded, tid, oob, gathering>>
observed == <<registered, clash, disturbed>>
vars     == <<senderVars, disk, phase, starts, memory, observed>>

Word == 0..(Modulus - 1)
None == Modulus

Init ==
  /\ SenderInit
  /\ \E host \in Hosts : target = host.target /\ resdir = host.resdir
  /\ on = Plugin /\ valid = TRUE
  /\ aidfile = None /\ files = {}
  /\ phase = "down" /\ starts = 0
  /\ aid = 0 /\ loaded = {} /\ tid = [p \in Plugin |-> 0] /\ oob = {} /\ gathering = {}
  /\ registered = {} /\ clash = FALSE /\ disturbed = FALSE

-----------------------------------------------------------------------------
(* Outside the process. *)
(* plugin.conf is edited; main reads it once *)
Edit ==
  /\ phase = "down" /\ starts < MaxStarts
  /\ \/ valid' = TRUE /\ on' \in SUBSET Plugin
     \/ valid' = FALSE /\ on' = {}
  /\ UNCHANGED <<senderVars, target, resdir, aidfile, files, phase, starts, memory, observed>>

(* The process ends, here or wherever it is killed *)
Exit ==
  /\ SenderGone
  /\ phase' = "down"
  /\ aid' = 0 /\ loaded' = {} /\ tid' = [p \in Plugin |-> 0] /\ oob' = {} /\ gathering' = {}

(* The ids that are in memory only go with it *)
Unsaved == \E p \in loaded : tid[p] # 0 /\ p \notin gathering

Kill ==
  /\ phase # "down"
  /\ Exit
  /\ disturbed' = (disturbed \/ Unsaved)
  /\ UNCHANGED <<disk, starts, registered, clash>>

-----------------------------------------------------------------------------
(* meta_init up to get_aid; a failure before it ends the process *)
Launch ==
  /\ phase = "down" /\ starts < MaxStarts
  /\ phase' = "aid" /\ starts' = starts + 1
  /\ UNCHANGED <<senderVars, disk, memory, observed>>

(* Mutant: the product is not cut off. *)
IdWide == {a * b * c : a, b, c \in Clock}

(* epoch_time()*epoch_time()*epoch_time() *)
Id == {(a * b * c) % Modulus : a, b, c \in Clock}

(* Mutant: an id is made up at every start. *)
GetAidAnew ==
  /\ phase = "aid"
  /\ aid' \in Id /\ aidfile' = None /\ phase' = "aid_write"
  /\ UNCHANGED <<senderVars, target, on, valid, resdir, files, starts, loaded, tid, oob, gathering, registered, clash, disturbed>>

(* get_aid: the id in the file, or a new one, for which fopen first makes  *)
(* the file empty                                                          *)
GetAid ==
  /\ phase = "aid"
  /\ IF aidfile # None THEN aid' = aidfile /\ phase' = "license" /\ UNCHANGED aidfile
     ELSE aid' \in Id /\ aidfile' = None /\ phase' = "aid_write"
  /\ UNCHANGED <<senderVars, target, on, valid, resdir, files, starts, loaded, tid, oob, gathering, registered, clash, disturbed>>

WriteAid ==
  /\ phase = "aid_write"
  /\ aidfile' = aid /\ phase' = "license"
  /\ UNCHANGED <<senderVars, target, on, valid, resdir, files, starts, memory, observed>>

(* The file cannot be opened, get_license or get_pid fails *)
MetaFails ==
  /\ phase \in {"aid", "license"}
  /\ phase = "aid" => aidfile = None
  /\ Exit
  /\ UNCHANGED <<disk, starts, observed>>

(* Would this start forget the id of a target that has a file? *)
Forgets(ps) == \E f \in files : \A p \in ps : target[p] # f.target

(* sparse: no plugin at all ends the process, an error (-1) does not *)
Sparse ==
  /\ phase = "license"
  /\ IF valid /\ on = {} THEN Exit /\ UNCHANGED disturbed
     ELSE /\ loaded' = IF valid THEN on ELSE {}
          /\ phase' = "scan"
          /\ disturbed' = (disturbed \/ Forgets(loaded'))
          /\ UNCHANGED <<senderVars, aid, tid, oob, gathering>>
  /\ UNCHANGED <<disk, starts, registered, clash>>

-----------------------------------------------------------------------------
(* Mutant: the type alone is compared. *)
FitsType(f) == loaded

(* Plugins that fit the file: the type, and what p->cmp compares *)
Fits(f) == {p \in loaded : target[p] = f.target}

First(ps) == Order[CHOOSE i \in 1..Len(Order) : Order[i] \in ps /\ \A j \in 1..(i-1) : Order[j] \notin ps]

(* Mutant: the search goes on after a match. *)
RestoredAll(f) == [p \in Plugin |-> IF p \in Fits(f) THEN f.id ELSE tid[p]]

(* The first plugin that fits takes its id from the name of the file. *)
Restored(f) == IF Fits(f) = {} THEN tid ELSE [tid EXCEPT ![First(Fits(f))] = f.id]

(* Mutant: a file that fits no plugin is left alone. *)
ScanKeep(f) ==
  /\ phase = "scan" /\ resdir
  /\ f \in files
  /\ tid' = Restored(f)
  /\ files' = IF Fits(f) = {} THEN files ELSE files \ {f}
  /\ phase' = IF files' = {} \/ Fits(f) = {} THEN "run" ELSE phase
  /\ UNCHANGED <<senderVars, target, on, valid, resdir, aidfile, starts, aid, loaded, oob, gathering, observed>>

(* One file of readdir, in any order: it is removed, of use or not. *)
Scan(f) ==
  /\ phase = "scan" /\ resdir
  /\ f \in files
  /\ tid' = Restored(f)
  /\ files' = files \ {f}
  /\ UNCHANGED <<senderVars, target, on, valid, resdir, aidfile, phase, starts, aid, loaded, oob, gathering, observed>>

(* scheduler, storage and plugins are started *)
Scanned ==
  /\ phase = "scan" /\ (resdir => files = {})
  /\ phase' = "run"
  /\ UNCHANGED <<senderVars, disk, starts, memory, observed>>

-----------------------------------------------------------------------------
(* The ids of the other plugins and of the server, and 0 *)
InUse(p) == {0} \cup {tid[q] : q \in loaded \ {p}} \cup {x.id : x \in registered}

NewId(p) ==
  \E i \in Id :
    /\ tid' = [tid EXCEPT ![p] = i]
    /\ clash' = (clash \/ i \in InUse(p))

(* Mutant: a new id for every first attempt. *)
RegisterAnew(p) ==
  /\ phase = "run" /\ p \in loaded \ gathering
  /\ Post(p, "REGISTER", p \notin oob)
  /\ oob' = oob \cup {p}
  /\ IF p \notin oob THEN NewId(p) ELSE UNCHANGED <<tid, clash>>
  /\ UNCHANGED <<disk, phase, starts, aid, loaded, gathering, registered, disturbed>>

(* plugin_regr up to post *)
Register(p) ==
  /\ phase = "run" /\ p \in loaded \ gathering
  /\ Post(p, "REGISTER", p \notin oob)
  /\ oob' = oob \cup {p}
  /\ IF p \notin oob /\ tid[p] = 0 THEN NewId(p) ELSE UNCHANGED <<tid, clash>>
  /\ UNCHANGED <<disk, phase, starts, aid, loaded, gathering, registered, disturbed>>

(* The server gets the packet that the handle points to.  It takes the     *)
(* registration if it says so, and not with another status or because the  *)
(* id is taken; with any other body, or unheard, it may have done either.  *)
(* (Of the transfers that fail, only the ones with such a body have a good *)
(* status here; Sender has all of them.)                                   *)
Transmit(t) ==
  /\ LET p    == postfields[kind[t]]
         with == registered \cup {[aid |-> aid, id |-> tid[p], target |-> target[p]]}
     IN  \E reply \in Reply :
           /\ Perform(t, reply)
           /\ info'[kind[t]] => reply \in {"ok", "other"}
           /\ registered' \in CASE reply = "ok"                  -> {with}
                                [] reply \in {"error", "taken"} -> {registered}
                                [] OTHER                         -> {registered, with}
  /\ UNCHANGED <<disk, phase, starts, memory, clash, disturbed>>

(* Within post *)
Posting(t) ==
  /\ PostStep(t)
  /\ UNCHANGED <<disk, phase, starts, memory, observed>>

(* fopen(m_name, "w+"): a file of this name is overwritten *)
Written(p) == {f \in files : f.id # tid[p]} \cup {[id |-> tid[p], target |-> target[p]]}

(* plugin_regr after post returned 0: the target file is written, or the   *)
(* process ends with a signal as fwrite is given no file                   *)
Accepted(p) ==
  /\ Posted(p)
  /\ IF resdir
     THEN /\ Return(p, TRUE)
          /\ files' = Written(p)
          /\ gathering' = gathering \cup {p} /\ oob' = oob \ {p}
          /\ UNCHANGED <<phase, aid, loaded, tid, disturbed>>
     ELSE pc[p] = "return" /\ Exit /\ disturbed' = TRUE /\ UNCHANGED files
  /\ UNCHANGED <<target, on, valid, resdir, aidfile, starts, registered, clash>>

(* ... or failed: another id is made up if the server knows this one       *)
Refused(p) ==
  /\ ~Posted(p)
  /\ Return(p, FALSE)
  /\ IF response[p] = "taken" THEN NewId(p) /\ disturbed' = TRUE
     ELSE UNCHANGED <<tid, clash, disturbed>>
  /\ UNCHANGED <<disk, phase, starts, aid, loaded, oob, gathering, registered>>

-----------------------------------------------------------------------------
Next ==
  \/ Edit \/ Kill
  \/ Launch \/ GetAid \/ WriteAid \/ MetaFails \/ Sparse
  \/ (\E f \in files : Scan(f)) \/ Scanned
  \/ \E p \in Plugin :
       \/ Register(p) \/ Transmit(p) \/ Posting(p)
       \/ Accepted(p) \/ Refused(p)

Spec == Init /\ [][Next]_vars

-----------------------------------------------------------------------------
(* Ids are numbers of 64 bit, and a process that is down has nothing in    *)
(* memory.                                                                 *)
TypeOK ==
  /\ SenderTypeOK
  /\ target \in [Plugin -> Target] /\ on \subseteq Plugin
  /\ aidfile \in Word \cup {None} /\ aid \in Word
  /\ files \subseteq [id : Word, target : Target]
  /\ phase \in {"down", "aid", "aid_write", "license", "scan", "run"}
  /\ tid \in [Plugin -> Word]
  /\ gathering \subseteq loaded /\ oob \subseteq loaded
  /\ registered \subseteq [aid : Word, id : Word, target : Target]
  /\ phase = "down" => loaded = {} /\ \A p \in Plugin : pc[p] = "idle"

(* get_aid: all targets are registered under one agent id, whenever the    *)
(* process is killed, also while the file is being written.                *)
AidStable == \A x, y \in registered : x.aid = y.aid

(* main and plugin_regr: an id never names two different targets, over all *)
(* restarts and changes of plugin.conf, unless one that is in use was made *)
(* up again: nothing but the product of the readings keeps ids apart.      *)
IdNamesTarget == clash \/ \A x, y \in registered : x.id = y.id => x.target = y.target

(* main: two plugins of a process never go by the same id, not even if     *)
(* they observe the same target, unless it was made up for both.           *)
TidsDistinct ==
  clash \/ \A p, q \in loaded : tid[p] = tid[q] /\ tid[p] # 0 => p = q

(* main and plugin_regr: once it runs, every file is that of a plugin that *)
(* gathers, and every such plugin finds a file with its id, and with its   *)
(* target unless another one with the same id has overwritten it.  An id   *)
(* that no plugin took at the start is gone.                               *)
FilesOfGathering ==
  phase = "run" /\ resdir =>
    /\ \A f \in files : \E p \in gathering : f.id = tid[p] /\ f.target = target[p]
    /\ \A p \in gathering : \E f \in files : f.id = tid[p] /\ (clash \/ f.target = target[p])

(* main and plugin_regr: a target of one block keeps its id over restarts, *)
(* as long as every start finds the block in plugin.conf, no id that is in *)
(* use was made up again, and the process was not killed between taking    *)
(* the id off the disk and registering with it again.  (Of two blocks with *)
(* one target, one gets both files.)                                       *)
TargetKept ==
  disturbed \/ clash \/ \A p \in Plugin :
    (\A q \in Plugin : target[q] = target[p] => q = p) =>
      \A x, y \in registered : x.target = target[p] /\ y.target = target[p] => x.id = y.id
=============================================================================
