------------------------------- MODULE Payload -------------------------------
(***************************************************************************)
(* What plugin_gather writes to a metric packet, as a sequence of JSON     *)
(* tokens.  "f" stands for one or more members "key":value of an object,   *)
(* with the commas between them, that the code writes without a condition  *)
(* in between: a value is a number, a string or an array of these.  "k" is *)
(* a key with its colon, "x" members with a string cut short, and the rest *)
(* is punctuation.  The inputs are which commands and queries fail and     *)
(* which yield no row.                                                     *)
(***************************************************************************)
EXTENDS Integers, Sequences, FiniteSets

CONSTANTS
  Modules,     (* the modules of the plugins, among "os" and "mysql"       *)
  Partial,     (* may some status queries of a gather fail and others not? *)
  Garbage,     (* what members with uninitialised strings are: "f", or "x" *)
               (* when the bytes end the string early                      *)
  MaxGathers   (* bound on the runs of plugin_gather for one packet        *)

ASSUME PayloadAssumption ==
  /\ Modules \subseteq {"os", "mysql"}
  /\ Partial \in BOOLEAN
  /\ Garbage \subseteq {"f", "x"}
  /\ MaxGathers \in Nat

VARIABLES
  module,      (* module of the plugin that has the packet                 *)
  payload,     (* pkt->payload up to pkt->size                             *)
  rollback,    (* pkt->payload up to pkt->rollback_point                   *)
  state,       (* pkt->state                                               *)
  section,     (* the section that is read next, NoSection outside of      *)
               (* p->gather                                                *)
  err,         (* the & of the errors of the sections so far               *)
  gathers,     (* runs of plugin_gather since the packet was taken         *)
  killed       (* was one of them cut short?                               *)

gather == <<rollback, section, err>>
vars   == <<module, payload, gather, state, gathers, killed>>

NoSection == 0
Sections  == 5

ENONE   == 0
ENODATA == 1

Sep(needed) == IF needed THEN <<",">> ELSE <<>>
When(cond, tokens) == IF cond THEN tokens ELSE <<>>

(* pkt->payload[pkt->size - 1] *)
LastChar(tokens) == tokens[Len(tokens)]

(* What a gathering function returns and what it appends *)
Gathered(ok, out) == [err |-> IF ok THEN ENONE ELSE ENODATA, out |-> out]
NoData == Gathered(FALSE, <<>>)

-----------------------------------------------------------------------------
(* os.c.  A command fails to start ("nopipe"), yields nothing that the     *)
(* scan accepts ("none"), or "some" rows.                                  *)

Reads == {"nopipe", "none", "some"}

os_cpu(read) == Gathered(read # "nopipe", When(read = "some", <<"f">>))

os_disk(read) == Gathered(read = "some", When(read = "some", <<"f">>))

(* Mutant: every list starts with a comma. *)
ProcListComma(sofar, read) ==
  IF read # "some" THEN sofar
  ELSE Gathered(TRUE, sofar.out \o <<",", "k", "{", "f", "}">>)

(* One of the three lists, after what the section holds so far: a comma    *)
(* unless the last character is the brace that opens "proc".               *)
ProcList(sofar, read) ==
  IF read # "some" THEN sofar
  ELSE Gathered(TRUE, sofar.out \o Sep(LastChar(<<"{">> \o sofar.out) # "{")
                                 \o <<"k", "{", "f", "}">>)

(* cpu_top10, mem_top10 and list, up to the first popen that fails *)
os_proc(cpu, mem, list) ==
  LET top  == ProcList(NoData, cpu)
      both == ProcList(top, mem)
  IN  CASE cpu = "nopipe" -> NoData
        [] cpu # "nopipe" /\ mem = "nopipe" -> top
        [] OTHER -> ProcList(both, list)

os_memory(read) == Gathered(read = "some", When(read = "some", <<"f">>))

os_network(read) == Gathered(read = "some", When(read = "some", <<"f">>))

(* What the i-th section of os_gather may read *)
os_section(i) ==
  CASE i = 1 -> {os_cpu(r) : r \in Reads}
    [] i = 2 -> {os_disk(r) : r \in Reads}
    [] i = 3 -> {os_proc(c, m, l) : c \in Reads, m \in Reads, l \in Reads}
    [] i = 4 -> {os_memory(r) : r \in Reads}
    [] i = 5 -> {os_network(r) : r \in Reads}

-----------------------------------------------------------------------------
(* mysql.c.  A status query fails or yields its rows; a listing yields     *)
(* rows or not, a failing one counting as none.  The listings print        *)
(* element k, one past the rows read, so their strings are uninitialised:  *)
(* g is what these bytes make of the members.                              *)

mysql_crud(q1, q2) ==
  Gathered(q1 \/ q2, When(q1, <<"f">>) \o When(q2, Sep(q1) \o <<"f">>))

mysql_query(q1, rows, g) ==
  Gathered(q1, When(q1, <<"f">>) \o When(rows, <<",", g>>))

mysql_innodb(q1, q2, ibuf) ==
  Gathered(q1 \/ q2 \/ ibuf,
           When(q1, <<"f">>) \o When(q2, <<",", "f">>) \o When(ibuf, <<",", "f">>))

mysql_thread(q1, rows, g) ==
  Gathered(q1, When(q1, <<"f">>) \o When(rows, Sep(q1) \o <<g>>))

mysql_replica == NoData

(* Which of the status queries of a gather succeed. *)
Status == IF Partial THEN BOOLEAN ELSE {TRUE}

(* What the i-th section of mysql_gather may read *)
mysql_section(i) ==
  CASE i = 1 -> {mysql_crud(q, r) : q \in Status, r \in Status}
    [] i = 2 -> {mysql_query(q, rows, g) : q \in Status, rows \in BOOLEAN, g \in Garbage}
    [] i = 3 -> {mysql_innodb(q, r, ibuf) : q \in Status, r \in Status, ibuf \in BOOLEAN}
    [] i = 4 -> {mysql_thread(q, rows, g) : q \in Status, rows \in BOOLEAN, g \in Garbage}
    [] i = 5 -> {mysql_replica}

Readings == IF module = "os" THEN os_section(section) ELSE mysql_section(section)

-----------------------------------------------------------------------------
(* packet_gather: the key and the brace of a section, after a comma unless *)
(* it is the first                                                         *)
Opened(pl) == pl \o Sep(LastChar(pl) = "}") \o <<"k", "{">>

Header == <<"{", "f", ",", "k", "[">>

Begun == IF state = "EMPTY" THEN Header ELSE payload

(* The record up to "values": the comma only after a finished record *)
RecordHead == Begun \o Sep(state = "WROTE") \o <<"{", "f", ",">>

Init ==
  /\ module \in Modules
  /\ payload = <<>> /\ state = "EMPTY" /\ gathers = 0 /\ killed = FALSE
  /\ rollback = <<>> /\ section = NoSection /\ err = ENODATA

(* plugin_gather, up to the call of p->gather *)
Begin ==
  /\ state \in {"EMPTY", "BEGIN", "WROTE"} /\ section = NoSection
  /\ gathers < MaxGathers
  /\ gathers' = gathers + 1
  /\ state' = IF state = "EMPTY" THEN "BEGIN" ELSE state
  /\ rollback' = Begun
  /\ payload' = Opened(RecordHead)
  /\ section' = 1 /\ err' = ENODATA
  /\ UNCHANGED <<module, killed>>

(* mysql_gather: the ping reports the server down, or up again *)
NoPing ==
  /\ module = "mysql" /\ section = 1
  /\ section' = Sections + 1
  /\ UNCHANGED <<module, payload, rollback, state, err, gathers, killed>>

(* packet_gather of one section: what a function that returns an error     *)
(* wrote is taken back                                                     *)
Read ==
  /\ section \in 1..Sections
  /\ section' = section + 1
  /\ \E sub \in Readings :
       IF sub.err = ENONE
       THEN err' = ENONE /\ payload' = Opened(payload) \o sub.out \o <<"}">>
       ELSE UNCHANGED <<err, payload>>
  /\ UNCHANGED <<module, rollback, state, gathers, killed>>

(* The payload after the switch of plugin_gather *)
Written == IF err = ENONE THEN payload \o <<"}", "}">> ELSE rollback

(* Mutant: the packet counts as written whatever was gathered. *)
StateWrittenAlways == "WROTE"

StateWritten == IF err = ENONE THEN "WROTE" ELSE state

(* plugin_gather, from the return of p->gather; afterwards the packet has  *)
(* expired or not                                                          *)
End(expired) ==
  /\ section = Sections + 1
  /\ section' = NoSection
  /\ state' = IF ~expired THEN StateWritten ELSE IF StateWritten = "WROTE" THEN "READY" ELSE "DONE"
  /\ payload' = Written \o When(expired /\ StateWritten = "WROTE", <<"]", "}">>)
  /\ UNCHANGED <<module, rollback, err, gathers, killed>>

(* scheduler_main restarts the plugin while its thread waits for a command *)
(* or a query of the section, or for the ping before the first: the thread *)
(* is cancelled there, nothing is taken back, and the new thread goes on   *)
(* with the same packet.  What the section has written within its braces   *)
(* is left out: the packet is no JSON with or without it.                  *)
Killed ==
  /\ section \in 1..Sections
  /\ section' = NoSection
  /\ \/ payload' = Opened(payload)
     \/ module = "mysql" /\ section = 1 /\ payload' = payload
  /\ killed' = TRUE
  /\ UNCHANGED <<module, rollback, state, err, gathers>>

(* get_packet reuses a packet that was sent or dropped, perhaps for another *)
(* plugin                                                                   *)
Recycle ==
  /\ state \in {"READY", "DONE"}
  /\ module' \in Modules
  /\ payload' = <<>> /\ state' = "EMPTY" /\ gathers' = 0 /\ killed' = FALSE
  /\ UNCHANGED gather

Next ==
  \/ Begin \/ NoPing \/ Read \/ Killed \/ Recycle
  \/ \E expired \in BOOLEAN : End(expired)

Spec == Init /\ [][Next]_vars

-----------------------------------------------------------------------------
(* The reference: which token sequences are a JSON object, in a grammar    *)
(* whose arrays hold objects.  Every bracket has its partner, neighbours   *)
(* fit, and a comma is followed by what its brackets enclose.              *)

Opens  == {"{", "["}
Closes == {"}", "]"}
Token  == Opens \cup Closes \cup {",", "k", "f", "x"}

Follows == [t \in Token |->
  CASE t = "{" -> {"f", "k", "}"}
    [] t = "[" -> {"{", "]"}
    [] t = "k" -> {"{", "["}
    [] t = "f" -> {",", "}"}
    [] t = "," -> {"f", "k", "{"}
    [] t \in Closes -> {",", "}", "]"}
    [] OTHER -> {}]

(* How many brackets are open after the i-th token? *)
Depth(t) == [i \in 0..Len(t) |-> Cardinality({j \in 1..i : t[j] \in Opens})
                               - Cardinality({j \in 1..i : t[j] \in Closes})]

(* Is the innermost bracket that is open before the i-th token a b? *)
Within(t, d, i, b) ==
  \E j \in 1..(i - 1) : t[j] = b /\ d[j] = d[i - 1] /\ \A m \in j..(i - 1) : d[m] >= d[j]

IsJson(t) ==
  LET d == Depth(t)
  IN  /\ Len(t) > 0 /\ t[1] = "{" /\ d[Len(t)] = 0
      /\ \A i \in 1..(Len(t) - 1) :
           /\ d[i] > 0
           /\ t[i + 1] \in Follows[t[i]]
           /\ t[i] = "," => Within(t, d, i + 1, IF t[i + 1] = "{" THEN "[" ELSE "{")
      /\ \A i \in 1..Len(t) : /\ t[i] = "}" => Within(t, d, i, "{")
                              /\ t[i] = "]" => Within(t, d, i, "[")

(* Whatever commands and queries fail or yield nothing, in whatever runs   *)
(* of plugin_gather, the packet is one that "]}" completes to JSON, and    *)
(* JSON once it is sealed: the commas that os_gather, mysql_gather,        *)
(* packet_gather and plugin_gather decide on separately, and the text they *)
(* take back, fit together.  Only a gather that was cut short spoils it,   *)
(* and this packet alone, not the next use of its memory.                  *)
PayloadIsJson == killed \/ section # NoSection \/
  /\ state \in {"BEGIN", "WROTE"} => IsJson(payload \o <<"]", "}">>)
  /\ state = "READY" => IsJson(payload)

(* What packet_fetch hands to the sender is a JSON string, if no gather    *)
(* was cut short.                                                          *)
SealedIsJson == state = "READY" /\ ~killed => IsJson(payload)

(* plugin_gather seals a packet only when it holds a record: a packet in   *)
(* which every gather was taken back is dropped (DONE), never sent.        *)
SealedHasRecord == state = "READY" => Len(payload) > Len(Header) + 2
==============================================================================
