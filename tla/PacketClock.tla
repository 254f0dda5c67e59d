----------------------------- MODULE PacketClock -----------------------------
(***************************************************************************)
(* How much a plugin writes to one metric packet: plugin_gather (plugin.c) *)
(* appends a record, and packet_expired decides at its end whether the     *)
(* packet is sealed.  routine_main pays out the gathers by the clock, the  *)
(* scheduler may restart the plugin in the middle of one (scheduler.c),    *)
(* and the clock may be set back.  Text is known by its length; nothing in *)
(* the code limits that of a record.                                       *)
(***************************************************************************)
EXTENDS Integers

CONSTANTS
  Tick,        (* p->tick: from the begin of a gather to the next          *)
  Expiry,      (* the age at which packet_expired is true                  *)
  PKTSZ,       (* room in a packet                                         *)
  Head, Tail,  (* length of what opens a packet and of what closes it      *)
  Cap,         (* records a packet gets at most: those of its expiry, one  *)
               (* more that begins just before and one that ends it        *)
  MaxRecord,   (* bound on the length of a record, with its comma          *)
  MaxNow,      (* bound on the clock                                       *)
  MaxRestarts, (* bound on the restarts for one packet                     *)
  MaxBacks     (* bound on how often the clock is set back                 *)

ASSUME ClockAssumption ==
  /\ Tick \in Nat \ {0} /\ Expiry \in Nat \ {0}
  /\ Head \in Nat /\ Tail \in Nat /\ MaxRecord \in Nat /\ PKTSZ \in Nat
  /\ Cap \in Nat /\ (Cap - 1) * Tick >= Expiry
  /\ MaxNow \in Nat /\ MaxRestarts \in Nat /\ MaxBacks \in Nat

VARIABLES
  now,         (* epoch_time()                                             *)
  due,         (* r->due                                                   *)
  begin,       (* begin of the last plugin_gather                          *)
  busy,        (* is the thread in plugin_gather?                          *)
  state,       (* pkt->state of p->working, or of the packet before it     *)
  started,     (* pkt->started                                             *)
  size,        (* pkt->size, within a gather pkt->rollback_point           *)
  records,     (* complete records in the packet                           *)
  longest,     (* the longest text of a gather for it, taken back or not   *)
  peak,        (* the furthest end of the text, taken back or not          *)
  restarts,    (* restarts of the plugin since the packet was opened       *)
  skewed,      (* was the clock set back in a gather, or a gather begun    *)
               (* earlier than the one before?                             *)
  backs        (* how often the clock was set back                         *)

packet == <<state, started, size, records, longest, peak>>
vars   == <<now, due, begin, busy, packet, restarts, skewed, backs>>

Init ==
  /\ now \in 0..MaxNow /\ due = 0 /\ begin = 0 /\ busy = FALSE
  /\ state = "DONE" /\ started = 0 /\ size = 0 /\ records = 0
  /\ longest = 0 /\ peak = 0
  /\ restarts = 0 /\ skewed = FALSE /\ backs = 0

-----------------------------------------------------------------------------
(* Mutant: the time of the first record is taken anew with every gather. *)
GatherBeginAnew ==
  /\ ~busy /\ due <= now /\ peak <= PKTSZ
  /\ busy' = TRUE /\ begin' = now
  /\ IF state \in {"READY", "DONE"}
     THEN /\ state' = "BEGIN" /\ started' = now /\ size' = Head /\ records' = 0
          /\ longest' = 0 /\ peak' = Head /\ restarts' = 0 /\ skewed' = FALSE
     ELSE /\ started' = now
          /\ skewed' = (skewed \/ now < begin)
          /\ UNCHANGED <<state, size, records, longest, peak, restarts>>
  /\ UNCHANGED <<now, due, backs>>

(* A ping, then plugin_gather up to the gathering: a packet is opened if   *)
(* there is none, and counts from here until it has its first record.      *)
(* (Beyond PKTSZ the writes are undefined and not followed.)               *)
GatherBegin ==
  /\ ~busy /\ due <= now /\ peak <= PKTSZ
  /\ busy' = TRUE /\ begin' = now
  /\ IF state \in {"READY", "DONE"}
     THEN /\ state' = "BEGIN" /\ started' = now /\ size' = Head /\ records' = 0
          /\ longest' = 0 /\ peak' = Head /\ restarts' = 0 /\ skewed' = FALSE
     ELSE /\ started' = IF state = "BEGIN" THEN now ELSE started
          /\ skewed' = (skewed \/ now < begin)
          /\ UNCHANGED <<state, size, records, longest, peak, restarts>>
  /\ UNCHANGED <<now, due, backs>>

(* The difference of the times is unsigned. *)
Expired == now < started \/ now - started >= Expiry

Larger(a, b) == IF a < b THEN b ELSE a

(* The text of a gather, and the text when it ends, reach that far. *)
Reach(n) ==
  /\ longest' = Larger(longest, n)
  /\ peak' = Larger(peak, Larger(size + n, size'))

(* Mutant: what a gather without data wrote is not taken back. *)
GatherEndKeep(n, kept) ==
  LET s == IF kept THEN "WROTE" ELSE state
  IN  /\ busy /\ busy' = FALSE
      /\ due' = begin + Tick
      /\ records' = IF kept THEN records + 1 ELSE records
      /\ state' = IF ~Expired THEN s ELSE IF s = "WROTE" THEN "READY" ELSE "DONE"
      /\ size' = size + n + IF state' = "READY" THEN Tail ELSE 0
      /\ Reach(n)
      /\ UNCHANGED <<now, begin, started, restarts, skewed, backs>>

(* Mutant: the tick is taken off. *)
GatherEndLate(n, kept) ==
  LET s == IF kept THEN "WROTE" ELSE state
  IN  /\ busy /\ busy' = FALSE
      /\ due' = begin - Tick
      /\ records' = IF kept THEN records + 1 ELSE records
      /\ state' = IF ~Expired THEN s ELSE IF s = "WROTE" THEN "READY" ELSE "DONE"
      /\ size' = size + (IF kept THEN n ELSE 0) + IF state' = "READY" THEN Tail ELSE 0
      /\ Reach(n)
      /\ UNCHANGED <<now, begin, started, restarts, skewed, backs>>

(* plugin_gather wrote n characters.  They are a record, or are taken back *)
(* (packet_rollback); the packet is sealed, or dropped if it has no        *)
(* record.                                                                 *)
GatherEnd(n, kept) ==
  LET s == IF kept THEN "WROTE" ELSE state
  IN  /\ busy /\ busy' = FALSE
      /\ due' = begin + Tick
      /\ records' = IF kept THEN records + 1 ELSE records
      /\ state' = IF ~Expired THEN s ELSE IF s = "WROTE" THEN "READY" ELSE "DONE"
      /\ size' = size + (IF kept THEN n ELSE 0) + IF state' = "READY" THEN Tail ELSE 0
      /\ Reach(n)
      /\ UNCHANGED <<now, begin, started, restarts, skewed, backs>>

(* routine_restart: a gather is cut short, what it wrote stays, and the    *)
(* new thread is due at once.                                              *)
Restart(n) ==
  /\ busy \/ n = 0
  /\ restarts < MaxRestarts
  /\ restarts' = restarts + 1
  /\ due' = 0 /\ busy' = FALSE
  /\ size' = size + n /\ Reach(n)
  /\ UNCHANGED <<now, begin, state, started, records, skewed, backs>>

(* Time passes, also in jumps *)
ClockForward ==
  /\ now' \in (now + 1)..MaxNow
  /\ UNCHANGED <<due, begin, busy, packet, restarts, skewed, backs>>

ClockBack ==
  /\ backs < MaxBacks
  /\ backs' = backs + 1
  /\ now' \in 0..(now - 1)
  /\ skewed' = (skewed \/ busy)
  /\ UNCHANGED <<due, begin, busy, packet, restarts>>

Next ==
  \/ GatherBegin
  \/ \E n \in 1..MaxRecord, kept \in BOOLEAN : GatherEnd(n, kept)
  \/ \E n \in 0..MaxRecord : Restart(n)
  \/ ClockForward \/ ClockBack

Spec == Init /\ [][Next]_vars

-----------------------------------------------------------------------------
(* Times and lengths are natural numbers, a packet that is written to was  *)
(* opened, and one counts as written if it has a record.                   *)
TypeOK ==
  /\ now \in Nat /\ due \in Nat /\ begin \in Nat /\ started \in Nat
  /\ size \in Nat /\ records \in Nat /\ restarts \in Nat /\ backs \in Nat
  /\ longest \in Nat /\ peak \in Nat
  /\ busy \in BOOLEAN /\ skewed \in BOOLEAN
  /\ state \in {"BEGIN", "WROTE", "READY", "DONE"}
  /\ state \in {"BEGIN", "DONE"} => records = 0
  /\ busy => state \in {"BEGIN", "WROTE"}

(* routine_main, plugin_gather and packet_expired: the records of a packet *)
(* but two begin less than Expiry after the first one, Tick apart.  Each   *)
(* restart adds one at most, and setting the clock back between gathers    *)
(* adds none.                                                              *)
RecordsBounded ==
  \/ skewed
  \/ records <= restarts + 2
  \/ (records - restarts - 2) * Tick < Expiry

(* packet_append: without a restart and with a clock that is not set back  *)
(* in a gather, the text with its final 0 outgrows the packet only if some *)
(* gather wrote more than its share of it, however slow the gathers are    *)
(* and whatever they take back.  (packet_append adds what snprintf would   *)
(* have written, so that the room left comes out negative from then on.)   *)
PacketFits ==
  restarts = 0 /\ ~skewed /\ Head + Cap * longest + Tail < PKTSZ => peak < PKTSZ
==============================================================================
