------------------------------- MODULE Routine -------------------------------
(***************************************************************************)
(* The ping-pong protocol of routine.c between a supervisor thread and the *)
(* routines it starts, pings and restarts: main with the scheduler and the *)
(* storage (agent.c), or the scheduler with the plugins (scheduler.c).     *)
(*                                                                         *)
(* A mutex is locked or free and has no owner: routine_stop and            *)
(* routine_sync unlock mutexes that their caller does not hold, and a      *)
(* default pthread mutex lets them.  A thread that is cancelled inside     *)
(* pthread_cond_wait locks the mutex again before it dies.                 *)
(***************************************************************************)
EXTENDS Naturals, Sequences

CONSTANTS
  Routine,     (* the routines of this supervisor                          *)
  Order,       (* the order in which it starts and polls them              *)
  Policy,      (* what it does after a failed ping, see Restarts           *)
  Quick,       (* routines whose task ends before they are polled again    *)
  Thread,      (* names for the threads of one routine (bounds how many    *)
               (* live at a time; the name of a dead one is used again)    *)
  MaxLate      (* bound on the handshakes that take more than 50 ms        *)

ASSUME RoutineAssumption ==
  /\ Order \in Seq(Routine) /\ Order # <<>>
  /\ \A i, j \in 1..Len(Order) : Order[i] = Order[j] => i = j
  /\ Policy \in [Routine -> {"never", "always", "gather"}]
  /\ Quick \subseteq Routine
  /\ Thread # {}
  /\ MaxLate \in Nat

VARIABLES
  alive,       (* r->alive                                                 *)
  overdue,     (* routine_overdue(r)                                       *)
  gathering,   (* plugin_gather_phase(r): the task is plugin_gather        *)
  ping_me,     (* is the mutex r->ping_me locked?                          *)
  pong_me,     (* is the mutex r->pong_me locked?                          *)
  wpc,         (* where each thread is in routine_main                     *)
  posting,     (* threads whose run of the task posts (regr, alert) and    *)
               (* does not gather                                          *)
  cancelled,   (* threads with a pending pthread_cancel                    *)
  running,     (* r->running_thread                                        *)
  spc,         (* where the supervisor is                                  *)
  at,          (* index in Order of the routine it deals with              *)
  started,     (* have the routines all been started?                      *)
  call,        (* the call routine_sync is part of: "start" or "ping"      *)
  acked,       (* result of the last routine_sync                          *)
  late,        (* handshakes that were late so far                         *)
  stray        (* has a thread that was told to end begun or changed a     *)
               (* task?                                                    *)

fields == <<alive, overdue, gathering>>
mutexes == <<ping_me, pong_me>>
threads == <<wpc, posting, cancelled, running>>
supervisor == <<spc, at, started, call, acked>>
history == <<late, stray>>
vars == <<fields, mutexes, threads, supervisor, history>>

WorkerPc == {"dead", "lock_pong0", "lock_ping0", "signal0", "test", "wait",
             "woken", "lock_pong", "signal", "task", "cancel"}

SupPc == {"create", "poll", "sync", "timedwait", "relock", "start_lock",
          "stop", "stop_ping", "stop_pong"}

Init ==
  /\ alive     = [r \in Routine |-> FALSE]
  /\ overdue   = [r \in Routine |-> TRUE]
  /\ gathering = [r \in Routine |-> FALSE]
  /\ ping_me   = [r \in Routine |-> FALSE]
  /\ pong_me   = [r \in Routine |-> FALSE]
  /\ wpc       = [r \in Routine |-> [t \in Thread |-> "dead"]]
  /\ posting   = [r \in Routine |-> {}]
  /\ cancelled = [r \in Routine |-> {}]
  /\ running   = [r \in Routine |-> CHOOSE t \in Thread : TRUE]
  /\ spc = "create" /\ at = 1 /\ started = FALSE
  /\ call = "start" /\ acked = TRUE
  /\ late = 0 /\ stray = FALSE

-----------------------------------------------------------------------------
(* A thread t in routine_main(r).                                          *)

Step(r, t, l) == wpc' = [wpc EXCEPT ![r][t] = l]

Lock(m, r)   == ~m[r] /\ m' = [m EXCEPT ![r] = TRUE]
Unlock(m, r) == m' = [m EXCEPT ![r] = FALSE]

LockPong(r, t) ==
  /\ \/ wpc[r][t] = "lock_pong0" /\ Step(r, t, "lock_ping0")
     \/ wpc[r][t] = "lock_pong" /\ Step(r, t, "signal")
  /\ Lock(pong_me, r)
  /\ UNCHANGED <<fields, ping_me, posting, cancelled, running, supervisor, history>>

(* routine_main takes ping_me once itself, then as pthread_cond_wait returns *)
LockPing(r, t) ==
  /\ \/ wpc[r][t] = "lock_ping0" /\ Step(r, t, "signal0")
     \/ wpc[r][t] = "woken" /\ Step(r, t, "lock_pong")
  /\ Lock(ping_me, r)
  /\ UNCHANGED <<fields, pong_me, posting, cancelled, running, supervisor, history>>

(* pthread_cond_signal(&r->pong): the supervisor gets it if it waits now *)
SignalPong(r) ==
  IF spc = "timedwait" /\ Order[at] = r
  THEN spc' = "relock" /\ acked' = TRUE /\ UNCHANGED <<at, started, call>>
  ELSE UNCHANGED supervisor

(* The task of a plugin is plugin_gather, or one that posts. *)
Posts(r) == Policy[r] = "gather" /\ ~gathering[r]

Pong(r, t) ==
  /\ \/ wpc[r][t] = "signal0" /\ Step(r, t, "test") /\ UNCHANGED <<posting, stray>>
     \/ /\ wpc[r][t] = "signal" /\ Step(r, t, "task")
        /\ posting' = IF Posts(r) THEN [posting EXCEPT ![r] = @ \cup {t}] ELSE posting
        /\ stray' = (stray \/ t \in cancelled[r])
  /\ SignalPong(r)
  /\ Unlock(pong_me, r)
  /\ UNCHANGED <<fields, ping_me, cancelled, running, late>>

(* r->task(r) returns; due lies ahead.  plugin_regr and the alerts may     *)
(* change the task to plugin_gather, and plugin_gather to an alert.        *)
TaskEnd(r, t) ==
  /\ wpc[r][t] = "task"
  /\ Step(r, t, "test")
  /\ overdue' = [overdue EXCEPT ![r] = FALSE]
  /\ \/ UNCHANGED <<gathering, stray>>
     \/ /\ Policy[r] = "gather"
        /\ gathering' = [gathering EXCEPT ![r] = t \in posting[r]]
        /\ stray' = (stray \/ (gathering' # gathering /\ t \in cancelled[r]))
  /\ posting' = [posting EXCEPT ![r] = @ \ {t}]
  /\ UNCHANGED <<alive, mutexes, cancelled, running, supervisor, late>>

(* while(r->alive) pthread_cond_wait(&r->ping, &r->ping_me); a thread that *)
(* leaves the loop keeps ping_me locked                                    *)
TestAlive(r, t) ==
  /\ wpc[r][t] = "test"
  /\ \/ alive[r] /\ Step(r, t, "wait") /\ Unlock(ping_me, r)
     \/ ~alive[r] /\ Step(r, t, "dead") /\ UNCHANGED ping_me
  /\ UNCHANGED <<fields, pong_me, posting, cancelled, running, supervisor, history>>

(* The cancellation is acted upon in the task (all tasks do I/O), or while *)
(* waiting for a ping, and then ping_me is locked again first.             *)
CancelInTask(r, t) ==
  /\ t \in cancelled[r] /\ wpc[r][t] = "task"
  /\ Step(r, t, "dead")
  /\ posting' = [posting EXCEPT ![r] = @ \ {t}]
  /\ UNCHANGED <<fields, mutexes, cancelled, running, supervisor, history>>

CancelInWait(r, t) ==
  /\ t \in cancelled[r] /\ wpc[r][t] = "wait"
  /\ Step(r, t, "cancel")
  /\ UNCHANGED <<fields, mutexes, posting, cancelled, running, supervisor, history>>

DieLocked(r, t) ==
  /\ wpc[r][t] = "cancel"
  /\ Lock(ping_me, r)
  /\ Step(r, t, "dead")
  /\ UNCHANGED <<fields, pong_me, posting, cancelled, running, supervisor, history>>

(* due passes *)
BecomeOverdue(r) ==
  /\ ~overdue[r]
  /\ overdue' = [overdue EXCEPT ![r] = TRUE]
  /\ UNCHANGED <<alive, gathering, mutexes, threads, supervisor, history>>

-----------------------------------------------------------------------------
(* The supervisor, dealing with the routine Order[at].                     *)

self == Order[at]

(* Mutant: the loop does not go back to the first routine. *)
DoneNoWrap ==
  /\ at' = at + 1
  /\ started' = (started \/ at = Len(Order))
  /\ spc' = IF started' THEN "poll" ELSE "create"

(* Mutant: the loop stays with the last routine. *)
DoneStay ==
  /\ at' = IF at = Len(Order) THEN at ELSE at + 1
  /\ started' = (started \/ at = Len(Order))
  /\ spc' = IF started' THEN "poll" ELSE "create"

(* On to the next routine, or from the last one back to the first. *)
Done ==
  /\ at' = IF at = Len(Order) THEN 1 ELSE at + 1
  /\ started' = (started \/ at = Len(Order))
  /\ spc' = IF started' THEN "poll" ELSE "create"

(* Mutant: whatever does not answer is restarted. *)
RestartsAll(r) == TRUE

(* agent.c restarts the scheduler and never the storage, scheduler.c a     *)
(* plugin only while it gathers                                            *)
Restarts(r) == Policy[r] = "always" \/ (Policy[r] = "gather" /\ gathering[r])

PingFailed == IF Restarts(self) THEN spc' = "stop" /\ UNCHANGED <<at, started>> ELSE Done

Busy(r) == \E t \in Thread : wpc[r][t] \in {"task", "test"}

NotDue ==
  /\ spc = "poll"
  /\ ~(alive[self] /\ overdue[self]) \/ (self \in Quick /\ Busy(self))
  /\ Done
  /\ UNCHANGED <<fields, mutexes, threads, call, acked, history>>

(* Mutant: routine_ping unlocks ping_me though it did not get it. *)
PingRefusedFree ==
  /\ spc = "poll" /\ alive[self] /\ overdue[self]
  /\ self \in Quick => ~Busy(self)
  /\ ping_me[self]
  /\ PingFailed
  /\ Unlock(ping_me, self)
  /\ UNCHANGED <<fields, pong_me, threads, call, acked, history>>

(* routine_ping: ping_me is locked, no time to wait for it *)
PingRefused ==
  /\ spc = "poll" /\ alive[self] /\ overdue[self]
  /\ self \in Quick => ~Busy(self)
  /\ ping_me[self]
  /\ PingFailed
  /\ UNCHANGED <<fields, mutexes, threads, call, acked, history>>

(* Mutant: routine_ping does not wait for the answer. *)
PingNoSync ==
  /\ spc = "poll" /\ alive[self] /\ overdue[self]
  /\ ~ping_me[self]
  /\ LET waiting == {t \in Thread : wpc[self][t] = "wait"}
     IN  IF waiting = {} THEN UNCHANGED wpc
         ELSE \E t \in waiting : Step(self, t, "woken")
  /\ Done /\ call' = "ping"
  /\ UNCHANGED <<fields, mutexes, posting, cancelled, running, acked, history>>

(* routine_ping: lock, signal one waiter if there is any, unlock *)
Ping ==
  /\ spc = "poll" /\ alive[self] /\ overdue[self]
  /\ ~ping_me[self]
  /\ LET waiting == {t \in Thread : wpc[self][t] = "wait"}
     IN  IF waiting = {} THEN UNCHANGED wpc
         ELSE \E t \in waiting : Step(self, t, "woken")
  /\ spc' = "sync" /\ call' = "ping"
  /\ UNCHANGED <<fields, mutexes, posting, cancelled, running, at, started, acked, history>>

(* Mutant: routine_start does not wait for the thread. *)
CreateNoSync ==
  /\ spc = "create"
  /\ alive' = [alive EXCEPT ![self] = TRUE]
  /\ overdue' = [overdue EXCEPT ![self] = TRUE]
  /\ \E t \in Thread :
       /\ wpc[self][t] = "dead"
       /\ Step(self, t, "lock_pong0")
       /\ cancelled' = [cancelled EXCEPT ![self] = @ \ {t}]
       /\ running' = [running EXCEPT ![self] = t]
  /\ Done /\ call' = "start"
  /\ UNCHANGED <<gathering, mutexes, posting, acked, history>>

(* routine_start up to the call of routine_sync *)
Create ==
  /\ spc = "create"
  /\ alive' = [alive EXCEPT ![self] = TRUE]
  /\ overdue' = [overdue EXCEPT ![self] = TRUE]
  /\ \E t \in Thread :
       /\ wpc[self][t] = "dead"
       /\ Step(self, t, "lock_pong0")
       /\ cancelled' = [cancelled EXCEPT ![self] = @ \ {t}]
       /\ running' = [running EXCEPT ![self] = t]
  /\ spc' = "sync" /\ call' = "start"
  /\ UNCHANGED <<gathering, mutexes, posting, at, started, acked, history>>

(* routine_sync: pthread_cond_timedwait unlocks pong_me ... *)
Sync ==
  /\ spc = "sync"
  /\ Unlock(pong_me, self)
  /\ spc' = "timedwait"
  /\ UNCHANGED <<fields, ping_me, threads, at, started, call, acked, history>>

(* Is thread t of r about to answer, with nothing in its way? *)
Answering(r, t) ==
  \/ wpc[r][t] \in {"signal0", "signal"}
  \/ wpc[r][t] \in {"lock_pong0", "lock_pong"} /\ ~pong_me[r]
  \/ wpc[r][t] \in {"lock_ping0", "woken"} /\ ~ping_me[r]

(* ... the 50 ms pass, though an answer may be on its way ... *)
Timeout ==
  /\ spc = "timedwait"
  /\ LET missed == \E t \in Thread : Answering(self, t)
     IN  /\ missed => late < MaxLate
         /\ late' = IF missed THEN late + 1 ELSE late
  /\ spc' = "relock" /\ acked' = FALSE
  /\ UNCHANGED <<fields, mutexes, threads, at, started, call, stray>>

(* Mutant: routine_sync gives pong_me back. *)
RelockFree ==
  /\ spc = "relock"
  /\ ~pong_me[self]
  /\ \/ call = "start" /\ acked /\ spc' = "start_lock" /\ UNCHANGED <<at, started>>
     \/ call = "start" /\ ~acked /\ Done
     \/ call = "ping" /\ acked /\ Done
     \/ call = "ping" /\ ~acked /\ PingFailed
  /\ UNCHANGED <<fields, mutexes, threads, call, acked, history>>

(* ... and, signalled or not, pong_me is locked again before it returns;   *)
(* routine_start then has the last word if it was answered                 *)
Relock ==
  /\ spc = "relock"
  /\ Lock(pong_me, self)
  /\ \/ call = "start" /\ acked /\ spc' = "start_lock" /\ UNCHANGED <<at, started>>
     \/ call = "start" /\ ~acked /\ Done
     \/ call = "ping" /\ acked /\ Done
     \/ call = "ping" /\ ~acked /\ PingFailed
  /\ UNCHANGED <<fields, ping_me, threads, call, acked, history>>

(* routine_start locks and unlocks ping_me: the thread is waiting for pings *)
StartLock ==
  /\ spc = "start_lock" /\ ~ping_me[self]
  /\ Done
  /\ UNCHANGED <<fields, mutexes, threads, call, acked, history>>

(* Mutant: the thread is not cancelled. *)
StopNoCancel ==
  /\ spc = "stop"
  /\ alive' = [alive EXCEPT ![self] = FALSE]
  /\ spc' = "stop_ping"
  /\ UNCHANGED <<overdue, gathering, mutexes, threads, at, started, call, acked, history>>

(* routine_stop, whose last step leads to routine_start (routine_restart) *)
Stop ==
  /\ spc = "stop"
  /\ alive' = [alive EXCEPT ![self] = FALSE]
  /\ cancelled' = [cancelled EXCEPT ![self] = @ \cup {running[self]}]
  /\ spc' = "stop_ping"
  /\ UNCHANGED <<overdue, gathering, mutexes, wpc, posting, running, at, started, call, acked, history>>

StopPing ==
  /\ spc = "stop_ping"
  /\ Unlock(ping_me, self)
  /\ spc' = "stop_pong"
  /\ UNCHANGED <<fields, pong_me, threads, at, started, call, acked, history>>

StopPong ==
  /\ spc = "stop_pong"
  /\ Unlock(pong_me, self)
  /\ spc' = "create"
  /\ UNCHANGED <<fields, ping_me, threads, at, started, call, acked, history>>

-----------------------------------------------------------------------------
Worker(r, t) ==
  \/ LockPong(r, t)
  \/ LockPing(r, t)
  \/ Pong(r, t)
  \/ TaskEnd(r, t)
  \/ TestAlive(r, t)
  \/ CancelInTask(r, t)
  \/ CancelInWait(r, t)
  \/ DieLocked(r, t)

Supervisor ==
  \/ NotDue
  \/ PingRefused
  \/ Ping
  \/ Create
  \/ Sync
  \/ Timeout
  \/ Relock
  \/ StartLock
  \/ Stop
  \/ StopPing
  \/ StopPong

Next ==
  \/ Supervisor
  \/ \E r \in Routine : BecomeOverdue(r) \/ \E t \in Thread : Worker(r, t)

Spec == Init /\ [][Next]_vars

(* Threads are scheduled, a mutex that is free again and again is obtained, *)
(* a task returns, the clock runs.                                          *)
Fairness ==
  /\ WF_vars(Supervisor) /\ SF_vars(Relock) /\ SF_vars(StartLock)
  /\ \A r \in Routine :
       /\ WF_vars(BecomeOverdue(r))
       /\ \A t \in Thread :
            /\ WF_vars(Worker(r, t))
            /\ SF_vars(LockPong(r, t)) /\ SF_vars(LockPing(r, t)) /\ SF_vars(DieLocked(r, t))

FairSpec == Spec /\ Fairness

-----------------------------------------------------------------------------
(* The loops of main and scheduler_main stay within their routines, every  *)
(* thread is at a step of routine_main, no more handshakes are late than   *)
(* the bound allows.                                                       *)
TypeOK ==
  /\ alive \in [Routine -> BOOLEAN]
  /\ overdue \in [Routine -> BOOLEAN]
  /\ gathering \in [Routine -> BOOLEAN]
  /\ ping_me \in [Routine -> BOOLEAN]
  /\ pong_me \in [Routine -> BOOLEAN]
  /\ wpc \in [Routine -> [Thread -> WorkerPc]]
  /\ posting \in [Routine -> SUBSET Thread]
  /\ cancelled \in [Routine -> SUBSET Thread]
  /\ running \in [Routine -> Thread]
  /\ spc \in SupPc
  /\ at \in 1..Len(Order)
  /\ started \in BOOLEAN
  /\ call \in {"start", "ping"}
  /\ acked \in BOOLEAN
  /\ late \in 0..MaxLate /\ stray \in BOOLEAN

(* routine_ping: the answer of a thread that was woken by a ping reaches   *)
(* the supervisor, which waits for it at that moment.  It rests on the     *)
(* supervisor keeping pong_me locked from one routine_sync to the next,    *)
(* and holds until an answer takes more than the 50 ms.                    *)
AnswerHeard ==
  [][\A r \in Routine, t \in Thread :
       late = 0 /\ wpc[r][t] = "signal" /\ wpc'[r][t] = "task"
         => spc = "timedwait" /\ self = r]_vars

(* routine_sync: a ping is not taken as answered by the first signal of    *)
(* routine_main, which belongs to routine_start (as long as none is late). *)
AnswerMatchesCall ==
  [][\A r \in Routine, t \in Thread :
       late = 0 /\ wpc[r][t] = "signal0" /\ wpc'[r][t] = "test" /\ spc = "timedwait" /\ self = r
         => call = "start"]_vars

(* routine_restart: of the threads of a routine, all but running_thread    *)
(* have been told to end, so two of them share the routine's data only     *)
(* until the cancellation takes effect.                                    *)
OneLiveThread ==
  \A r \in Routine, t \in Thread :
    wpc[r][t] # "dead" /\ t \notin cancelled[r] => t = running[r]

(* scheduler_main: it looks at the task of a plugin and restarts it some   *)
(* steps later; still no thread is told to end while it posts, with the    *)
(* spin lock of post taken, however late the handshakes are, unless a      *)
(* thread that was told to end before began another task or changed it.    *)
PostSpared == stray \/ \A r \in Routine : posting[r] \cap cancelled[r] = {}

(* The only thread of a routine, woken by a ping, waits for pong_me and    *)
(* keeps ping_me, while the supervisor keeps pong_me and is not in         *)
(* routine_sync with it.                                                   *)
Wedged(r) ==
  /\ ping_me[r] /\ pong_me[r]
  /\ \E t \in Thread : wpc[r][t] = "lock_pong" /\ \A u \in Thread \ {t} : wpc[r][u] = "dead"
  /\ self = r => spc = "poll"

(* agent.c pings the storage and ignores the result, and so does           *)
(* scheduler.c with a plugin that does not gather: once such a routine is  *)
(* wedged, it is wedged for good ...                                       *)
WedgedForGood ==
  [][\A r \in Routine : Wedged(r) /\ ~Restarts(r) => Wedged(r)' /\ ~Restarts(r)']_vars

(* ... which takes a handshake longer than the 50 ms of routine_sync.      *)
WedgeNeedsMiss == \A r \in Routine : Wedged(r) => late > 0

(* scheduler.h, "Schedule plugins", and storage.h, "Send packets": a       *)
(* routine that is overdue runs its task in the end, or a handshake took   *)
(* more than 50 ms.                                                        *)
KeepsRunning ==
  \A r \in Routine : overdue[r] ~> (\E t \in Thread : wpc[r][t] = "task") \/ late > 0
=============================================================================
