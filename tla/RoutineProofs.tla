---------------------------- MODULE RoutineProofs ----------------------------
(***************************************************************************)
(* The supervisor and its routines, for any number of routines and         *)
(* threads, any policy and any number of late answers: one thread of a     *)
(* routine is not cancelled (RInv), a restart spares a post under way      *)
(* (PInv), what is stuck stays stuck, and nothing gets stuck before a      *)
(* routine has missed its deadline (KInv, WInv: who waits for whom is      *)
(* counted).  Where a routine that may be late is never polled, as in      *)
(* main, every answer is heard and belongs to its call (AInv).             *)
(***************************************************************************)
EXTENDS Routine, TLAPS

Typed ==
  /\ wpc \in [Routine -> [Thread -> WorkerPc]]
  /\ cancelled \in [Routine -> SUBSET Thread]
  /\ running \in [Routine -> Thread]
  /\ at \in 1..Len(Order)

(* A routine that is not started yet has no thread. *)
Fresh ==
  ~started => \A i \in at..Len(Order) :
    i > at \/ spc = "create" => \A t \in Thread : wpc[Order[i]][t] = "dead"

(* Between routine_stop and routine_start all threads are told to end. *)
Ended ==
  spc \in {"stop_ping", "stop_pong"} \/ (spc = "create" /\ started) =>
    \A t \in Thread : wpc[self][t] # "dead" => t \in cancelled[self]

(* Only a routine that was started is pinged and stopped. *)
Phase ==
  /\ spc \in {"poll", "stop", "stop_ping", "stop_pong"} => started
  /\ spc \in {"sync", "timedwait", "relock"} /\ call = "ping" => started

RInv == Typed /\ Fresh /\ Ended /\ Phase /\ OneLiveThread

-----------------------------------------------------------------------------
(* The routine the supervisor deals with is one of its routines. *)
LEMMA SelfType ==
  ASSUME NEW i \in 1..Len(Order)
  PROVE  Order[i] \in Routine
  BY RoutineAssumption

(* main and scheduler_main: before any routine is started. *)
LEMMA RInvInit == Init => RInv
<1> SUFFICES ASSUME Init PROVE RInv
  OBVIOUS
<1>1. Typed
  <2>1. (CHOOSE t \in Thread : TRUE) \in Thread
    BY RoutineAssumption, Zenon
  <2>2. 1 \in 1..Len(Order)
    BY RoutineAssumption
  <2> QED
    BY <2>1, <2>2, Zenon DEF Init, Typed, WorkerPc
<1>2. \A r \in Routine, t \in Thread : wpc[r][t] = "dead"
  BY Zenon DEF Init
<1>3. \A i \in at..Len(Order) : Order[i] \in Routine
  BY <1>1, RoutineAssumption DEF Typed
<1> QED
  BY <1>1, <1>2, <1>3, SelfType, Zenon DEF Init, RInv, Fresh, Ended, Phase, OneLiveThread, Typed, self

(* routine_main and routine_ping: a thread that lives takes a step, or is  *)
(* woken by the supervisor, which may be signalled.                        *)
LEMMA LiveStep ==
  ASSUME RInv, NEW r \in Routine, NEW t \in Thread, NEW l \in WorkerPc,
         wpc[r][t] # "dead", Step(r, t, l),
         UNCHANGED <<cancelled, running, at, started>>,
         \/ call' = call /\ (spc' = spc \/ (spc = "timedwait" /\ spc' = "relock"))
         \/ spc = "poll" /\ spc' = "sync"
  PROVE  RInv'
<1>1. Typed'
  BY Zenon DEF RInv, Typed, Step
<1>2. \A q \in Routine, u \in Thread : wpc'[q][u] # "dead" => wpc[q][u] # "dead"
  BY Zenon DEF RInv, Typed, Step
<1>3. \A i \in 1..Len(Order) : Order[i] \in Routine
  BY SelfType, Zenon
<1>4. Fresh'
  <2>1. ASSUME ~started', NEW i \in at'..Len(Order), i > at' \/ spc' = "create", NEW u \in Thread
        PROVE  wpc'[Order[i]][u] = "dead"
    <3>1. i \in at..Len(Order) /\ i \in 1..Len(Order)
      BY <2>1, RoutineAssumption DEF RInv, Typed
    <3>2. wpc[Order[i]][u] = "dead"
      BY <2>1, <3>1, Zenon DEF RInv, Fresh
    <3> QED
      BY <1>2, <1>3, <3>1, <3>2, Zenon
  <2> QED
    BY <2>1, Zenon DEF Fresh
<1>5. Ended'
  BY <1>2, <1>3, Zenon DEF RInv, Typed, Ended, self
<1>6. Phase' /\ OneLiveThread'
  BY <1>2, Zenon DEF RInv, Phase, OneLiveThread
<1> QED
  BY <1>1, <1>4, <1>5, <1>6, Zenon DEF RInv

(* main and scheduler_main: on to the next routine, once this one is       *)
(* started or dealt with.                                                  *)
LEMMA DoneStep ==
  ASSUME RInv, spc # "create", Done, UNCHANGED <<wpc, cancelled, running>>
  PROVE  RInv'
<1>1. Typed'
  BY RoutineAssumption DEF RInv, Typed, Done
<1>2. started' => spc' = "poll"
  BY Zenon DEF Done
<1>3. ASSUME ~started' PROVE ~started /\ at' = at + 1 /\ spc' = "create"
  <2>1. ~started /\ at # Len(Order) /\ spc' = "create"
    BY <1>3, Zenon DEF Done
  <2> QED
    BY <2>1, Zenon DEF Done
<1>4. Fresh'
  <2>1. ASSUME ~started', NEW i \in at'..Len(Order), NEW u \in Thread
        PROVE  wpc'[Order[i]][u] = "dead"
    <3>1. i \in at..Len(Order) /\ i > at
      BY <1>3, <2>1, RoutineAssumption DEF RInv, Typed
    <3> QED
      BY <1>3, <2>1, <3>1, Zenon DEF RInv, Fresh
  <2> QED
    BY <2>1, Zenon DEF Fresh
<1>5. spc' = "poll" \/ (spc' = "create" /\ ~started')
  BY <1>2, <1>3, Zenon
<1>6. Ended'
  BY <1>2, <1>5, Zenon DEF Ended
<1>7. Phase'
  BY <1>3, <1>5, Zenon DEF Phase
<1>8. OneLiveThread'
  BY Zenon DEF RInv, OneLiveThread
<1> QED
  BY <1>1, <1>4, <1>6, <1>7, <1>8, Zenon DEF RInv

(* The supervisor goes on to another step of the same call, or to the next *)
(* call for the same routine; only routine_restart goes back to            *)
(* routine_start.                                                          *)
LEMMA StayStep ==
  ASSUME RInv, UNCHANGED <<wpc, cancelled, running, at, started>>,
         \/ spc' \in {"timedwait", "relock", "start_lock"} /\ spc # "create" /\ call' = call
            /\ (spc' \in {"timedwait", "relock"} => spc \in {"sync", "timedwait", "relock"})
         \/ spc' \in {"sync", "stop"} /\ started /\ spc # "create"
         \/ spc = "stop_ping" /\ spc' = "stop_pong"
         \/ spc = "stop_pong" /\ spc' = "create"
         \/ spc' = spc /\ call' = call
  PROVE  RInv'
<1>1. Typed' /\ OneLiveThread'
  BY Zenon DEF RInv, Typed, OneLiveThread
<1>2. spc' = "create" => spc = "create" \/ started
  BY Zenon DEF RInv, Phase
<1>3. Fresh'
  BY <1>2, Zenon DEF RInv, Fresh
<1>4. Ended'
  BY <1>2, Zenon DEF RInv, Ended, Phase, self
<1>5. Phase'
  BY Zenon DEF RInv, Phase
<1> QED
  BY <1>1, <1>3, <1>4, <1>5, Zenon DEF RInv

(* scheduler_main and main after a failed ping. *)
LEMMA FailedStep ==
  ASSUME RInv, started, spc # "create", PingFailed, UNCHANGED <<wpc, cancelled, running>>
  PROVE  RInv'
<1>1. CASE Restarts(self)
  <2>1. spc' = "stop" /\ UNCHANGED <<at, started>>
    BY <1>1, Zenon DEF PingFailed
  <2> QED
    BY <2>1, StayStep, Zenon
<1>2. CASE ~Restarts(self)
  BY <1>2, DoneStep, Zenon DEF PingFailed
<1> QED
  BY <1>1, <1>2, Zenon

(* routine_start: the new thread is the only one that is not told to end. *)
LEMMA CreateStep == ASSUME RInv, Create PROVE RInv'
<1> DEFINE r == self
<1>1. r \in Routine /\ spc = "create"
  BY SelfType, Zenon DEF RInv, Typed, Create, self
<1>2. PICK t \in Thread :
        /\ wpc[r][t] = "dead"
        /\ wpc' = [wpc EXCEPT ![r][t] = "lock_pong0"]
        /\ cancelled' = [cancelled EXCEPT ![r] = @ \ {t}]
        /\ running' = [running EXCEPT ![r] = t]
  BY Zenon DEF Create, Step
<1>3. spc' = "sync" /\ call' = "start" /\ UNCHANGED <<at, started>>
  BY Zenon DEF Create
<1>4. Typed'
  BY <1>1, <1>2, <1>3, Zenon DEF RInv, Typed, WorkerPc
<1>5. \A u \in Thread : wpc[r][u] # "dead" => u \in cancelled[r]
  <2>1. CASE started
    BY <1>1, <2>1, Zenon DEF RInv, Ended
  <2>2. CASE ~started
    <3>1. at \in at..Len(Order)
      BY RoutineAssumption DEF RInv, Typed
    <3> QED
      BY <1>1, <2>2, <3>1, Zenon DEF RInv, Fresh, self
  <2> QED
    BY <2>1, <2>2, Zenon
<1>6. OneLiveThread'
  <2>1. ASSUME NEW q \in Routine, NEW u \in Thread, wpc'[q][u] # "dead", u \notin cancelled'[q]
        PROVE  u = running'[q]
    <3>1. CASE q # r
      BY <1>1, <1>2, <2>1, <3>1, Zenon DEF RInv, Typed, OneLiveThread
    <3>2. CASE q = r /\ u # t
      BY <1>1, <1>2, <1>5, <2>1, <3>2, Zenon DEF RInv, Typed
    <3>3. CASE q = r /\ u = t
      BY <1>1, <1>2, <3>3, Zenon DEF RInv, Typed
    <3> QED
      BY <3>1, <3>2, <3>3, Zenon
  <2> QED
    BY <2>1, Zenon DEF OneLiveThread
<1>7. Fresh'
  <2>1. ASSUME ~started', NEW i \in at'..Len(Order), i > at', NEW u \in Thread
        PROVE  wpc'[Order[i]][u] = "dead"
    <3>1. i \in at..Len(Order) /\ i \in 1..Len(Order) /\ at \in 1..Len(Order) /\ i # at
      BY <1>3, <2>1, RoutineAssumption DEF RInv, Typed
    <3>2. Order[i] # r /\ Order[i] \in Routine
      BY <3>1, SelfType, RoutineAssumption, Zenon DEF self
    <3>3. wpc[Order[i]][u] = "dead"
      BY <1>1, <1>3, <2>1, <3>1, Zenon DEF RInv, Fresh
    <3> QED
      BY <1>1, <1>2, <3>2, <3>3, Zenon DEF RInv, Typed
  <2> QED
    BY <1>3, <2>1, Zenon DEF Fresh
<1>8. Ended' /\ Phase'
  BY <1>3, Zenon DEF Ended, Phase
<1> QED
  BY <1>4, <1>6, <1>7, <1>8, Zenon DEF RInv

(* routine_stop: the thread that was not told to end is. *)
LEMMA StopStep == ASSUME RInv, Stop PROVE RInv'
<1>1. self \in Routine /\ spc = "stop" /\ started
  BY SelfType, Zenon DEF RInv, Typed, Phase, Stop, self
<1>2. /\ cancelled' = [cancelled EXCEPT ![self] = @ \cup {running[self]}]
      /\ spc' = "stop_ping" /\ UNCHANGED <<wpc, running, at, started>>
  BY Zenon DEF Stop
<1>3. Typed' /\ OneLiveThread'
  BY <1>1, <1>2, Zenon DEF RInv, Typed, OneLiveThread
<1>4. Fresh' /\ Phase'
  BY <1>1, <1>2, Zenon DEF Fresh, Phase
<1>5. self' = self
  BY <1>2, Zenon DEF self
<1>6. Ended'
  BY <1>1, <1>2, <1>5, Zenon DEF RInv, Typed, OneLiveThread, Ended
<1> QED
  BY <1>3, <1>4, <1>6, Zenon DEF RInv

(* routine_main: every step of a thread. *)
LEMMA WorkerStep ==
  ASSUME RInv, NEW r \in Routine, NEW t \in Thread, Worker(r, t)
  PROVE  RInv'
<1>1. PICK l \in WorkerPc : wpc[r][t] # "dead" /\ Step(r, t, l)
  BY Zenon DEF Worker, LockPong, LockPing, Pong, TaskEnd, TestAlive, CancelInTask, CancelInWait, DieLocked, WorkerPc
<1>2. UNCHANGED <<cancelled, running>>
  BY Zenon DEF Worker, LockPong, LockPing, Pong, TaskEnd, TestAlive, CancelInTask, CancelInWait, DieLocked
<1>3. UNCHANGED supervisor \/ SignalPong(r)
  BY Zenon DEF Worker, LockPong, LockPing, Pong, TaskEnd, TestAlive, CancelInTask, CancelInWait, DieLocked
<1>4. /\ UNCHANGED <<at, started, call>>
      /\ spc' = spc \/ (spc = "timedwait" /\ spc' = "relock")
  BY <1>3, Zenon DEF SignalPong, supervisor
<1> QED
  BY <1>1, <1>2, <1>4, LiveStep, Zenon

(* routine_ping: a thread that waits, if there is one, is woken. *)
LEMMA PingStep == ASSUME RInv, Ping PROVE RInv'
<1>1. /\ spc = "poll" /\ spc' = "sync" /\ self \in Routine
      /\ UNCHANGED <<cancelled, running, at, started>>
  BY SelfType, Zenon DEF RInv, Typed, Ping, self
<1>2. CASE UNCHANGED wpc
  <2>1. started
    BY <1>1, Zenon DEF RInv, Phase
  <2> QED
    BY <1>1, <1>2, <2>1, StayStep, Zenon
<1>3. ASSUME NEW t \in Thread, wpc[self][t] = "wait", Step(self, t, "woken") PROVE RInv'
  <2>1. "woken" \in WorkerPc
    BY Zenon DEF WorkerPc
  <2> QED
    BY <1>1, <1>3, <2>1, LiveStep, Zenon
<1> QED
  BY <1>2, <1>3, Zenon DEF Ping

(* Every step of the supervisor. *)
LEMMA SupervisorStep == ASSUME RInv, Supervisor PROVE RInv'
<1>1. CASE NotDue
  BY <1>1, DoneStep, Zenon DEF NotDue, threads
<1>2. CASE PingRefused
  BY <1>2, FailedStep, Zenon DEF PingRefused, threads, RInv, Phase
<1>3. CASE Ping
  BY <1>3, PingStep, Zenon
<1>4. CASE Create
  BY <1>4, CreateStep, Zenon
<1>5. CASE Sync
  BY <1>5, StayStep, Zenon DEF Sync, threads
<1>6. CASE Timeout
  BY <1>6, StayStep, Zenon DEF Timeout, threads
<1>7. CASE Relock
  <2>1. spc = "relock" /\ call' = call /\ UNCHANGED <<wpc, cancelled, running>>
    BY <1>7, Zenon DEF Relock, threads
  <2>2. CASE spc' = "start_lock" /\ UNCHANGED <<at, started>>
    BY <2>1, <2>2, StayStep, Zenon
  <2>3. CASE Done
    BY <2>1, <2>3, DoneStep, Zenon
  <2>4. CASE call = "ping" /\ PingFailed
    BY <2>1, <2>4, FailedStep, Zenon DEF RInv, Phase
  <2> QED
    BY <1>7, <2>2, <2>3, <2>4, Zenon DEF Relock
<1>8. CASE StartLock
  BY <1>8, DoneStep, Zenon DEF StartLock, threads
<1>9. CASE Stop
  BY <1>9, StopStep, Zenon
<1>10. CASE StopPing
  BY <1>10, StayStep, Zenon DEF StopPing, threads
<1>11. CASE StopPong
  BY <1>11, StayStep, Zenon DEF StopPong, threads
<1> QED
  BY <1>1, <1>2, <1>3, <1>4, <1>5, <1>6, <1>7, <1>8, <1>9, <1>10, <1>11, Zenon DEF Supervisor

-----------------------------------------------------------------------------
(* Every step of all of them. *)
LEMMA RInvStep == RInv /\ [Next]_vars => RInv'
<1> SUFFICES ASSUME RInv, [Next]_vars PROVE RInv'
  OBVIOUS
<1>1. CASE Supervisor
  BY <1>1, SupervisorStep, Zenon
<1>2. ASSUME NEW r \in Routine, BecomeOverdue(r) PROVE RInv'
  BY <1>2, StayStep, Zenon DEF BecomeOverdue, threads, supervisor
<1>3. ASSUME NEW r \in Routine, NEW t \in Thread, Worker(r, t) PROVE RInv'
  BY <1>3, WorkerStep, Zenon
<1>4. CASE UNCHANGED vars
  BY <1>4, StayStep, Zenon DEF vars, threads, supervisor
<1> QED
  BY <1>1, <1>2, <1>3, <1>4, Zenon DEF Next

(* routine_restart: whatever the routines and the policies, however late   *)
(* the answers and however slowly cancelled threads die, the threads of a  *)
(* routine but running_thread have been told to end.                       *)
THEOREM OneLiveThreadAlways == Spec => []OneLiveThread
<1>1. RInv => OneLiveThread
  BY Zenon DEF RInv
<1> QED
  BY <1>1, RInvInit, RInvStep, PTL DEF Spec

-----------------------------------------------------------------------------
(* main and scheduler_main: the loops go on within their routines. *)
LEMMA DoneType ==
  ASSUME at \in 1..Len(Order), Done
  PROVE  at' \in 1..Len(Order) /\ started' \in BOOLEAN /\ spc' \in SupPc
<1>1. at' \in 1..Len(Order)
  BY RoutineAssumption DEF Done
<1>2. started' \in BOOLEAN /\ spc' \in SupPc
  BY Zenon DEF Done, SupPc
<1> QED
  BY <1>1, <1>2, Zenon

(* The same after a ping that failed. *)
LEMMA FailedType ==
  ASSUME TypeOK, PingFailed
  PROVE  at' \in 1..Len(Order) /\ started' \in BOOLEAN /\ spc' \in SupPc
<1>1. CASE Restarts(self)
  BY <1>1, Zenon DEF PingFailed, TypeOK, SupPc
<1>2. CASE ~Restarts(self)
  BY <1>2, DoneType, Zenon DEF PingFailed, TypeOK
<1> QED
  BY <1>1, <1>2, Zenon

(* routine_main: a thread goes to one of its steps. *)
LEMMA StepType ==
  ASSUME TypeOK, NEW r \in Routine, NEW t \in Thread, NEW l \in WorkerPc, Step(r, t, l)
  PROVE  /\ wpc' \in [Routine -> [Thread -> WorkerPc]]
         /\ \A q \in Routine, u \in Thread : wpc'[q][u] = IF q = r /\ u = t THEN l ELSE wpc[q][u]
  BY Zenon DEF Step, TypeOK

(* routine_main: a thread keeps to its steps, and main to its own. *)
LEMMA WorkerType ==
  ASSUME TypeOK, NEW r \in Routine, NEW t \in Thread, Worker(r, t)
  PROVE  TypeOK'
<1>1. PICK l \in WorkerPc : Step(r, t, l)
  BY Zenon DEF Worker, LockPong, LockPing, Pong, TaskEnd, TestAlive, CancelInTask, CancelInWait, DieLocked, WorkerPc
<1>2. wpc' \in [Routine -> [Thread -> WorkerPc]]
  BY <1>1, StepType, Zenon
<1>3. CASE LockPong(r, t)
  BY <1>2, <1>3, Zenon DEF LockPong, Lock, TypeOK, fields, supervisor, history
<1>4. CASE LockPing(r, t) \/ DieLocked(r, t)
  BY <1>2, <1>4, Zenon DEF LockPing, DieLocked, Lock, TypeOK, fields, supervisor, history
<1>5. CASE Pong(r, t)
  <2>1. posting' \in [Routine -> SUBSET Thread]
    BY <1>5 DEF Pong, TypeOK
  <2>2. pong_me' \in [Routine -> BOOLEAN]
    BY <1>5, Zenon DEF Pong, Unlock, TypeOK
  <2>3. stray' \in BOOLEAN
    BY <1>5, Zenon DEF Pong, TypeOK
  <2>4. spc' \in SupPc /\ acked' \in BOOLEAN /\ UNCHANGED <<at, started, call>>
    BY <1>5, Zenon DEF Pong, SignalPong, TypeOK, supervisor, SupPc
  <2> QED
    BY <1>2, <1>5, <2>1, <2>2, <2>3, <2>4, Zenon DEF Pong, TypeOK, fields
<1>6. CASE TaskEnd(r, t)
  <2>1. overdue' \in [Routine -> BOOLEAN] /\ posting' \in [Routine -> SUBSET Thread]
    BY <1>6, Zenon DEF TaskEnd, TypeOK
  <2>2. gathering' = gathering \/ gathering' = [gathering EXCEPT ![r] = t \in posting[r]]
    BY <1>6, Zenon DEF TaskEnd
  <2>3. gathering' \in [Routine -> BOOLEAN]
    <3>1. (t \in posting[r]) \in BOOLEAN
      OBVIOUS
    <3> QED
      BY <2>2, <3>1, Zenon DEF TypeOK
  <2>4. stray' \in BOOLEAN
    BY <1>6, Zenon DEF TaskEnd, TypeOK
  <2> QED
    BY <1>2, <1>6, <2>1, <2>3, <2>4, Zenon DEF TaskEnd, TypeOK, mutexes, supervisor
<1>7. CASE TestAlive(r, t)
  BY <1>2, <1>7, Zenon DEF TestAlive, Unlock, TypeOK, fields, supervisor, history
<1>8. CASE CancelInTask(r, t) \/ CancelInWait(r, t)
  <2>1. posting' \in [Routine -> SUBSET Thread]
    BY <1>8 DEF CancelInTask, CancelInWait, TypeOK
  <2> QED
    BY <1>2, <1>8, <2>1, Zenon DEF CancelInTask, CancelInWait, TypeOK, fields, mutexes, supervisor, history
<1> QED
  BY <1>3, <1>4, <1>5, <1>6, <1>7, <1>8, Zenon DEF Worker

(* main and scheduler_main: so does the supervisor. *)
LEMMA SupervisorType == ASSUME TypeOK, Supervisor PROVE TypeOK'
<1>1. self \in Routine
  BY SelfType, Zenon DEF TypeOK, self
<1>2. CASE NotDue \/ StartLock
  <2>1. at' \in 1..Len(Order) /\ started' \in BOOLEAN /\ spc' \in SupPc
    BY <1>2, DoneType, Zenon DEF NotDue, StartLock, TypeOK
  <2> QED
    BY <1>2, <2>1, Zenon DEF NotDue, StartLock, TypeOK, fields, mutexes, threads, history
<1>3. CASE PingRefused
  <2>1. at' \in 1..Len(Order) /\ started' \in BOOLEAN /\ spc' \in SupPc
    BY <1>3, FailedType, Zenon DEF PingRefused
  <2> QED
    BY <1>3, <2>1, Zenon DEF PingRefused, TypeOK, fields, mutexes, threads, history
<1>4. CASE Ping
  <2>1. wpc' = wpc \/ \E t \in Thread : Step(self, t, "woken")
    BY <1>4, Zenon DEF Ping
  <2>2. wpc' \in [Routine -> [Thread -> WorkerPc]]
    <3>1. "woken" \in WorkerPc
      BY Zenon DEF WorkerPc
    <3> QED
      BY <1>1, <2>1, <3>1, StepType, Zenon DEF TypeOK
  <2> QED
    BY <1>4, <2>2, Zenon DEF Ping, TypeOK, SupPc, fields, mutexes, history
<1>5. CASE Create
  <2>1. /\ wpc' \in [Routine -> [Thread -> WorkerPc]] /\ running' \in [Routine -> Thread]
        /\ cancelled' \in [Routine -> SUBSET Thread]
    BY <1>1, <1>5 DEF Create, Step, TypeOK, WorkerPc
  <2>2. alive' \in [Routine -> BOOLEAN] /\ overdue' \in [Routine -> BOOLEAN]
    BY <1>5, Zenon DEF Create, TypeOK
  <2> QED
    BY <1>5, <2>1, <2>2, Zenon DEF Create, TypeOK, SupPc, mutexes, history
<1>6. CASE Sync \/ StopPing \/ StopPong
  BY <1>6, Zenon DEF Sync, StopPing, StopPong, Unlock, TypeOK, SupPc, fields, threads, history
<1>7. CASE Timeout
  <2>1. late' \in 0..MaxLate
    BY <1>7, RoutineAssumption DEF Timeout, TypeOK
  <2> QED
    BY <1>7, <2>1, Zenon DEF Timeout, TypeOK, SupPc, fields, mutexes, threads
<1>8. CASE Relock
  <2>1. pong_me' \in [Routine -> BOOLEAN]
    BY <1>8, Zenon DEF Relock, Lock, TypeOK
  <2>2. at' \in 1..Len(Order) /\ started' \in BOOLEAN /\ spc' \in SupPc
    BY <1>8, DoneType, FailedType, Zenon DEF Relock, TypeOK, SupPc
  <2> QED
    BY <1>8, <2>1, <2>2, Zenon DEF Relock, TypeOK, fields, threads, history
<1>9. CASE Stop
  <2>1. cancelled' \in [Routine -> SUBSET Thread] /\ alive' \in [Routine -> BOOLEAN]
    BY <1>1, <1>9, Zenon DEF Stop, TypeOK
  <2> QED
    BY <1>9, <2>1, Zenon DEF Stop, TypeOK, SupPc, mutexes, history
<1> QED
  BY <1>2, <1>3, <1>4, <1>5, <1>6, <1>7, <1>8, <1>9, Zenon DEF Supervisor

(* routine.c: every thread is at one of its steps, and the loops stay      *)
(* within their routines, for any number of them.                          *)
THEOREM RoutineTypeCorrect == Spec => []TypeOK
<1>1. Init => TypeOK
  <2>1. (CHOOSE t \in Thread : TRUE) \in Thread /\ 1 \in 1..Len(Order)
    BY RoutineAssumption
  <2>2. Init => wpc \in [Routine -> [Thread -> WorkerPc]] /\ running \in [Routine -> Thread]
    BY <2>1 DEF Init, WorkerPc
  <2>3. Init => /\ posting \in [Routine -> SUBSET Thread] /\ cancelled \in [Routine -> SUBSET Thread]
                /\ late \in 0..MaxLate /\ at \in 1..Len(Order) /\ spc \in SupPc
    BY <2>1, RoutineAssumption DEF Init, SupPc
  <2> QED
    BY <2>2, <2>3, Zenon DEF Init, TypeOK
<1>2. TypeOK /\ [Next]_vars => TypeOK'
  <2> SUFFICES ASSUME TypeOK, [Next]_vars PROVE TypeOK'
    OBVIOUS
  <2>1. ASSUME NEW r \in Routine, BecomeOverdue(r) PROVE TypeOK'
    BY <2>1, Zenon DEF BecomeOverdue, TypeOK, mutexes, threads, supervisor, history
  <2>2. CASE UNCHANGED vars
    BY <2>2, Zenon DEF vars, TypeOK, fields, mutexes, threads, supervisor, history
  <2> QED
    BY <2>1, <2>2, SupervisorType, WorkerType, Zenon DEF Next
<1> QED
  BY <1>1, <1>2, PTL DEF Spec

(* What the following proofs start from. *)
Base == TypeOK /\ RInv

(* routine.c: the types and the inductive invariant hold together. *)
LEMMA BaseAlways == Spec => []Base
<1>1. TypeOK /\ RInv => Base
  BY Zenon DEF Base
<1> QED
  BY <1>1, RoutineTypeCorrect, RInvInit, RInvStep, PTL DEF Spec

-----------------------------------------------------------------------------
(* Only the task of a plugin posts. *)
PostsInTask == \A r \in Routine : \A t \in posting[r] : wpc[r][t] = "task" /\ Policy[r] = "gather"

(* A thread that posts was not told to end, and the task is not to gather. *)
PostsKnown == stray \/ \A r \in Routine : \A t \in posting[r] : t \notin cancelled[r] /\ ~gathering[r]

(* A thread that does not begin a task unless it is pinged *)
Resting == {"test", "wait", "cancel", "dead"}

(* From the decision to restart a plugin on, it does not post. *)
Decided ==
  stray \/ (spc = "stop" =>
              /\ posting[self] = {}
              /\ Policy[self] # "gather" \/ gathering[self] \/ wpc[self][running[self]] \in Resting)

PInv == PostsInTask /\ PostsKnown /\ Decided

(* routine_main: a thread goes on outside of its task. *)
LEMMA PostsQuiet ==
  ASSUME Base, PInv, NEW r \in Routine, NEW t \in Thread, NEW l \in WorkerPc,
         wpc[r][t] # "task", Step(r, t, l), wpc[r][t] \in Resting => l \in Resting,
         UNCHANGED <<posting, cancelled, gathering, stray, running, at>>, spc' = "stop" => spc = "stop"
  PROVE  PInv'
<1>1. \A q \in Routine, u \in Thread : wpc'[q][u] = IF q = r /\ u = t THEN l ELSE wpc[q][u]
  BY StepType DEF Base
<1>2. PostsInTask'
  <2>1. ASSUME NEW q \in Routine, NEW u \in posting[q] PROVE wpc'[q][u] = "task" /\ Policy[q] = "gather"
    <3>1. u \in Thread
      BY Zenon DEF Base, TypeOK
    <3>2. wpc[q][u] = "task" /\ Policy[q] = "gather"
      BY Zenon DEF PInv, PostsInTask
    <3> QED
      BY <1>1, <3>1, <3>2, Zenon
  <2> QED
    BY <2>1, Zenon DEF PostsInTask
<1>3. PostsKnown'
  BY Zenon DEF PInv, PostsKnown
<1>4. self' = self /\ self \in Routine /\ running[self] \in Thread
  BY SelfType, Zenon DEF self, Base, TypeOK
<1>5. Decided'
  <2> SUFFICES ASSUME ~stray, spc = "stop"
               PROVE  /\ posting[self] = {}
                      /\ Policy[self] # "gather" \/ gathering[self] \/ wpc'[self][running[self]] \in Resting
    BY <1>4, Zenon DEF Decided
  <2>1. /\ posting[self] = {}
        /\ Policy[self] # "gather" \/ gathering[self] \/ wpc[self][running[self]] \in Resting
    BY Zenon DEF PInv, Decided
  <2>2. wpc[self][running[self]] \in Resting => wpc'[self][running[self]] \in Resting
    BY <1>1, <1>4, Zenon
  <2> QED
    BY <2>1, <2>2, Zenon
<1> QED
  BY <1>2, <1>3, <1>5, Zenon DEF PInv

(* routine_main: a thread begins its task. *)
LEMMA PostsBegin ==
  ASSUME Base, PInv, NEW r \in Routine, NEW t \in Thread, wpc[r][t] = "signal", Pong(r, t)
  PROVE  PInv'
<1>1. /\ Step(r, t, "task") /\ UNCHANGED <<cancelled, running, gathering>>
      /\ posting' = IF Posts(r) THEN [posting EXCEPT ![r] = @ \cup {t}] ELSE posting
      /\ stray' = (stray \/ t \in cancelled[r]) /\ SignalPong(r)
  BY Zenon DEF Pong, fields
<1>2. "task" \in WorkerPc
  BY Zenon DEF WorkerPc
<1>3. \A q \in Routine, u \in Thread : wpc'[q][u] = IF q = r /\ u = t THEN "task" ELSE wpc[q][u]
  BY <1>1, <1>2, StepType DEF Base
<1>4. \A q \in Routine : \A u \in posting'[q] : u \in posting[q] \/ (q = r /\ u = t /\ Posts(r))
  BY <1>1, Zenon DEF Base, TypeOK
<1>5. PostsInTask'
  BY <1>3, <1>4 DEF PInv, PostsInTask, Posts, Base, TypeOK
<1>6. (stray => stray') /\ (~stray' => t \notin cancelled[r] /\ ~stray)
  BY <1>1, Zenon
<1>7. PostsKnown'
  <2> SUFFICES ASSUME ~stray', NEW q \in Routine, NEW u \in posting'[q]
               PROVE  u \notin cancelled[q] /\ ~gathering[q]
    BY <1>1, Zenon DEF PostsKnown
  <2>1. CASE u \in posting[q]
    BY <1>6, <2>1, Zenon DEF PInv, PostsKnown
  <2>2. CASE q = r /\ u = t /\ Posts(r)
    BY <1>6, <2>2, Zenon DEF Posts
  <2> QED
    BY <1>4, <2>1, <2>2, Zenon
<1>8. at' = at /\ (spc' = "stop" => spc = "stop")
  BY <1>1, Zenon DEF SignalPong, supervisor
<1>9. self' = self /\ self \in Routine /\ running[self] \in Thread
  BY <1>8, SelfType, Zenon DEF self, Base, TypeOK
<1>10. Decided'
  <2> SUFFICES ASSUME ~stray', spc = "stop"
               PROVE  /\ posting'[self] = {}
                      /\ Policy[self] # "gather" \/ gathering[self] \/ wpc'[self][running[self]] \in Resting
    BY <1>1, <1>8, <1>9, Zenon DEF Decided
  <2>1. /\ posting[self] = {}
        /\ Policy[self] # "gather" \/ gathering[self] \/ wpc[self][running[self]] \in Resting
    BY <1>6, Zenon DEF PInv, Decided
  <2>2. t = running[r]
    BY <1>6, Zenon DEF Base, RInv, OneLiveThread
  <2>3. CASE self # r
    BY <1>1, <1>3, <1>9, <2>1, <2>3, Zenon DEF Base, TypeOK
  <2>4. CASE self = r
    BY <1>1, <1>9, <2>1, <2>2, <2>4, Zenon DEF Resting, Posts
  <2> QED
    BY <2>3, <2>4, Zenon
<1> QED
  BY <1>5, <1>7, <1>10, Zenon DEF PInv

(* routine_main: a task ends, as it should or by cancellation. *)
LEMMA PostsEnd ==
  ASSUME Base, PInv, NEW r \in Routine, NEW t \in Thread, TaskEnd(r, t) \/ CancelInTask(r, t)
  PROVE  PInv'
<1>1. PICK l \in {"test", "dead"} : Step(r, t, l)
  BY Zenon DEF TaskEnd, CancelInTask
<1>2. /\ wpc[r][t] = "task" /\ UNCHANGED <<cancelled, running, spc, at>>
      /\ posting' = [posting EXCEPT ![r] = @ \ {t}]
  BY Zenon DEF TaskEnd, CancelInTask, supervisor
<1>3. \/ gathering' = gathering /\ stray' = stray
      \/ /\ gathering' = [gathering EXCEPT ![r] = t \in posting[r]]
         /\ stray' = (stray \/ (gathering' # gathering /\ t \in cancelled[r]))
  BY Zenon DEF TaskEnd, CancelInTask, fields, history
<1>4. stray => stray'
  BY <1>3, Zenon
<1>5. l \in WorkerPc /\ l \in Resting
  BY Zenon DEF WorkerPc, Resting
<1>6. \A q \in Routine, u \in Thread : wpc'[q][u] = IF q = r /\ u = t THEN l ELSE wpc[q][u]
  BY <1>1, <1>5, StepType DEF Base
<1>7. \A q \in Routine : posting'[q] = IF q = r THEN posting[q] \ {t} ELSE posting[q]
  BY <1>2, Zenon DEF Base, TypeOK
<1>8. \A q \in Routine : posting[q] \subseteq Thread
  BY Zenon DEF Base, TypeOK
<1>9. PostsInTask'
  <2>1. ASSUME NEW q \in Routine, NEW u \in posting'[q] PROVE wpc'[q][u] = "task" /\ Policy[q] = "gather"
    <3>1. u \in posting[q] /\ u \in Thread /\ ~(q = r /\ u = t)
      BY <1>7, <1>8, Zenon
    <3>2. wpc[q][u] = "task" /\ Policy[q] = "gather"
      BY <3>1, Zenon DEF PInv, PostsInTask
    <3> QED
      BY <1>6, <3>1, <3>2, Zenon
  <2> QED
    BY <2>1, Zenon DEF PostsInTask
<1>10. ASSUME ~stray', gathering' # gathering
       PROVE  /\ t = running[r] /\ posting'[r] = {}
              /\ \A q \in Routine : q # r => gathering'[q] = gathering[q]
  <2>1. t \notin cancelled[r] /\ ~stray
    BY <1>3, <1>4, <1>10, Zenon
  <2>2. t = running[r]
    BY <1>2, <2>1, Zenon DEF Base, RInv, OneLiveThread
  <2>3. \A u \in posting[r] : u = running[r]
    <3>1. \A u \in posting[r] : wpc[r][u] = "task" /\ u \notin cancelled[r]
      BY <2>1, Zenon DEF PInv, PostsInTask, PostsKnown
    <3> QED
      BY <1>8, <3>1, Zenon DEF Base, RInv, OneLiveThread
  <2>4. gathering' = [gathering EXCEPT ![r] = t \in posting[r]]
    BY <1>3, <1>10, Zenon
  <2> QED
    BY <1>7, <2>2, <2>3, <2>4, Zenon DEF Base, TypeOK
<1>11. PostsKnown'
  <2> SUFFICES ASSUME ~stray', NEW q \in Routine, NEW u \in posting'[q]
               PROVE  u \notin cancelled[q] /\ ~gathering'[q]
    BY <1>2, Zenon DEF PostsKnown
  <2>1. u \in posting[q]
    BY <1>7, Zenon
  <2>2. u \notin cancelled[q] /\ ~gathering[q]
    BY <1>4, <2>1, Zenon DEF PInv, PostsKnown
  <2>3. gathering'[q] = gathering[q]
    BY <1>10, Zenon
  <2> QED
    BY <2>2, <2>3, Zenon
<1>12. self' = self /\ self \in Routine /\ running[self] \in Thread
  BY <1>2, SelfType, Zenon DEF self, Base, TypeOK
<1>13. Decided'
  <2> SUFFICES ASSUME ~stray', spc = "stop"
               PROVE  /\ posting'[self] = {}
                      /\ Policy[self] # "gather" \/ gathering'[self] \/ wpc'[self][running[self]] \in Resting
    BY <1>2, <1>12, Zenon DEF Decided
  <2>1. /\ posting[self] = {}
        /\ Policy[self] # "gather" \/ gathering[self] \/ wpc[self][running[self]] \in Resting
    BY <1>4, Zenon DEF PInv, Decided
  <2>2. posting'[self] = {}
    BY <1>7, <1>12, <2>1, Zenon
  <2>3. CASE self = r /\ gathering' # gathering
    BY <1>5, <1>6, <1>10, <1>12, <2>2, <2>3, Zenon
  <2>4. CASE self # r \/ gathering' = gathering
    <3>1. gathering'[self] = gathering[self]
      BY <1>10, <1>12, <2>4, Zenon
    <3>2. wpc[self][running[self]] \in Resting => wpc'[self][running[self]] \in Resting
      BY <1>5, <1>6, <1>12, Zenon
    <3> QED
      BY <2>1, <2>2, <3>1, <3>2, Zenon
  <2> QED
    BY <2>3, <2>4, Zenon
<1> QED
  BY <1>9, <1>11, <1>13, Zenon DEF PInv

(* main and scheduler_main: the supervisor goes on, and if it is about to  *)
(* stop a routine it has just seen that this one does not post.            *)
LEMMA PostsIdle ==
  ASSUME Base, PInv, UNCHANGED <<wpc, posting, cancelled, gathering, stray, running>>,
         \/ spc' # "stop"
         \/ spc' = "stop" /\ Restarts(self) /\ at' = at
         \/ spc' = spc /\ at' = at
  PROVE  PInv'
<1>1. PostsInTask' /\ PostsKnown'
  BY Zenon DEF PInv, PostsInTask, PostsKnown
<1>2. ASSUME spc' # "stop" PROVE Decided'
  BY <1>2, Zenon DEF Decided
<1>3. ASSUME spc' = spc, at' = at PROVE Decided'
  <2>1. self' = self
    BY <1>3, Zenon DEF self
  <2> QED
    BY <1>3, <2>1, Zenon DEF PInv, Decided
<1>4. ASSUME spc' = "stop", Restarts(self), at' = at PROVE Decided'
  <2>1. self' = self /\ self \in Routine
    BY <1>4, SelfType, Zenon DEF self, Base, TypeOK
  <2>2. CASE Policy[self] = "always"
    <3>1. posting[self] = {}
      BY <2>1, <2>2, Zenon DEF PInv, PostsInTask
    <3> QED
      BY <2>1, <2>2, <3>1, Zenon DEF Decided
  <2>3. CASE Policy[self] = "gather" /\ gathering[self]
    <3>1. ~stray => posting[self] = {}
      BY <2>1, <2>3, Zenon DEF PInv, PostsKnown
    <3> QED
      BY <2>1, <2>3, <3>1, Zenon DEF Decided
  <2> QED
    BY <1>4, <2>2, <2>3, Zenon DEF Restarts
<1> QED
  BY <1>1, <1>2, <1>3, <1>4, Zenon DEF PInv

(* Only a routine that may be restarted is stopped. *)
LEMMA FailedOnward ==
  ASSUME Done \/ PingFailed
  PROVE  spc' # "stop" \/ (spc' = "stop" /\ Restarts(self) /\ at' = at)
  BY Zenon DEF Done, PingFailed

(* routine_start: the thread it creates does not post yet. *)
LEMMA PostsCreate == ASSUME Base, PInv, Create PROVE PInv'
<1>1. self \in Routine
  BY SelfType, Zenon DEF self, Base, TypeOK
<1>2. PICK t \in Thread :
        /\ wpc[self][t] = "dead" /\ Step(self, t, "lock_pong0")
        /\ cancelled' = [cancelled EXCEPT ![self] = @ \ {t}]
  BY Zenon DEF Create
<1>3. spc' = "sync" /\ UNCHANGED <<posting, gathering, stray>>
  BY Zenon DEF Create, history
<1>4. \A q \in Routine, u \in Thread : wpc'[q][u] = IF q = self /\ u = t THEN "lock_pong0" ELSE wpc[q][u]
  <2>1. "lock_pong0" \in WorkerPc
    BY Zenon DEF WorkerPc
  <2> QED
    BY <1>1, <1>2, <2>1, StepType DEF Base
<1>5. \A q \in Routine : cancelled'[q] \subseteq cancelled[q] /\ posting[q] \subseteq Thread
  BY <1>1, <1>2, Zenon DEF Base, TypeOK
<1>6. PostsInTask'
  <2>1. ASSUME NEW q \in Routine, NEW u \in posting[q] PROVE wpc'[q][u] = "task" /\ Policy[q] = "gather"
    <3>1. wpc[q][u] = "task" /\ Policy[q] = "gather"
      BY Zenon DEF PInv, PostsInTask
    <3> QED
      BY <1>2, <1>4, <1>5, <3>1, Zenon
  <2> QED
    BY <1>3, <2>1, Zenon DEF PostsInTask
<1>7. PostsKnown'
  <2>1. ASSUME ~stray, NEW q \in Routine, NEW u \in posting[q] PROVE u \notin cancelled'[q] /\ ~gathering[q]
    <3>1. u \notin cancelled[q] /\ ~gathering[q]
      BY <2>1, Zenon DEF PInv, PostsKnown
    <3> QED
      BY <1>5, <3>1, Zenon
  <2> QED
    BY <1>3, <2>1, Zenon DEF PostsKnown
<1>8. Decided'
  BY <1>3, Zenon DEF Decided
<1> QED
  BY <1>6, <1>7, <1>8, Zenon DEF PInv

(* routine_stop: the thread it cancels does not post. *)
LEMMA PostsStop == ASSUME Base, PInv, Stop PROVE PInv'
<1>1. self \in Routine
  BY SelfType, Zenon DEF self, Base, TypeOK
<1>2. /\ spc = "stop" /\ spc' = "stop_ping" /\ UNCHANGED <<wpc, posting, gathering, stray>>
      /\ cancelled' = [cancelled EXCEPT ![self] = @ \cup {running[self]}]
  BY Zenon DEF Stop, history
<1>3. ~stray => posting[self] = {}
  BY <1>2, Zenon DEF PInv, Decided
<1>4. \A q \in Routine : q # self => cancelled'[q] = cancelled[q]
  BY <1>1, <1>2, Zenon DEF Base, TypeOK
<1>5. PostsKnown'
  <2>1. ASSUME ~stray, NEW q \in Routine, NEW u \in posting[q] PROVE u \notin cancelled'[q] /\ ~gathering[q]
    <3>1. u \notin cancelled[q] /\ ~gathering[q]
      BY <2>1, Zenon DEF PInv, PostsKnown
    <3>2. q # self
      BY <1>3, <2>1, Zenon
    <3> QED
      BY <1>4, <3>1, <3>2, Zenon
  <2> QED
    BY <1>2, <2>1, Zenon DEF PostsKnown
<1>6. PostsInTask'
  BY <1>2, Zenon DEF PInv, PostsInTask
<1>7. Decided'
  BY <1>2, Zenon DEF Decided
<1> QED
  BY <1>5, <1>6, <1>7, Zenon DEF PInv

(* Every step of a thread in routine_main. *)
LEMMA PostsWorker ==
  ASSUME Base, PInv, NEW r \in Routine, NEW t \in Thread, Worker(r, t)
  PROVE  PInv'
<1>1. CASE TaskEnd(r, t) \/ CancelInTask(r, t)
  BY <1>1, PostsEnd, Zenon
<1>2. CASE wpc[r][t] = "signal" /\ Pong(r, t)
  BY <1>2, PostsBegin, Zenon
<1>3. CASE wpc[r][t] # "signal" /\ Pong(r, t)
  <2>1. /\ wpc[r][t] = "signal0" /\ Step(r, t, "test") /\ SignalPong(r)
        /\ UNCHANGED <<posting, cancelled, gathering, stray, running>>
    BY <1>3, Zenon DEF Pong, fields
  <2>2. at' = at /\ (spc' = "stop" => spc = "stop")
    BY <2>1, Zenon DEF SignalPong, supervisor
  <2>3. "test" \in WorkerPc /\ wpc[r][t] # "task" /\ wpc[r][t] \notin Resting
    BY <2>1, Zenon DEF WorkerPc, Resting
  <2> QED
    BY <2>1, <2>2, <2>3, PostsQuiet, Zenon
<1>4. CASE LockPong(r, t) \/ LockPing(r, t) \/ TestAlive(r, t) \/ CancelInWait(r, t) \/ DieLocked(r, t)
  <2>1. PICK l \in WorkerPc : /\ wpc[r][t] # "task" /\ Step(r, t, l)
                              /\ wpc[r][t] \in Resting => l \in Resting
    BY <1>4, Zenon DEF LockPong, LockPing, TestAlive, CancelInWait, DieLocked, WorkerPc, Resting
  <2>2. UNCHANGED <<posting, cancelled, gathering, stray, running, at, spc>>
    BY <1>4, Zenon DEF LockPong, LockPing, TestAlive, CancelInWait, DieLocked, fields, supervisor, history
  <2> QED
    BY <2>1, <2>2, PostsQuiet, Zenon
<1> QED
  BY <1>1, <1>2, <1>3, <1>4, Zenon DEF Worker

(* Every step of the supervisor. *)
LEMMA PostsSupervisor == ASSUME Base, PInv, Supervisor PROVE PInv'
<1>1. CASE NotDue \/ StartLock \/ PingRefused \/ Relock
  <2>1. UNCHANGED <<wpc, posting, cancelled, gathering, stray, running>>
    BY <1>1, Zenon DEF NotDue, StartLock, PingRefused, Relock, threads, fields, history
  <2>2. Done \/ PingFailed \/ spc' = "start_lock"
    BY <1>1, Zenon DEF NotDue, StartLock, PingRefused, Relock
  <2>3. spc' # "stop" \/ (spc' = "stop" /\ Restarts(self) /\ at' = at)
    BY <2>2, FailedOnward, Zenon
  <2> QED
    BY <2>1, <2>3, PostsIdle, Zenon
<1>2. CASE Ping
  <2>1. UNCHANGED <<posting, cancelled, gathering, stray, running, at>> /\ spc' = "sync"
    BY <1>2, Zenon DEF Ping, fields, history
  <2>2. CASE UNCHANGED wpc
    BY <2>1, <2>2, PostsIdle, Zenon
  <2>3. ASSUME NEW t \in Thread, wpc[self][t] = "wait", Step(self, t, "woken") PROVE PInv'
    <3>1. self \in Routine
      BY SelfType, Zenon DEF self, Base, TypeOK
    <3>2. \A q \in Routine, u \in Thread : wpc'[q][u] = IF q = self /\ u = t THEN "woken" ELSE wpc[q][u]
      <4>1. "woken" \in WorkerPc
        BY Zenon DEF WorkerPc
      <4> QED
        BY <2>3, <3>1, <4>1, StepType DEF Base
    <3>3. ASSUME NEW q \in Routine, NEW u \in posting[q] PROVE wpc'[q][u] = "task" /\ Policy[q] = "gather"
      <4>1. wpc[q][u] = "task" /\ Policy[q] = "gather" /\ u \in Thread
        BY Zenon DEF PInv, PostsInTask, Base, TypeOK
      <4> QED
        BY <2>3, <3>2, <4>1, Zenon
    <3>4. PostsInTask'
      BY <2>1, <3>3, Zenon DEF PostsInTask
    <3>5. PostsKnown'
      BY <2>1, Zenon DEF PInv, PostsKnown
    <3>6. Decided'
      BY <2>1, Zenon DEF Decided
    <3> QED
      BY <3>4, <3>5, <3>6, Zenon DEF PInv
  <2> QED
    BY <1>2, <2>2, <2>3, Zenon DEF Ping
<1>3. CASE Sync \/ Timeout \/ StopPing \/ StopPong
  BY <1>3, PostsIdle, Zenon DEF Sync, Timeout, StopPing, StopPong, threads, fields, history
<1> QED
  BY <1>1, <1>2, <1>3, PostsCreate, PostsStop, Zenon DEF Supervisor

(* scheduler_main and plugin_regr: for any number of plugins, threads and  *)
(* late handshakes, no thread is told to end while it posts, unless one    *)
(* that was told to end before meddled with the task.                      *)
THEOREM PostSparedAlways == Spec => []PostSpared
<1>1. Init => PInv
  BY Zenon DEF Init, PInv, PostsInTask, PostsKnown, Decided
<1>2. Base /\ PInv /\ [Next]_vars => PInv'
  <2> SUFFICES ASSUME Base, PInv, [Next]_vars PROVE PInv'
    OBVIOUS
  <2>1. ASSUME NEW r \in Routine, BecomeOverdue(r) PROVE PInv'
    BY <2>1, PostsIdle, Zenon DEF BecomeOverdue, threads, supervisor, history
  <2>2. CASE UNCHANGED vars
    BY <2>2, PostsIdle, Zenon DEF vars, fields, threads, supervisor, history
  <2> QED
    BY <2>1, <2>2, PostsSupervisor, PostsWorker, Zenon DEF Next
<1>3. PInv => PostSpared
  <2>1. PInv => stray \/ \A r \in Routine : \A t \in posting[r] : t \notin cancelled[r]
    BY Zenon DEF PInv, PostsKnown
  <2> QED
    BY <2>1, Zenon DEF PostSpared
<1> QED
  BY <1>1, <1>2, <1>3, BaseAlways, PTL DEF Spec

-----------------------------------------------------------------------------
(* The supervisor has no hand in what happens to the routine. *)
Away(r) == self = r => spc = "poll"

(* A wedged routine stays wedged when neither its threads nor its mutexes  *)
(* are touched.                                                            *)
LEMMA WedgeKept ==
  ASSUME NEW r \in Routine, Wedged(r), ~Restarts(r), Away(r)',
         wpc'[r] = wpc[r], ping_me'[r], pong_me'[r], gathering'[r] = gathering[r]
  PROVE  Wedged(r)' /\ ~Restarts(r)'
<1>1. PICK t \in Thread : wpc[r][t] = "lock_pong" /\ \A u \in Thread \ {t} : wpc[r][u] = "dead"
  BY Zenon DEF Wedged
<1>2. Wedged(r)'
  BY <1>1, Zenon DEF Wedged, Away
<1>3. ~Restarts(r)'
  BY Zenon DEF Restarts
<1> QED
  BY <1>2, <1>3, Zenon

(* routine_main: the threads of a wedged routine do not move, and those of *)
(* the others do not touch it.                                             *)
LEMMA WedgeWorker ==
  ASSUME Base, NEW r \in Routine, Wedged(r), ~Restarts(r),
         NEW q \in Routine, NEW t \in Thread, Worker(q, t)
  PROVE  Wedged(r)' /\ ~Restarts(r)'
<1>1. q # r
  <2> SUFFICES ASSUME q = r PROVE FALSE
    OBVIOUS
  <2>1. (wpc[r][t] = "dead" \/ wpc[r][t] = "lock_pong") /\ pong_me[r]
    BY Zenon DEF Wedged
  <2> QED
    BY <2>1, Zenon DEF Worker, LockPong, LockPing, Pong, TaskEnd, TestAlive, CancelInTask, CancelInWait, DieLocked, Lock
<1>2. PICK l \in WorkerPc : Step(q, t, l)
  BY Zenon DEF Worker, LockPong, LockPing, Pong, TaskEnd, TestAlive, CancelInTask, CancelInWait, DieLocked, WorkerPc
<1>3. wpc'[r] = wpc[r]
  BY <1>1, <1>2, Zenon DEF Step, Base, TypeOK
<1>4. ping_me'[r] = ping_me[r] /\ pong_me'[r] = pong_me[r]
  BY <1>1, Zenon DEF Worker, LockPong, LockPing, Pong, TaskEnd, TestAlive, CancelInTask, CancelInWait, DieLocked,
              Lock, Unlock, mutexes, Base, TypeOK
<1>5. gathering' = gathering \/ gathering' = [gathering EXCEPT ![q] = t \in posting[q]]
  BY Zenon DEF Worker, LockPong, LockPing, Pong, TaskEnd, TestAlive, CancelInTask, CancelInWait, DieLocked, fields
<1>6. gathering'[r] = gathering[r]
  BY <1>1, <1>5, Zenon DEF Base, TypeOK
<1>7. UNCHANGED supervisor \/ SignalPong(q)
  BY Zenon DEF Worker, LockPong, LockPing, Pong, TaskEnd, TestAlive, CancelInTask, CancelInWait, DieLocked
<1>8. Away(r)'
  <2>1. at' = at /\ (spc' = spc \/ (spc' = "relock" /\ self = q))
    BY <1>7, Zenon DEF SignalPong, supervisor, self
  <2>2. self' = self
    BY <2>1, Zenon DEF self
  <2> QED
    BY <1>1, <2>1, <2>2, Zenon DEF Away, Wedged
<1>9. ping_me[r] /\ pong_me[r]
  BY Zenon DEF Wedged
<1> QED
  BY <1>3, <1>4, <1>6, <1>8, <1>9, WedgeKept, Zenon

(* main and scheduler_main: when the supervisor comes back to a wedged     *)
(* routine, it comes to ping it.                                           *)
LEMMA WedgeDone ==
  ASSUME Base, RInv', NEW r \in Routine, Wedged(r), Done, wpc' = wpc
  PROVE  Away(r)'
<1> SUFFICES ASSUME self' = r, spc' # "poll" PROVE FALSE
  BY Zenon DEF Away
<1>1. ~started' /\ spc' = "create"
  BY Zenon DEF Done
<1>2. at' \in at'..Len(Order)
  BY RoutineAssumption DEF RInv, Typed
<1>3. \A t \in Thread : wpc'[Order[at']][t] = "dead"
  BY <1>1, <1>2, Zenon DEF RInv, Fresh
<1>4. r = Order[at']
  BY Zenon DEF self
<1> QED
  BY <1>3, <1>4, Zenon DEF Wedged

(* main and scheduler_main: the supervisor finds ping_me of a wedged       *)
(* routine locked, and leaves it there unless it may restart the routine.  *)
LEMMA WedgeSupervisor ==
  ASSUME Base, RInv', NEW r \in Routine, Wedged(r), ~Restarts(r), Supervisor
  PROVE  Wedged(r)' /\ ~Restarts(r)'
<1>1. ping_me[r] /\ pong_me[r] /\ (self = r => spc = "poll") /\ self \in Routine
  BY SelfType, Zenon DEF Wedged, self, Base, TypeOK
<1>2. CASE NotDue \/ StartLock \/ PingRefused \/ Relock
  <2>1. wpc' = wpc /\ gathering' = gathering /\ ping_me' = ping_me
    BY <1>2, Zenon DEF NotDue, StartLock, PingRefused, Relock, threads, fields, mutexes
  <2>2. pong_me'[r]
    BY <1>1, <1>2, Zenon DEF NotDue, StartLock, PingRefused, Relock, mutexes, Lock, Base, TypeOK
  <2>3. Done \/ (at' = at /\ self # r)
    BY <1>1, <1>2, Zenon DEF NotDue, StartLock, PingRefused, Relock, PingFailed
  <2>4. Away(r)'
    BY <2>1, <2>3, WedgeDone, Zenon DEF Away, self
  <2> QED
    BY <1>1, <2>1, <2>2, <2>4, WedgeKept, Zenon
<1>3. CASE Ping \/ Create \/ Sync \/ Timeout \/ Stop \/ StopPing \/ StopPong
  <2>1. self # r /\ at' = at
    BY <1>1, <1>3, Zenon DEF Ping, Create, Sync, Timeout, Stop, StopPing, StopPong
  <2>2. ping_me'[r] = ping_me[r] /\ pong_me'[r] = pong_me[r]
    BY <2>1, <1>3, <1>1, Zenon DEF Ping, Create, Sync, Timeout, Stop, StopPing, StopPong, Unlock, mutexes, Base, TypeOK
  <2>3. wpc' = wpc \/ \E t \in Thread, l \in WorkerPc : Step(self, t, l)
    BY <1>3, Zenon DEF Ping, Create, Sync, Timeout, Stop, StopPing, StopPong, threads, WorkerPc
  <2>4. wpc'[r] = wpc[r]
    BY <1>1, <2>1, <2>3, Zenon DEF Step, Base, TypeOK
  <2>5. gathering' = gathering
    BY <1>3, Zenon DEF Ping, Create, Sync, Timeout, Stop, StopPing, StopPong, fields
  <2>6. Away(r)'
    BY <2>1, Zenon DEF Away, self
  <2> QED
    BY <1>1, <2>2, <2>4, <2>5, <2>6, WedgeKept, Zenon
<1> QED
  BY <1>2, <1>3, Zenon DEF Supervisor

(* routine_ping and routine_sync: for any routines and threads, a routine  *)
(* that is wedged and is not restarted stays so.                           *)
THEOREM WedgedForGoodAlways == Spec => WedgedForGood
<1>1. Base /\ [Next]_vars
        => [\A r \in Routine : Wedged(r) /\ ~Restarts(r) => Wedged(r)' /\ ~Restarts(r)']_vars
  <2> SUFFICES ASSUME Base, Next, NEW r \in Routine, Wedged(r), ~Restarts(r)
               PROVE  Wedged(r)' /\ ~Restarts(r)'
    BY Zenon
  <2>1. RInv'
    BY RInvStep, Zenon DEF Base
  <2>2. ASSUME NEW q \in Routine, BecomeOverdue(q) PROVE Wedged(r)' /\ ~Restarts(r)'
    <3>1. UNCHANGED <<wpc, ping_me, pong_me, gathering, spc, at>>
      BY <2>2, Zenon DEF BecomeOverdue, mutexes, threads, supervisor
    <3>2. Away(r)' /\ ping_me[r] /\ pong_me[r]
      BY <3>1, Zenon DEF Away, Wedged, self
    <3> QED
      BY <3>1, <3>2, WedgeKept, Zenon
  <2> QED
    BY <2>1, <2>2, WedgeSupervisor, WedgeWorker, Zenon DEF Next
<1> QED
  BY <1>1, BaseAlways, PTL DEF Spec, WedgedForGood

-----------------------------------------------------------------------------
(* The supervisor is between routine_stop and routine_start. *)
Restarting(r) == self = r /\ spc \in {"stop_ping", "stop_pong", "create"}

(* Only a thread that was told to end is cancelled. *)
CancelKnown == \A r \in Routine, t \in Thread : wpc[r][t] = "cancel" => t \in cancelled[r]

(* A routine that was started and is not being restarted has a thread that *)
(* lives and was not told to end.                                          *)
Lives(r) == alive[r] /\ wpc[r][running[r]] # "dead" /\ running[r] \notin cancelled[r]
Living ==
  \A r \in Routine : (\A t \in Thread : wpc[r][t] = "dead") \/ Restarting(r) \/ Lives(r)

(* While the supervisor waits in routine_sync, pong_me is taken only by a  *)
(* thread that is about to signal.                                         *)
Held ==
  spc = "timedwait" /\ pong_me[self]
    => \E t \in Thread : wpc[self][t] \in {"lock_ping0", "signal0", "signal"}

KInv == CancelKnown /\ Living /\ Held

(* routine_main: a thread takes a step, the others do not; it leaves the   *)
(* other routines alone, and the supervisor unless it signals it.          *)
LEMMA WorkerFrame ==
  ASSUME Base, NEW r \in Routine, NEW t \in Thread, Worker(r, t)
  PROVE  /\ wpc[r][t] # "dead"
         /\ \A q \in Routine, u \in Thread : ~(q = r /\ u = t) => wpc'[q][u] = wpc[q][u]
         /\ \A q \in Routine : q # r => ping_me'[q] = ping_me[q] /\ pong_me'[q] = pong_me[q]
         /\ UNCHANGED <<alive, cancelled, running, late, at, self>>
         /\ spc' = spc \/ (spc = "timedwait" /\ spc' = "relock" /\ self = r)
<1>1. PICK l \in WorkerPc : wpc[r][t] # "dead" /\ Step(r, t, l)
  BY Zenon DEF Worker, LockPong, LockPing, Pong, TaskEnd, TestAlive, CancelInTask, CancelInWait, DieLocked, WorkerPc
<1>2. \A q \in Routine, u \in Thread : ~(q = r /\ u = t) => wpc'[q][u] = wpc[q][u]
  BY <1>1, StepType DEF Base
<1>3. \A q \in Routine : q # r => ping_me'[q] = ping_me[q] /\ pong_me'[q] = pong_me[q]
  BY Zenon DEF Worker, LockPong, LockPing, Pong, TaskEnd, TestAlive, CancelInTask, CancelInWait, DieLocked,
         Lock, Unlock, mutexes, Base, TypeOK
<1>4. UNCHANGED <<alive, cancelled, running, late>>
  BY Zenon DEF Worker, LockPong, LockPing, Pong, TaskEnd, TestAlive, CancelInTask, CancelInWait, DieLocked,
               fields, history
<1>5. UNCHANGED supervisor \/ SignalPong(r)
  BY Zenon DEF Worker, LockPong, LockPing, Pong, TaskEnd, TestAlive, CancelInTask, CancelInWait, DieLocked
<1>6. at' = at /\ (spc' = spc \/ (spc = "timedwait" /\ spc' = "relock" /\ self = r))
  BY <1>5, Zenon DEF SignalPong, supervisor, self
<1>7. self' = self
  BY <1>6, Zenon DEF self
<1> QED
  BY <1>1, <1>2, <1>3, <1>4, <1>6, <1>7, Zenon

(* routine_main: a thread that was not told to end does not end, and only  *)
(* one that was is cancelled.                                              *)
LEMMA WorkerLives ==
  ASSUME Base, KInv, NEW r \in Routine, NEW t \in Thread, Worker(r, t)
  PROVE  CancelKnown' /\ Living'
<1>1. /\ \A q \in Routine, u \in Thread : ~(q = r /\ u = t) => wpc'[q][u] = wpc[q][u]
      /\ UNCHANGED <<alive, cancelled, running, self>> /\ wpc[r][t] # "dead"
      /\ spc' = spc \/ (spc = "timedwait" /\ spc' = "relock" /\ self = r)
  BY WorkerFrame, Zenon
<1>2. PICK l \in WorkerPc : Step(r, t, l)
  BY Zenon DEF Worker, LockPong, LockPing, Pong, TaskEnd, TestAlive, CancelInTask, CancelInWait, DieLocked, WorkerPc
<1>3. wpc'[r][t] = l
  BY <1>2, StepType DEF Base
<1>4. wpc'[r][t] = "cancel" => t \in cancelled[r]
  BY <1>3 DEF Worker, LockPong, LockPing, Pong, TaskEnd, TestAlive, CancelInTask, CancelInWait, DieLocked, Step, Base, TypeOK
<1>5. CancelKnown'
  BY <1>1, <1>4, Zenon DEF KInv, CancelKnown
<1>6. ASSUME alive[r], t \notin cancelled[r] PROVE wpc'[r][t] # "dead"
  <2>1. wpc[r][t] # "cancel"
    BY <1>6, Zenon DEF KInv, CancelKnown
  <2> QED
    BY <1>6, <2>1 DEF Worker, LockPong, LockPing, Pong, TaskEnd, TestAlive, CancelInTask, CancelInWait, DieLocked, Step, Base, TypeOK
<1>7. Living'
  <2> SUFFICES ASSUME NEW q \in Routine
               PROVE  (\A u \in Thread : wpc'[q][u] = "dead") \/ Restarting(q)' \/ Lives(q)'
    BY Zenon DEF Living
  <2>1. (\A u \in Thread : wpc[q][u] = "dead") \/ Restarting(q) \/ Lives(q)
    BY Zenon DEF KInv, Living
  <2>2. CASE \A u \in Thread : wpc[q][u] = "dead"
    BY <1>1, <2>2, Zenon
  <2>3. CASE Restarting(q)
    BY <1>1, <2>3, Zenon DEF Restarting
  <2>4. CASE Lives(q)
    <3>1. running[q] \in Thread
      BY Zenon DEF Base, TypeOK
    <3> QED
      BY <1>1, <1>6, <2>4, <3>1, Zenon DEF Lives
  <2> QED
    BY <2>1, <2>2, <2>3, <2>4, Zenon
<1> QED
  BY <1>5, <1>7, Zenon

(* routine_main: a thread that takes pong_me is about to signal, and gives *)
(* it back as it does.                                                     *)
LEMMA WorkerHeld ==
  ASSUME Base, KInv, NEW r \in Routine, NEW t \in Thread, Worker(r, t)
  PROVE  Held'
<1> SUFFICES ASSUME spc' = "timedwait", pong_me'[self']
             PROVE  \E u \in Thread : wpc'[self'][u] \in {"lock_ping0", "signal0", "signal"}
  BY Zenon DEF Held
<1>1. /\ \A q \in Routine, u \in Thread : ~(q = r /\ u = t) => wpc'[q][u] = wpc[q][u]
      /\ \A q \in Routine : q # r => ping_me'[q] = ping_me[q] /\ pong_me'[q] = pong_me[q]
      /\ self' = self /\ spc = "timedwait" /\ self \in Routine
  BY WorkerFrame, SelfType, Zenon DEF Base, TypeOK, self
<1>2. CASE pong_me[self]
  <2>1. PICK u \in Thread : wpc[self][u] \in {"lock_ping0", "signal0", "signal"}
    BY <1>1, <1>2, Zenon DEF KInv, Held
  <2>2. CASE self = r /\ u = t
    <3>1. wpc[r][t] \in {"lock_ping0", "signal0", "signal"}
      BY <2>1, <2>2, Zenon
    <3>2. ~Pong(r, t)
      BY <1>1, <2>2, Zenon DEF Pong, SignalPong, self
    <3>3. wpc'[r][t] = "signal0"
      BY <3>1, <3>2 DEF Worker, LockPong, LockPing, TaskEnd, TestAlive, CancelInTask, CancelInWait, DieLocked, Step, Base, TypeOK
    <3> QED
      BY <1>1, <2>2, <3>3, Zenon
  <2>3. CASE ~(self = r /\ u = t)
    BY <1>1, <2>1, <2>3, Zenon
  <2> QED
    BY <2>2, <2>3, Zenon
<1>3. CASE ~pong_me[self]
  <2>1. self = r
    BY <1>1, <1>3, Zenon
  <2>2. LockPong(r, t)
    BY <1>1, <1>3, <2>1, Zenon DEF Worker, LockPing, Pong, TaskEnd, TestAlive, CancelInTask, CancelInWait, DieLocked,
                            Unlock, mutexes, Base, TypeOK
  <2> QED
    BY <1>1, <2>1, <2>2 DEF LockPong, Step, Base, TypeOK
<1> QED
  BY <1>2, <1>3, Zenon

(* The supervisor goes on without creating or stopping a thread. *)
LEMMA IdleLives ==
  ASSUME Base, KInv, UNCHANGED <<wpc, alive, cancelled, running>>,
         \A r \in Routine : Restarting(r) => Restarting(r)',
         spc' = "timedwait" => ~pong_me'[self'] \/ UNCHANGED <<spc, at, pong_me>>
  PROVE  KInv'
<1>1. CancelKnown'
  BY Zenon DEF KInv, CancelKnown
<1>2. Living'
  BY Zenon DEF KInv, Living, Lives
<1>3. Held'
  <2> SUFFICES ASSUME spc' = "timedwait", pong_me'[self']
               PROVE  \E t \in Thread : wpc'[self'][t] \in {"lock_ping0", "signal0", "signal"}
    BY Zenon DEF Held
  <2>1. UNCHANGED <<spc, at, pong_me>>
    OBVIOUS
  <2>2. self' = self
    BY <2>1, Zenon DEF self
  <2> QED
    BY <2>1, <2>2, Zenon DEF KInv, Held
<1> QED
  BY <1>1, <1>2, <1>3, Zenon DEF KInv

(* routine_start makes a thread that lives. *)
LEMMA CreateLives == ASSUME Base, KInv, Create PROVE KInv'
<1>1. self \in Routine
  BY SelfType, Zenon DEF self, Base, TypeOK
<1>2. PICK t \in Thread :
        /\ wpc[self][t] = "dead" /\ Step(self, t, "lock_pong0")
        /\ cancelled' = [cancelled EXCEPT ![self] = @ \ {t}]
        /\ running' = [running EXCEPT ![self] = t]
  BY Zenon DEF Create
<1>3. /\ spc = "create" /\ spc' = "sync" /\ at' = at
      /\ alive' = [alive EXCEPT ![self] = TRUE]
  BY Zenon DEF Create
<1>4. self' = self
  BY <1>3, Zenon DEF self
<1>5. \A q \in Routine, u \in Thread : wpc'[q][u] = IF q = self /\ u = t THEN "lock_pong0" ELSE wpc[q][u]
  <2>1. "lock_pong0" \in WorkerPc
    BY Zenon DEF WorkerPc
  <2> QED
    BY <1>1, <1>2, <2>1, StepType DEF Base
<1>6. CancelKnown'
  <2>1. \A q \in Routine, u \in Thread : u \in cancelled[q] /\ ~(q = self /\ u = t) => u \in cancelled'[q]
    BY <1>1, <1>2, Zenon DEF Base, TypeOK
  <2> QED
    BY <1>5, <2>1, Zenon DEF KInv, CancelKnown
<1>7. Living'
  <2> SUFFICES ASSUME NEW q \in Routine PROVE (\A u \in Thread : wpc'[q][u] = "dead") \/ Lives(q)'
    BY Zenon DEF Living
  <2>1. CASE q = self
    <3>1. alive'[q] /\ running'[q] = t /\ t \notin cancelled'[q]
      BY <1>1, <1>2, <1>3, <2>1, Zenon DEF Base, TypeOK
    <3> QED
      BY <1>5, <2>1, <3>1, Zenon DEF Lives
  <2>2. CASE q # self
    <3>1. alive'[q] = alive[q] /\ running'[q] = running[q] /\ cancelled'[q] = cancelled[q] /\ running[q] \in Thread
      BY <1>1, <1>2, <1>3, <2>2, Zenon DEF Base, TypeOK
    <3>2. (\A u \in Thread : wpc[q][u] = "dead") \/ Lives(q)
      BY <2>2, Zenon DEF KInv, Living, Restarting
    <3> QED
      BY <1>5, <2>2, <3>1, <3>2 DEF Lives
  <2> QED
    BY <2>1, <2>2, Zenon
<1>8. Held'
  BY <1>3, Zenon DEF Held
<1> QED
  BY <1>6, <1>7, <1>8, Zenon DEF KInv

(* routine_stop begins a restart. *)
LEMMA StopLives == ASSUME Base, KInv, Stop PROVE KInv'
<1>1. self \in Routine /\ spc = "stop" /\ spc' = "stop_ping" /\ wpc' = wpc /\ running' = running /\ at' = at
  BY SelfType, Zenon DEF self, Base, TypeOK, Stop
<1>2. self' = self
  BY <1>1, Zenon DEF self
<1>3. /\ \A q \in Routine : cancelled[q] \subseteq cancelled'[q]
      /\ \A q \in Routine : q # self => cancelled'[q] = cancelled[q] /\ alive'[q] = alive[q]
  BY <1>1, Zenon DEF Stop, Base, TypeOK
<1>4. CancelKnown'
  BY <1>1, <1>3, Zenon DEF KInv, CancelKnown
<1>5. Living'
  <2> SUFFICES ASSUME NEW q \in Routine
               PROVE  (\A u \in Thread : wpc[q][u] = "dead") \/ Restarting(q)' \/ Lives(q)'
    BY <1>1, Zenon DEF Living
  <2>1. CASE q = self
    BY <1>1, <1>2, <2>1, Zenon DEF Restarting
  <2>2. CASE q # self
    BY <1>1, <1>3, <2>2, Zenon DEF KInv, Living, Restarting, Lives
  <2> QED
    BY <2>1, <2>2, Zenon
<1>6. Held'
  BY <1>1, Zenon DEF Held
<1> QED
  BY <1>4, <1>5, <1>6, Zenon DEF KInv

(* routine_ping wakes a thread that waits. *)
LEMMA PingLives == ASSUME Base, KInv, Ping PROVE KInv'
<1>1. self \in Routine /\ spc = "poll" /\ spc' = "sync" /\ UNCHANGED <<alive, cancelled, running, at>>
  BY SelfType, Zenon DEF self, Base, TypeOK, Ping, fields
<1>2. \A q \in Routine, u \in Thread :
        wpc'[q][u] = wpc[q][u] \/ (wpc[q][u] = "wait" /\ wpc'[q][u] = "woken")
  <2>1. CASE UNCHANGED wpc
    BY <2>1, Zenon
  <2>2. ASSUME NEW t \in Thread, wpc[self][t] = "wait", Step(self, t, "woken")
        PROVE  \A q \in Routine, u \in Thread :
                 wpc'[q][u] = wpc[q][u] \/ (wpc[q][u] = "wait" /\ wpc'[q][u] = "woken")
    <3>1. "woken" \in WorkerPc
      BY Zenon DEF WorkerPc
    <3> QED
      BY <1>1, <2>2, <3>1, StepType DEF Base
  <2> QED
    BY <2>1, <2>2, Zenon DEF Ping
<1>3. CancelKnown'
  BY <1>1, <1>2, Zenon DEF KInv, CancelKnown
<1>4. Living'
  <2> SUFFICES ASSUME NEW q \in Routine PROVE (\A u \in Thread : wpc'[q][u] = "dead") \/ Lives(q)'
    BY Zenon DEF Living
  <2>1. (\A u \in Thread : wpc[q][u] = "dead") \/ Lives(q)
    BY <1>1, Zenon DEF KInv, Living, Restarting
  <2>2. running[q] \in Thread
    BY Zenon DEF Base, TypeOK
  <2> QED
    BY <1>1, <1>2, <2>1, <2>2, Zenon DEF Lives
<1>5. Held'
  BY <1>1, Zenon DEF Held
<1> QED
  BY <1>3, <1>4, <1>5, Zenon DEF KInv

(* routine.c: every step. *)
LEMMA KInvStep == Base /\ KInv /\ [Next]_vars => KInv'
<1> SUFFICES ASSUME Base, KInv, [Next]_vars PROVE KInv'
  OBVIOUS
<1>1. CASE NotDue \/ StartLock \/ PingRefused \/ Relock \/ Timeout
  <2>1. UNCHANGED <<wpc, alive, cancelled, running>> /\ spc \in {"poll", "start_lock", "relock", "timedwait"}
    BY <1>1, Zenon DEF NotDue, StartLock, PingRefused, Relock, Timeout, threads, fields
  <2>2. Done \/ PingFailed \/ spc' = "start_lock" \/ spc' = "relock"
    BY <1>1, Zenon DEF NotDue, StartLock, PingRefused, Relock, Timeout
  <2>3. spc' # "timedwait"
    BY <2>2, Zenon DEF Done, PingFailed
  <2> QED
    BY <2>1, <2>3, IdleLives, Zenon DEF Restarting
<1>2. CASE Sync \/ StopPing \/ StopPong
  <2>1. UNCHANGED <<wpc, alive, cancelled, running, at>> /\ self \in Routine
    BY <1>2, SelfType, Zenon DEF Sync, StopPing, StopPong, threads, fields, self, Base, TypeOK
  <2>2. self' = self
    BY <2>1, Zenon DEF self
  <2>3. \A r \in Routine : Restarting(r) => Restarting(r)'
    BY <1>2, <2>2, Zenon DEF Sync, StopPing, StopPong, Restarting
  <2>4. spc' = "timedwait" => ~pong_me'[self']
    BY <1>2, <2>1, <2>2, Zenon DEF Sync, StopPing, StopPong, Unlock, Base, TypeOK
  <2> QED
    BY <2>1, <2>3, <2>4, IdleLives, Zenon
<1>3. CASE UNCHANGED vars \/ \E r \in Routine : BecomeOverdue(r)
  <2>1. UNCHANGED <<wpc, alive, cancelled, running, spc, at, pong_me>>
    BY <1>3, Zenon DEF vars, BecomeOverdue, threads, fields, mutexes, supervisor
  <2>2. self' = self
    BY <2>1, Zenon DEF self
  <2> QED
    BY <2>1, <2>2, IdleLives, Zenon DEF Restarting
<1>4. ASSUME NEW r \in Routine, NEW t \in Thread, Worker(r, t) PROVE KInv'
  BY <1>4, WorkerLives, WorkerHeld, Zenon DEF KInv
<1> QED
  BY <1>1, <1>2, <1>3, <1>4, PingLives, CreateLives, StopLives, Zenon DEF Next, Supervisor

-----------------------------------------------------------------------------
(* Threads that were told to end and will take ping_me once more, and      *)
(* steps at which a thread has taken it and will give it back.             *)
WaitPc == {"lock_pong0", "lock_ping0", "wait", "woken", "cancel"}
Waiters(r) == {t \in cancelled[r] : wpc[r][t] \in WaitPc}
Holds == {"signal0", "test", "lock_pong", "signal", "task"}

(* Will ping_me be given back, by running_thread or by routine_stop? *)
Owes(r) ==
  IF self = r /\ spc = "stop_ping" THEN TRUE
  ELSE IF Restarting(r) THEN FALSE ELSE wpc[r][running[r]] \in Holds

(* There are at least as many that will take ping_me for good as there are *)
(* chances to get it: running_thread cannot be the only thread again and   *)
(* hold it.                                                                *)
Slack(r) ==
  /\ Owes(r) \/ ~ping_me[r] => \E x \in Waiters(r) : TRUE
  /\ Owes(r) /\ ~ping_me[r] => \E x, y \in Waiters(r) : x # y

(* Threads between a wakeup and their answer. *)
Moving(r) ==
  {t \in Thread : wpc[r][t] \in {"lock_pong0", "lock_ping0", "signal0", "woken", "lock_pong", "signal"}}

(* The supervisor waits for the only one. *)
Expected(r) == self = r /\ spc \in {"sync", "timedwait"} /\ \E x \in Thread : Moving(r) = {x}

WInv == late > 0 \/ \A r \in Routine : Slack(r) \/ Moving(r) = {} \/ Expected(r)

(* What ping_me is worth stays, or less is. *)
LEMMA SlackKeep ==
  ASSUME NEW r \in Routine, Slack(r), Waiters(r) \subseteq Waiters(r)',
         Owes(r)' \/ ~ping_me'[r] => Owes(r) \/ ~ping_me[r],
         Owes(r)' /\ ~ping_me'[r] => Owes(r) /\ ~ping_me[r]
  PROVE  Slack(r)'
  BY Zenon DEF Slack

(* A thread that was told to end takes ping_me. *)
LEMMA SlackSpend ==
  ASSUME NEW r \in Routine, Slack(r), ~ping_me[r], ping_me'[r], Owes(r)' => Owes(r),
         NEW t, \A x \in Waiters(r) : x = t \/ x \in Waiters(r)'
  PROVE  Slack(r)'
<1>1. Owes(r)' => \E x, y \in Waiters(r) : x # y
  BY Zenon DEF Slack
<1>2. Owes(r)' => \E x \in Waiters(r)' : TRUE
  BY <1>1, Zenon
<1> QED
  BY <1>2, Zenon DEF Slack

(* There is one more to take it. *)
LEMMA SlackGain ==
  ASSUME NEW r \in Routine, Slack(r), NEW t, t \in Waiters(r)', t \notin Waiters(r),
         Waiters(r) \subseteq Waiters(r)', (Owes(r)' => Owes(r)) \/ (~ping_me'[r] => ~ping_me[r])
  PROVE  Slack(r)'
<1>1. Owes(r)' /\ ~ping_me'[r] => Owes(r) \/ ~ping_me[r]
  BY Zenon
<1>2. Owes(r)' /\ ~ping_me'[r] => \E x \in Waiters(r) : TRUE
  BY <1>1, Zenon DEF Slack
<1>3. Owes(r)' /\ ~ping_me'[r] => \E x, y \in Waiters(r)' : x # y
  BY <1>2, Zenon
<1> QED
  BY <1>3, Zenon DEF Slack

(* routine_main: a step of a thread, seen from ping_me. *)
LEMMA OwesStep ==
  ASSUME Base, KInv, NEW r \in Routine, NEW t \in Thread, Worker(r, t)
  PROVE  /\ t \in cancelled[r] => (Owes(r)' <=> Owes(r))
         /\ t \notin cancelled[r] => /\ ~Restarting(r) /\ t = running[r]
                                     /\ Owes(r) <=> wpc[r][t] \in Holds
                                     /\ Owes(r)' <=> wpc'[r][t] \in Holds
<1>1. /\ \A u \in Thread : u # t => wpc'[r][u] = wpc[r][u]
      /\ UNCHANGED <<cancelled, running, self>> /\ wpc[r][t] # "dead"
      /\ spc' = spc \/ (spc = "timedwait" /\ spc' = "relock")
  BY WorkerFrame
<1>2. Restarting(r)' <=> Restarting(r)
  BY <1>1, Zenon DEF Restarting
<1>3. ASSUME t \notin cancelled[r] PROVE ~Restarting(r) /\ t = running[r]
  <2>1. t = running[r]
    BY <1>1, <1>3, Zenon DEF Base, RInv, OneLiveThread
  <2>2. ASSUME Restarting(r) PROVE FALSE
    <3>1. at \in at..Len(Order)
      BY RoutineAssumption DEF Base, TypeOK
    <3> QED
      BY <1>1, <1>3, <2>2, <3>1, Zenon DEF Base, RInv, Ended, Fresh, Restarting, self
  <2> QED
    BY <2>1, <2>2, Zenon
<1>4. CASE Restarting(r)
  <2>1. spc' = spc /\ self' = self
    BY <1>1, <1>4, Zenon DEF Restarting
  <2>2. Owes(r)' <=> Owes(r)
    BY <1>2, <1>4, <2>1, Zenon DEF Owes
  <2> QED
    BY <1>3, <1>4, <2>2, Zenon
<1>5. CASE ~Restarting(r)
  <2>1. ~(self = r /\ spc = "stop_ping") /\ ~(self' = r /\ spc' = "stop_ping")
    BY <1>1, <1>5, Zenon DEF Restarting
  <2>2. (Owes(r) <=> wpc[r][running[r]] \in Holds) /\ (Owes(r)' <=> wpc'[r][running[r]] \in Holds)
    BY <1>1, <1>2, <1>5, <2>1, Zenon DEF Owes
  <2>3. running[r] \in Thread /\ running[r] \notin cancelled[r]
    BY <1>1, <1>5, Zenon DEF KInv, Living, Lives, Base, TypeOK
  <2> QED
    BY <1>1, <1>3, <1>5, <2>2, <2>3, Zenon
<1> QED
  BY <1>4, <1>5, Zenon

(* routine_main: ping_me is taken and given back in turn. *)
LEMMA SlackWorker ==
  ASSUME Base, KInv, NEW r \in Routine, NEW t \in Thread, Worker(r, t), Slack(r)
  PROVE  Slack(r)'
<1>1. /\ \A u \in Thread : u # t => wpc'[r][u] = wpc[r][u]
      /\ UNCHANGED cancelled /\ wpc[r][t] # "dead" /\ cancelled[r] \subseteq Thread
  BY WorkerFrame DEF Base, TypeOK
<1>2. /\ t \in cancelled[r] => (Owes(r)' <=> Owes(r))
      /\ t \notin cancelled[r] => /\ ~Restarting(r) /\ t = running[r]
                                  /\ Owes(r) <=> wpc[r][t] \in Holds
                                  /\ Owes(r)' <=> wpc'[r][t] \in Holds
  BY OwesStep, Zenon
<1>3. \A u \in Waiters(r) : u = t \/ u \in Waiters(r)'
  BY <1>1, Zenon DEF Waiters
<1>4. t \in Waiters(r)' <=> t \in cancelled[r] /\ wpc'[r][t] \in WaitPc
  BY <1>1, Zenon DEF Waiters
<1>5. t \in Waiters(r) <=> t \in cancelled[r] /\ wpc[r][t] \in WaitPc
  BY Zenon DEF Waiters
<1>6. wpc[r][t] \in WaitPc /\ wpc'[r][t] \in WaitPc => Waiters(r) \subseteq Waiters(r)'
  BY <1>1, <1>3, <1>4, Zenon DEF Waiters
<1>7. t \notin Waiters(r) => Waiters(r) \subseteq Waiters(r)'
  BY <1>3, Zenon
<1>8. CASE LockPong(r, t) \/ Pong(r, t) \/ TaskEnd(r, t) \/ CancelInWait(r, t)
  <2>1. ping_me'[r] = ping_me[r]
    BY <1>8, Zenon DEF LockPong, Pong, TaskEnd, CancelInWait, mutexes
  <2>2. \/ wpc[r][t] \in WaitPc /\ wpc'[r][t] \in WaitPc
        \/ wpc[r][t] \in Holds /\ wpc'[r][t] \in Holds
    BY <1>8 DEF LockPong, Pong, TaskEnd, CancelInWait, Step, WaitPc, Holds, Base, TypeOK
  <2>3. WaitPc \cap Holds = {}
    BY Zenon DEF WaitPc, Holds
  <2>4. Owes(r)' => Owes(r)
    BY <1>2, <2>2, <2>3, Zenon
  <2>5. Waiters(r) \subseteq Waiters(r)'
    BY <1>5, <1>6, <1>7, <2>2, <2>3, Zenon
  <2> QED
    BY <2>1, <2>4, <2>5, SlackKeep, Zenon
<1>9. CASE LockPing(r, t)
  <2>1. ~ping_me[r] /\ ping_me'[r] /\ wpc[r][t] \in WaitPc /\ wpc'[r][t] \in Holds /\ wpc[r][t] \notin Holds
    BY <1>9 DEF LockPing, Lock, Step, WaitPc, Holds, Base, TypeOK
  <2>2. CASE t \in cancelled[r]
    BY <1>2, <1>3, <2>1, <2>2, SlackSpend, Zenon
  <2>3. CASE t \notin cancelled[r]
    BY <1>2, <1>5, <1>7, <2>1, <2>3, SlackKeep, Zenon
  <2> QED
    BY <2>2, <2>3, Zenon
<1>10. CASE DieLocked(r, t)
  <2>1. ~ping_me[r] /\ ping_me'[r] /\ wpc[r][t] = "cancel"
    BY <1>10, Zenon DEF DieLocked, Lock, Base, TypeOK
  <2>2. t \in cancelled[r]
    BY <2>1, Zenon DEF KInv, CancelKnown
  <2> QED
    BY <1>2, <1>3, <2>1, <2>2, SlackSpend, Zenon
<1>11. CASE TestAlive(r, t) /\ alive[r]
  <2>1. wpc[r][t] = "test" /\ wpc'[r][t] = "wait" /\ ~ping_me'[r]
    BY <1>11 DEF TestAlive, Unlock, Step, Base, TypeOK
  <2>2. wpc[r][t] \in Holds /\ wpc[r][t] \notin WaitPc /\ wpc'[r][t] \in WaitPc /\ wpc'[r][t] \notin Holds
    BY <2>1, Zenon DEF Holds, WaitPc
  <2>3. CASE t \in cancelled[r]
    BY <1>2, <1>4, <1>5, <1>7, <2>2, <2>3, SlackGain, Zenon
  <2>4. CASE t \notin cancelled[r]
    BY <1>2, <1>5, <1>7, <2>2, <2>4, SlackKeep, Zenon
  <2> QED
    BY <2>3, <2>4, Zenon
<1>12. CASE (TestAlive(r, t) /\ ~alive[r]) \/ CancelInTask(r, t)
  <2>1. ping_me'[r] = ping_me[r] /\ wpc[r][t] \in {"test", "task"}
    BY <1>12, Zenon DEF TestAlive, CancelInTask, mutexes
  <2>2. t \in cancelled[r]
    BY <1>1, <1>2, <1>12, Zenon DEF CancelInTask, KInv, Living, Lives
  <2>3. wpc[r][t] \notin WaitPc
    BY <2>1, Zenon DEF WaitPc
  <2> QED
    BY <1>2, <1>5, <1>7, <2>1, <2>2, <2>3, SlackKeep, Zenon
<1> QED
  BY <1>8, <1>9, <1>10, <1>11, <1>12, Zenon DEF Worker

(* The threads of the routine and ping_me are left alone. *)
SameRow(r) ==
  /\ \A u \in Thread : wpc'[r][u] = wpc[r][u]
  /\ ping_me'[r] = ping_me[r] /\ cancelled'[r] = cancelled[r] /\ running'[r] = running[r]

(* Then what ping_me is worth does not grow, nor does the set of threads   *)
(* on their way to an answer.                                              *)
LEMMA RowKept ==
  ASSUME Base, NEW r \in Routine, SameRow(r), Owes(r)' => Owes(r)
  PROVE  /\ Slack(r) => Slack(r)'
         /\ Moving(r)' = Moving(r)
<1>1. cancelled[r] \subseteq Thread
  BY Zenon DEF Base, TypeOK
<1>2. Waiters(r) \subseteq Waiters(r)' /\ Moving(r)' = Moving(r)
  BY <1>1, Zenon DEF Waiters, Moving, SameRow
<1>3. ping_me'[r] = ping_me[r]
  BY Zenon DEF SameRow
<1> QED
  BY <1>2, <1>3, SlackKeep, Zenon

(* routine_main: threads of this routine and of another. *)
LEMMA WedgeFreeWorker ==
  ASSUME Base, KInv, NEW r \in Routine, Slack(r) \/ Moving(r) = {} \/ Expected(r),
         NEW q \in Routine, NEW t \in Thread, Worker(q, t)
  PROVE  Slack(r)' \/ Moving(r)' = {} \/ Expected(r)'
<1>1. /\ \A p \in Routine, u \in Thread : ~(p = q /\ u = t) => wpc'[p][u] = wpc[p][u]
      /\ \A p \in Routine : p # q => ping_me'[p] = ping_me[p]
      /\ UNCHANGED <<cancelled, running, self>>
      /\ spc' = spc \/ (spc = "timedwait" /\ spc' = "relock" /\ self = q)
  BY WorkerFrame, Zenon
<1>2. CASE q # r
  <2>1. SameRow(r) /\ (self = r => spc' = spc)
    BY <1>1, <1>2, Zenon DEF SameRow
  <2>2. Restarting(r)' <=> Restarting(r)
    BY <1>1, <2>1, Zenon DEF Restarting
  <2>3. running[r] \in Thread
    BY Zenon DEF Base, TypeOK
  <2>4. Owes(r)' => Owes(r)
    BY <1>1, <2>1, <2>2, <2>3, Zenon DEF Owes, SameRow
  <2>5. (Slack(r) => Slack(r)') /\ Moving(r)' = Moving(r)
    BY <2>1, <2>4, RowKept, Zenon
  <2>6. Expected(r) => Expected(r)'
    BY <1>1, <2>1, <2>5, Zenon DEF Expected
  <2> QED
    BY <2>5, <2>6, Zenon
<1>3. CASE q = r
  <2>1. CASE Slack(r)
    BY <1>3, <2>1, SlackWorker, Zenon
  <2>2. \A u \in Thread : u # t => (u \in Moving(r)' <=> u \in Moving(r))
    BY <1>1, <1>3, Zenon DEF Moving
  <2>3. t \in Moving(r)' => t \in Moving(r)
    <3>1. PICK l \in WorkerPc :
            /\ Step(r, t, l)
            /\ l \in {"lock_ping0", "signal0", "lock_pong", "signal"}
                 => wpc[r][t] \in {"lock_pong0", "lock_ping0", "woken", "lock_pong"}
            /\ l \notin {"lock_pong0", "woken"}
      BY <1>3, Zenon DEF Worker, LockPong, LockPing, Pong, TaskEnd, TestAlive, CancelInTask, CancelInWait, DieLocked, WorkerPc
    <3>2. wpc'[r][t] = l
      BY <3>1, StepType DEF Base
    <3> QED
      BY <3>1, <3>2, Zenon DEF Moving
  <2>4. Moving(r) \subseteq Thread /\ Moving(r)' \subseteq Thread
    BY Zenon DEF Moving
  <2>5. CASE Moving(r) = {}
    BY <2>2, <2>3, <2>4, <2>5, Zenon
  <2>6. CASE Expected(r)
    <3>1. PICK x \in Thread : Moving(r) = {x}
      BY <2>6, Zenon DEF Expected
    <3>2. CASE t \in Moving(r)'
      <4>1. t = x /\ Moving(r)' = {x}
        BY <2>2, <2>3, <2>4, <3>1, <3>2, Zenon
      <4>2. ~Pong(r, t)
        BY <3>2 DEF Pong, Step, Moving, Base, TypeOK
      <4>3. UNCHANGED supervisor
        BY <1>3, <4>2, Zenon DEF Worker, LockPong, LockPing, TaskEnd, TestAlive, CancelInTask, CancelInWait, DieLocked
      <4> QED
        BY <1>1, <2>6, <4>1, <4>3, Zenon DEF Expected, supervisor
    <3>3. CASE t \notin Moving(r)' /\ t = x
      BY <2>2, <2>4, <3>1, <3>3, Zenon
    <3>4. CASE t \notin Moving(r)' /\ t # x
      <4>1. Moving(r)' = {x}
        BY <2>2, <2>4, <3>1, <3>4, Zenon
      <4>2. t \notin Moving(r)
        BY <3>1, <3>4, Zenon
      <4>3. ~Pong(r, t)
        BY <4>2, Zenon DEF Pong, Moving
      <4>4. UNCHANGED supervisor
        BY <1>3, <4>3, Zenon DEF Worker, LockPong, LockPing, TaskEnd, TestAlive, CancelInTask, CancelInWait, DieLocked
      <4> QED
        BY <1>1, <2>6, <4>1, <4>4, Zenon DEF Expected, supervisor
    <3> QED
      BY <3>2, <3>3, <3>4, Zenon
  <2> QED
    BY <2>1, <2>5, <2>6, Zenon
<1> QED
  BY <1>2, <1>3, Zenon

(* routine_sync: the 50 ms pass though nothing could have been answered:   *)
(* the thread waits for ping_me, which another one of them has.            *)
LEMMA WedgeFreeTimeout ==
  ASSUME Base, KInv, NEW r \in Routine, Expected(r), Timeout, late' = late
  PROVE  Slack(r)'
<1>1. PICK x \in Thread : Moving(r) = {x}
  BY Zenon DEF Expected
<1>2. self = r /\ spc = "timedwait" /\ spc' = "relock" /\ UNCHANGED <<wpc, cancelled, running, ping_me, at>>
  BY Zenon DEF Expected, Timeout, threads, mutexes
<1>3. ~Answering(r, x)
  <2>1. late # late + 1
    BY DEF Base, TypeOK
  <2> QED
    BY <1>2, <2>1, Zenon DEF Timeout
<1>4. wpc[r][x] \in {"lock_pong0", "lock_ping0", "signal0", "woken", "lock_pong", "signal"}
  BY <1>1, Zenon DEF Moving
<1>5. ~(pong_me[r] /\ wpc[r][x] \in {"lock_pong0", "lock_pong"})
  <2> SUFFICES ASSUME pong_me[r], wpc[r][x] \in {"lock_pong0", "lock_pong"} PROVE FALSE
    OBVIOUS
  <2>1. PICK u \in Thread : wpc[r][u] \in {"lock_ping0", "signal0", "signal"}
    BY <1>2, Zenon DEF KInv, Held
  <2>2. u \in Moving(r)
    BY <2>1, Zenon DEF Moving
  <2> QED
    BY <1>1, <2>1, <2>2, Zenon
<1>6. wpc[r][x] \in {"lock_ping0", "woken"} /\ ping_me[r]
  BY <1>3, <1>4, <1>5, Zenon DEF Answering
<1>7. self' = self
  BY <1>2, Zenon DEF self
<1>8. Owes(r)' => wpc[r][running[r]] \in Holds
  BY <1>2, <1>7, Zenon DEF Owes, Restarting
<1>9. Owes(r)' => \E y \in Waiters(r)' : TRUE
  <2> SUFFICES ASSUME Owes(r)' PROVE x \in Waiters(r)'
    OBVIOUS
  <2>1. x # running[r]
    BY <1>6, <1>8, Zenon DEF Holds
  <2>2. x \in cancelled[r]
    BY <1>6, <2>1, Zenon DEF Base, RInv, OneLiveThread
  <2> QED
    BY <1>2, <1>6, <2>2, Zenon DEF Waiters, WaitPc
<1> QED
  BY <1>2, <1>6, <1>9, Zenon DEF Slack

(* routine_ping: a thread is woken and expected. *)
LEMMA WedgeFreePing ==
  ASSUME Base, KInv, NEW r \in Routine, self = r, Slack(r) \/ Moving(r) = {}, Ping
  PROVE  Slack(r)' \/ Moving(r)' = {} \/ Expected(r)'
<1>1. spc = "poll" /\ spc' = "sync" /\ UNCHANGED <<cancelled, running, ping_me, at>>
  BY Zenon DEF Ping, mutexes
<1>2. self' = r /\ ~Restarting(r) /\ ~Restarting(r)' /\ running[r] \in Thread
  BY <1>1, Zenon DEF self, Restarting, Base, TypeOK
<1>3. CASE UNCHANGED wpc
  <2>1. SameRow(r)
    BY <1>1, <1>3, Zenon DEF SameRow
  <2>2. Owes(r)' => Owes(r)
    BY <1>1, <1>2, <1>3, Zenon DEF Owes
  <2> QED
    BY <2>1, <2>2, RowKept, Zenon
<1>4. ASSUME NEW t \in Thread, wpc[r][t] = "wait", Step(r, t, "woken")
      PROVE  Slack(r)' \/ Moving(r)' = {} \/ Expected(r)'
  <2>1. wpc'[r][t] = "woken" /\ \A u \in Thread : u # t => wpc'[r][u] = wpc[r][u]
    <3>1. "woken" \in WorkerPc
      BY Zenon DEF WorkerPc
    <3> QED
      BY <1>4, <3>1, StepType DEF Base
  <2>2. CASE Slack(r)
    <3>1. Owes(r)' => Owes(r)
      BY <1>1, <1>2, <1>4, <2>1, Zenon DEF Owes, Holds
    <3>2. Waiters(r) \subseteq Waiters(r)'
      BY <1>1, <2>1, Zenon DEF Waiters, WaitPc, Base, TypeOK
    <3> QED
      BY <1>1, <2>2, <3>1, <3>2, SlackKeep, Zenon
  <2>3. CASE Moving(r) = {}
    <3>1. Moving(r)' = {t}
      BY <2>1, <2>3, Zenon DEF Moving
    <3> QED
      BY <1>1, <1>2, <3>1, Zenon DEF Expected
  <2> QED
    BY <2>2, <2>3, Zenon
<1> QED
  BY <1>3, <1>4, Zenon DEF Ping

(* routine_start: a thread is created and expected. *)
LEMMA WedgeFreeCreate ==
  ASSUME Base, KInv, NEW r \in Routine, self = r, Slack(r) \/ Moving(r) = {}, Create
  PROVE  Slack(r)' \/ Expected(r)'
<1>1. PICK t \in Thread :
        /\ wpc[r][t] = "dead" /\ Step(r, t, "lock_pong0")
        /\ cancelled' = [cancelled EXCEPT ![r] = @ \ {t}]
        /\ running' = [running EXCEPT ![r] = t]
  BY Zenon DEF Create
<1>2. spc' = "sync" /\ UNCHANGED <<ping_me, at>>
  BY Zenon DEF Create, mutexes
<1>3. self' = r /\ running'[r] = t /\ cancelled'[r] = cancelled[r] \ {t} /\ cancelled[r] \subseteq Thread
  BY <1>1, <1>2, Zenon DEF self, Base, TypeOK
<1>4. wpc'[r][t] = "lock_pong0" /\ \A u \in Thread : u # t => wpc'[r][u] = wpc[r][u]
  <2>1. "lock_pong0" \in WorkerPc
    BY Zenon DEF WorkerPc
  <2> QED
    BY <1>1, <2>1, StepType DEF Base
<1>5. CASE Slack(r)
  <2>1. ~Owes(r)'
    BY <1>2, <1>3, <1>4, Zenon DEF Owes, Restarting, Holds
  <2>2. Waiters(r) \subseteq Waiters(r)'
    BY <1>1, <1>3, <1>4, Zenon DEF Waiters, WaitPc
  <2> QED
    BY <1>2, <1>5, <2>1, <2>2, SlackKeep, Zenon
<1>6. CASE Moving(r) = {}
  <2>1. Moving(r)' = {t}
    BY <1>4, <1>6, Zenon DEF Moving
  <2> QED
    BY <1>2, <1>3, <2>1, Zenon DEF Expected
<1> QED
  BY <1>5, <1>6, Zenon

(* routine_stop: the thread it cancels will take ping_me, or has it, which *)
(* routine_stop then gives back in its place.                              *)
LEMMA WedgeFreeStop ==
  ASSUME Base, KInv, NEW r \in Routine, self = r, Slack(r) \/ Moving(r) = {}, Stop
  PROVE  Slack(r)' \/ Moving(r)' = {}
<1>1. spc = "stop" /\ UNCHANGED <<wpc, ping_me, at>> /\ spc' = "stop_ping"
  BY Zenon DEF Stop, mutexes
<1>2. cancelled'[r] = cancelled[r] \cup {running[r]} /\ running[r] \in Thread
  BY Zenon DEF Stop, Base, TypeOK
<1>3. Moving(r)' = Moving(r)
  BY <1>1, Zenon DEF Moving
<1>4. CASE Slack(r) /\ wpc[r][running[r]] \in Holds
  <2>1. Owes(r)
    BY <1>1, <1>4, Zenon DEF Owes, Restarting
  <2>2. Waiters(r) \subseteq Waiters(r)'
    BY <1>1, <1>2, Zenon DEF Waiters
  <2> QED
    BY <1>1, <1>4, <2>1, <2>2, SlackKeep, Zenon
<1>5. CASE Slack(r) /\ wpc[r][running[r]] \in WaitPc
  <2>1. running[r] \notin cancelled[r]
    BY <1>1, <1>2, <1>5, Zenon DEF KInv, Living, Lives, Restarting, WaitPc
  <2>2. running[r] \in Waiters(r)' /\ running[r] \notin Waiters(r) /\ Waiters(r) \subseteq Waiters(r)'
    BY <1>1, <1>2, <1>5, <2>1, Zenon DEF Waiters
  <2> QED
    BY <1>1, <1>5, <2>2, SlackGain, Zenon
<1>6. CASE wpc[r][running[r]] = "dead"
  <2>1. \A u \in Thread : wpc[r][u] = "dead"
    BY <1>1, <1>6, Zenon DEF KInv, Living, Lives, Restarting
  <2> QED
    BY <1>3, <2>1, Zenon DEF Moving
<1>7. wpc[r][running[r]] \in Holds \/ wpc[r][running[r]] \in WaitPc \/ wpc[r][running[r]] = "dead"
  BY <1>2 DEF Base, TypeOK, WorkerPc, Holds, WaitPc
<1> QED
  BY <1>3, <1>4, <1>5, <1>6, <1>7, Zenon

(* main and scheduler_main: every step of the supervisor. *)
LEMMA WedgeFreeSupervisor ==
  ASSUME Base, KInv, NEW r \in Routine, Slack(r) \/ Moving(r) = {} \/ Expected(r), Supervisor, late' = late
  PROVE  Slack(r)' \/ Moving(r)' = {} \/ Expected(r)'
<1>1. self \in Routine /\ running[r] \in Thread
  BY SelfType, Zenon DEF self, Base, TypeOK
<1>2. CASE NotDue \/ StartLock \/ PingRefused \/ Relock
  <2>1. SameRow(r) /\ spc \in {"poll", "start_lock", "relock"}
    BY <1>2, Zenon DEF NotDue, StartLock, PingRefused, Relock, threads, mutexes, SameRow
  <2>2. Done \/ PingFailed \/ spc' = "start_lock"
    BY <1>2, Zenon DEF NotDue, StartLock, PingRefused, Relock
  <2>3. spc' # "stop_ping"
    BY <2>2, Zenon DEF Done, PingFailed
  <2>4. ~Restarting(r) /\ ~Expected(r) /\ spc # "stop_ping"
    BY <2>1, Zenon DEF Restarting, Expected
  <2>5. Owes(r)' => wpc'[r][running'[r]] \in Holds
    BY <2>3, Zenon DEF Owes
  <2>6. Owes(r)' => Owes(r)
    BY <1>1, <2>1, <2>4, <2>5 DEF Owes, SameRow
  <2> QED
    BY <2>1, <2>4, <2>6, RowKept, Zenon
<1>3. CASE (Ping \/ Create \/ Sync \/ Timeout \/ Stop \/ StopPing \/ StopPong) /\ self # r
  <2>1. at' = at
    BY <1>3, Zenon DEF Ping, Create, Sync, Timeout, Stop, StopPing, StopPong
  <2>2. self' # r
    BY <1>3, <2>1, Zenon DEF self
  <2>3. wpc' = wpc \/ \E t \in Thread, l \in WorkerPc : Step(self, t, l)
    BY <1>3, Zenon DEF Ping, Create, Sync, Timeout, Stop, StopPing, StopPong, threads, WorkerPc
  <2>4. ping_me'[r] = ping_me[r] /\ cancelled'[r] = cancelled[r] /\ running'[r] = running[r]
    BY <1>1, <1>3, Zenon DEF Ping, Create, Sync, Timeout, Stop, StopPing, StopPong, Unlock, mutexes, threads, Base, TypeOK
  <2>5. SameRow(r)
    BY <1>1, <1>3, <2>3, <2>4, Zenon DEF Step, SameRow, Base, TypeOK
  <2>6. Owes(r)' => Owes(r)
    BY <1>1, <1>3, <2>2, <2>5 DEF Owes, Restarting, SameRow
  <2>7. ~Expected(r)
    BY <1>3, Zenon DEF Expected
  <2> QED
    BY <2>5, <2>6, <2>7, RowKept, Zenon
<1>4. CASE self = r /\ (Sync \/ Timeout \/ StopPong)
  <2>1. SameRow(r) /\ at' = at
    BY <1>4, Zenon DEF Sync, Timeout, StopPong, threads, mutexes, SameRow
  <2>2. self' = r
    BY <1>4, <2>1, Zenon DEF self
  <2>3. Owes(r)' => Owes(r)
    BY <1>1, <1>4, <2>1, <2>2 DEF Sync, Timeout, StopPong, Owes, Restarting, SameRow
  <2>4. (Slack(r) => Slack(r)') /\ Moving(r)' = Moving(r)
    BY <2>1, <2>3, RowKept, Zenon
  <2>5. CASE Expected(r)
    <3>1. CASE Sync
      BY <2>2, <2>4, <2>5, <3>1, Zenon DEF Sync, Expected
    <3>2. CASE Timeout
      BY <2>5, <3>2, WedgeFreeTimeout, Zenon
    <3> QED
      BY <1>4, <2>5, <3>1, <3>2, Zenon DEF StopPong, Expected
  <2> QED
    BY <2>4, <2>5, Zenon
<1>5. CASE self = r /\ StopPing
  <2>1. /\ at' = at /\ spc = "stop_ping" /\ spc' = "stop_pong" /\ UNCHANGED <<wpc, cancelled>>
    BY <1>5, Zenon DEF StopPing, threads
  <2>2. self' = r
    BY <1>5, <2>1, Zenon DEF self
  <2>3. Owes(r) /\ ~Owes(r)' /\ ~Expected(r)
    BY <1>5, <2>1, <2>2, Zenon DEF Owes, Restarting, Expected
  <2>4. Waiters(r)' = Waiters(r) /\ Moving(r)' = Moving(r)
    BY <2>1, Zenon DEF Waiters, Moving
  <2> QED
    BY <2>3, <2>4, SlackKeep, Zenon
<1>6. CASE self = r /\ (Ping \/ Create \/ Stop)
  <2>1. ~Expected(r)
    BY <1>6, Zenon DEF Ping, Create, Stop, Expected
  <2> QED
    BY <1>6, <2>1, WedgeFreePing, WedgeFreeCreate, WedgeFreeStop, Zenon
<1> QED
  BY <1>2, <1>3, <1>4, <1>5, <1>6, Zenon DEF Supervisor

(* routine_sync: late handshakes are counted. *)
LEMMA LateStep ==
  ASSUME Base, [Next]_vars
  PROVE  late \in Nat /\ (late' = late \/ late' = late + 1)
<1>1. late' = late \/ late' = late + 1
  <2>1. CASE Supervisor
    BY <2>1, Zenon DEF Supervisor, NotDue, PingRefused, Ping, Create, Sync, Timeout, Relock, StartLock, Stop,
                       StopPing, StopPong, history
  <2>2. ASSUME NEW r \in Routine, NEW t \in Thread, Worker(r, t) PROVE late' = late
    BY <2>2, WorkerFrame, Zenon
  <2>3. CASE UNCHANGED vars \/ \E r \in Routine : BecomeOverdue(r)
    BY <2>3, Zenon DEF vars, BecomeOverdue, history
  <2> QED
    BY <2>1, <2>2, <2>3, Zenon DEF Next
<1> QED
  BY <1>1, RoutineAssumption DEF Base, TypeOK

(* routine_sync: for any routines, policies and threads, a routine gets    *)
(* wedged only after a handshake took longer than the 50 ms.               *)
THEOREM WedgeNeedsMissAlways == Spec => []WedgeNeedsMiss
<1>1. Init => KInv /\ WInv
  BY DEF Init, KInv, CancelKnown, Living, Held, WInv, Moving
<1>2. Base /\ KInv /\ WInv /\ [Next]_vars => WInv'
  <2> SUFFICES ASSUME Base, KInv, WInv, [Next]_vars PROVE WInv'
    OBVIOUS
  <2>1. late \in Nat /\ (late' = late \/ late' = late + 1)
    BY LateStep, Zenon
  <2>2. CASE late' > 0
    BY <2>2, Zenon DEF WInv
  <2>3. CASE ~(late' > 0)
    <3>1. late' = late /\ \A r \in Routine : Slack(r) \/ Moving(r) = {} \/ Expected(r)
      BY <2>1, <2>3 DEF WInv
    <3> SUFFICES ASSUME NEW r \in Routine PROVE Slack(r)' \/ Moving(r)' = {} \/ Expected(r)'
      BY Zenon DEF WInv
    <3>2. CASE UNCHANGED vars \/ \E q \in Routine : BecomeOverdue(q)
      <4>1. UNCHANGED <<wpc, ping_me, cancelled, running, at, spc>>
        BY <3>2, Zenon DEF vars, BecomeOverdue, mutexes, threads, supervisor
      <4>2. SameRow(r) /\ self' = self
        BY <4>1, Zenon DEF SameRow, self
      <4>3. (Owes(r)' => Owes(r)) /\ (self' = self /\ spc' = spc)
        BY <4>1, <4>2, Zenon DEF Owes, Restarting
      <4>4. (Slack(r) => Slack(r)') /\ Moving(r)' = Moving(r)
        BY <4>2, <4>3, RowKept, Zenon
      <4> QED
        BY <3>1, <4>3, <4>4, Zenon DEF Expected
    <3>3. Slack(r) \/ Moving(r) = {} \/ Expected(r)
      BY <3>1, Zenon
    <3> QED
      BY <3>1, <3>2, <3>3, WedgeFreeSupervisor, WedgeFreeWorker, Zenon DEF Next
  <2> QED
    BY <2>2, <2>3, Zenon
<1>3. Base /\ KInv /\ WInv => WedgeNeedsMiss
  <2> SUFFICES ASSUME Base, KInv, WInv, NEW r \in Routine, Wedged(r), ~(late > 0) PROVE FALSE
    BY Zenon DEF WedgeNeedsMiss
  <2>1. PICK t \in Thread : wpc[r][t] = "lock_pong" /\ \A u \in Thread \ {t} : wpc[r][u] = "dead"
    BY Zenon DEF Wedged
  <2>2. t \in Moving(r) /\ ~Expected(r) /\ ~Restarting(r) /\ ~(self = r /\ spc = "stop_ping")
    BY <2>1, Zenon DEF Moving, Expected, Restarting, Wedged
  <2>3. Slack(r)
    BY <2>2, Zenon DEF WInv
  <2>4. Lives(r) /\ running[r] \in Thread
    BY <2>1, <2>2, Zenon DEF KInv, Living, Base, TypeOK
  <2>5. running[r] = t /\ t \notin cancelled[r]
    BY <2>1, <2>4, Zenon DEF Lives
  <2>6. Owes(r)
    BY <2>1, <2>2, <2>5, Zenon DEF Owes, Holds
  <2>7. PICK x \in Waiters(r) : TRUE
    BY <2>3, <2>6, Zenon DEF Slack
  <2> QED
    BY <2>1, <2>5, <2>7, Zenon DEF Waiters, WaitPc, Base, TypeOK
<1> QED
  BY <1>1, <1>2, <1>3, KInvStep, BaseAlways, PTL DEF Spec

-----------------------------------------------------------------------------
(* The routines of main: the storage, which is never restarted, and the    *)
(* scheduler, whose task is done by the time it is pinged.                 *)
Steady == \A r \in Routine : Policy[r] = "never" \/ r \in Quick

(* Where the only thread of a routine is. *)
Place(r) == wpc[r][running[r]]

Unborn(r) ==
  /\ ~alive[r] /\ ~ping_me[r] /\ cancelled[r] = {}
  /\ \A t \in Thread : wpc[r][t] = "dead"
  /\ self = r => spc \in {"create", "poll"}

Alone(r) ==
  /\ alive[r] /\ cancelled[r] = {}
  /\ \A t \in Thread : t # running[r] => wpc[r][t] = "dead"

Rests(r) == Place(r) \in {"task", "test", "wait"} /\ (ping_me[r] <=> Place(r) # "wait")

(* The turns the supervisor and the thread take: the supervisor has        *)
(* pong_me while it is elsewhere; in routine_sync the thread starts, or    *)
(* was woken by the ping; behind it, the thread has answered.              *)
Idle(r) == (self = r => spc \in {"poll", "start_lock"}) /\ Rests(r) /\ pong_me[r]

Starts(r) ==
  /\ self = r /\ spc \in {"sync", "timedwait"} /\ call = "start"
  /\ Place(r) \in {"lock_pong0", "lock_ping0", "signal0", "test", "wait"}
  /\ ping_me[r] <=> Place(r) \in {"signal0", "test"}

Asked(r) ==
  /\ self = r /\ spc \in {"sync", "timedwait"} /\ call = "ping"
  /\ Place(r) \in {"woken", "lock_pong", "signal"}
  /\ ping_me[r] <=> Place(r) # "woken"
  /\ spc = "sync" => pong_me[r] /\ Place(r) # "signal"

Answered(r) == self = r /\ spc = "relock" /\ Rests(r) /\ (call = "ping" => acked)

Turn(r) == Alone(r) /\ (Idle(r) \/ Starts(r) \/ Asked(r) \/ Answered(r))

AInv == late > 0 \/
  /\ spc \notin {"stop", "stop_ping", "stop_pong"}
  /\ spc = "create" => ~started
  /\ \A r \in Routine : Turn(r) \/ Unborn(r)

(* routine_main: a thread does not disturb another routine. *)
LEMMA TurnOther ==
  ASSUME Base, NEW r \in Routine, Turn(r) \/ Unborn(r),
         NEW q \in Routine, NEW t \in Thread, Worker(q, t), q # r
  PROVE  Turn(r)' \/ Unborn(r)'
<1>1. /\ \A u \in Thread : wpc'[r][u] = wpc[r][u]
      /\ ping_me'[r] = ping_me[r] /\ pong_me'[r] = pong_me[r]
      /\ UNCHANGED <<alive, cancelled, running, self>>
  BY WorkerFrame, Zenon
<1>2. UNCHANGED supervisor \/ SignalPong(q)
  BY Zenon DEF Worker, LockPong, LockPing, Pong, TaskEnd, TestAlive, CancelInTask, CancelInWait, DieLocked
<1>3. self = r => UNCHANGED <<spc, call, acked>>
  BY <1>2, Zenon DEF SignalPong, supervisor, self
<1>4. Place(r)' = Place(r)
  BY <1>1, Zenon DEF Place, Base, TypeOK
<1>5. Unborn(r) => Unborn(r)'
  BY <1>1, <1>3, Zenon DEF Unborn
<1>6. (Alone(r) => Alone(r)') /\ (Rests(r) => Rests(r)')
  BY <1>1, <1>4, Zenon DEF Alone, Rests
<1>7. Idle(r) => Idle(r)'
  BY <1>1, <1>3, <1>6, Zenon DEF Idle
<1>8. Answered(r) => Answered(r)'
  BY <1>1, <1>3, <1>6, Zenon DEF Answered
<1>9. (Starts(r) => Starts(r)') /\ (Asked(r) => Asked(r)')
  BY <1>1, <1>3, <1>4, Zenon DEF Starts, Asked
<1> QED
  BY <1>5, <1>6, <1>7, <1>8, <1>9, Zenon DEF Turn

(* routine_main: the thread takes its turn. *)
LEMMA TurnWorker ==
  ASSUME Base, NEW r \in Routine, Turn(r) \/ Unborn(r), NEW t \in Thread, Worker(r, t)
  PROVE  Turn(r)'
<1>1. /\ \A u \in Thread : u # t => wpc'[r][u] = wpc[r][u]
      /\ UNCHANGED <<alive, cancelled, running, self>> /\ wpc[r][t] # "dead"
  BY WorkerFrame
<1>2. Turn(r) /\ t = running[r] /\ Place(r) = wpc[r][t] /\ alive[r] /\ cancelled[r] = {}
  BY <1>1, Zenon DEF Turn, Unborn, Alone, Place
<1>3. Alone(r)' /\ Place(r)' = wpc'[r][t]
  BY <1>1, <1>2, Zenon DEF Turn, Alone, Place
<1>4. Place(r) \in {"task", "test", "wait", "lock_pong0", "lock_ping0", "signal0", "woken", "lock_pong", "signal"}
  BY <1>2, Zenon DEF Turn, Idle, Rests, Starts, Asked, Answered
<1>5. LockPong(r, t) \/ LockPing(r, t) \/ Pong(r, t) \/ TaskEnd(r, t) \/ TestAlive(r, t)
  BY <1>2, <1>4, Zenon DEF Worker, CancelInTask, CancelInWait, DieLocked
<1>6. CASE LockPong(r, t)
  <2>1. \/ Place(r) = "lock_pong0" /\ Place(r)' = "lock_ping0"
        \/ Place(r) = "lock_pong" /\ Place(r)' = "signal"
    BY <1>2, <1>3, <1>6 DEF LockPong, Step, Base, TypeOK
  <2>2. ~pong_me[r] /\ UNCHANGED <<ping_me, spc, call>>
    BY <1>6, Zenon DEF LockPong, Lock, supervisor
  <2>3. Starts(r)' \/ Asked(r)'
    BY <1>1, <1>2, <2>1, <2>2, Zenon DEF Turn, Idle, Rests, Starts, Asked, Answered
  <2> QED
    BY <1>3, <2>3, Zenon DEF Turn
<1>7. CASE LockPing(r, t)
  <2>1. \/ Place(r) = "lock_ping0" /\ Place(r)' = "signal0"
        \/ Place(r) = "woken" /\ Place(r)' = "lock_pong"
    BY <1>2, <1>3, <1>7 DEF LockPing, Step, Base, TypeOK
  <2>2. ping_me'[r] /\ UNCHANGED <<pong_me, spc, call>>
    BY <1>7, Zenon DEF LockPing, Lock, supervisor, Base, TypeOK
  <2>3. Starts(r)' \/ Asked(r)'
    BY <1>1, <1>2, <2>1, <2>2, Zenon DEF Turn, Idle, Rests, Starts, Asked, Answered
  <2> QED
    BY <1>3, <2>3, Zenon DEF Turn
<1>8. CASE Pong(r, t)
  <2>1. \/ Place(r) = "signal0" /\ Place(r)' = "test"
        \/ Place(r) = "signal" /\ Place(r)' = "task"
    BY <1>2, <1>3, <1>8 DEF Pong, Step, Base, TypeOK
  <2>2. ping_me' = ping_me /\ call' = call
        /\ (self = r /\ spc = "timedwait" => spc' = "relock" /\ acked')
        /\ (spc = "sync" => spc' = "sync")
    BY <1>8, Zenon DEF Pong, SignalPong, supervisor, self
  <2>3. Starts(r)' \/ Answered(r)'
    BY <1>1, <1>2, <2>1, <2>2, Zenon DEF Turn, Idle, Rests, Starts, Asked, Answered
  <2> QED
    BY <1>3, <2>3, Zenon DEF Turn
<1>9. CASE TaskEnd(r, t) \/ TestAlive(r, t)
  <2>1. \/ Place(r) = "task" /\ Place(r)' = "test" /\ ping_me'[r] = ping_me[r]
        \/ Place(r) = "test" /\ Place(r)' = "wait" /\ ~ping_me'[r]
    BY <1>2, <1>3, <1>9 DEF TaskEnd, TestAlive, Unlock, Step, mutexes, Base, TypeOK
  <2>2. UNCHANGED <<pong_me, spc, call, acked>>
    BY <1>9, Zenon DEF TaskEnd, TestAlive, mutexes, supervisor
  <2>3. Idle(r)' \/ Starts(r)' \/ Answered(r)'
    BY <1>1, <1>2, <2>1, <2>2, Zenon DEF Turn, Idle, Rests, Starts, Asked, Answered
  <2> QED
    BY <1>3, <2>3, Zenon DEF Turn
<1> QED
  BY <1>5, <1>6, <1>7, <1>8, <1>9, Zenon

(* The supervisor goes on elsewhere. *)
LEMMA TurnKept ==
  ASSUME Base, RInv', NEW r \in Routine, Turn(r) \/ Unborn(r),
         UNCHANGED <<alive, cancelled, running>>,
         \A u \in Thread : wpc'[r][u] = wpc[r][u], ping_me'[r] = ping_me[r],
         Idle(r) \/ Unborn(r) \/ Answered(r), pong_me'[r] = pong_me[r] \/ pong_me'[r],
         Answered(r) => pong_me'[r],
         self' = r => spc' \in {"poll", "start_lock"} \/ (spc' = "create" /\ ~started'),
         Unborn(r) => self' # r \/ spc' \in {"poll", "create"}
  PROVE  Turn(r)' \/ Unborn(r)'
<1>1. CASE Unborn(r)
  BY <1>1, Zenon DEF Unborn
<1>2. CASE Turn(r) /\ (Idle(r) \/ Answered(r))
  <2>1. Place(r)' = Place(r)
    BY Zenon DEF Place, Base, TypeOK
  <2>2. Alone(r)' /\ Rests(r)' /\ pong_me'[r]
    BY <1>2, <2>1, Zenon DEF Turn, Alone, Idle, Answered, Rests
  <2>3. ~(self' = r /\ spc' = "create" /\ ~started')
    <3> SUFFICES ASSUME self' = r, spc' = "create", ~started' PROVE FALSE
      OBVIOUS
    <3>1. at' \in at'..Len(Order)
      BY RoutineAssumption DEF RInv, Typed
    <3>2. \A u \in Thread : wpc'[r][u] = "dead"
      BY <3>1, Zenon DEF RInv, Fresh, self
    <3> QED
      BY <2>2, <3>2, Zenon DEF Rests, Place, RInv, Typed
  <2> QED
    BY <2>2, <2>3, Zenon DEF Turn, Idle
<1> QED
  BY <1>1, <1>2, Zenon DEF Turn

(* main and scheduler_main: the routine that is not the supervisor's       *)
(* concern is idle, or not started yet.                                    *)
LEMMA TurnElsewhere ==
  ASSUME NEW r \in Routine, Turn(r) \/ Unborn(r), self # r
  PROVE  (Turn(r) /\ Idle(r)) \/ Unborn(r)
  BY Zenon DEF Turn, Starts, Asked, Answered

(* main and scheduler_main: the loop goes on to the next routine. *)
LEMMA TurnDone ==
  ASSUME Base, RInv', AInv, ~(late > 0), NEW r \in Routine,
         UNCHANGED <<alive, cancelled, running, wpc, ping_me>>,
         \/ pong_me' = pong_me /\ spc \in {"poll", "start_lock"}
         \/ spc = "relock" /\ pong_me' = [pong_me EXCEPT ![self] = TRUE],
         Done \/ (at' = at /\ spc' = "start_lock" /\ spc # "poll")
  PROVE  Turn(r)' \/ Unborn(r)'
<1>1. Turn(r) \/ Unborn(r)
  BY Zenon DEF AInv
<1>2. spc' \in {"poll", "create"} \/ (spc' = "start_lock" /\ self' = self)
  BY Zenon DEF Done, self
<1>3. spc' = "create" => ~started'
  BY Zenon DEF Done
<1>4. Idle(r) \/ Unborn(r) \/ Answered(r)
  BY <1>1, Zenon DEF Turn, Starts, Asked
<1>5. pong_me'[r] = pong_me[r] \/ pong_me'[r]
  BY Zenon DEF Base, TypeOK
<1>6. Answered(r) => pong_me'[r]
  BY Zenon DEF Answered, Base, TypeOK
<1>7. Unborn(r) => self' # r \/ spc' \in {"poll", "create"}
  <2> SUFFICES ASSUME Unborn(r), self' = r, spc' \notin {"poll", "create"} PROVE FALSE
    OBVIOUS
  <2>1. spc' = "start_lock" /\ self = r
    BY <1>2, Zenon
  <2>2. spc = "relock" \/ spc = "start_lock"
    BY <2>1, Zenon DEF Done
  <2> QED
    BY <2>1, <2>2, Zenon DEF Unborn
<1> QED
  BY <1>1, <1>2, <1>3, <1>4, <1>5, <1>6, <1>7, TurnKept, Zenon

(* main and scheduler_main: what the supervisor does with a routine leaves *)
(* the others as they are.                                                 *)
LEMMA TurnBystander ==
  ASSUME Base, NEW r \in Routine, Turn(r) \/ Unborn(r), self # r,
         Ping \/ Create \/ Sync \/ Timeout
  PROVE  Turn(r)' \/ Unborn(r)'
<1>1. self \in Routine /\ at' = at
  BY SelfType, Zenon DEF self, Base, TypeOK, Ping, Create, Sync, Timeout
<1>2. self' # r
  BY <1>1, Zenon DEF self
<1>3. wpc' = wpc \/ \E t \in Thread, l \in WorkerPc : Step(self, t, l)
  BY Zenon DEF Ping, Create, Sync, Timeout, threads, WorkerPc
<1>4. \A u \in Thread : wpc'[r][u] = wpc[r][u]
  BY <1>1, <1>3, Zenon DEF Step, Base, TypeOK
<1>5. /\ alive'[r] = alive[r] /\ cancelled'[r] = cancelled[r] /\ running'[r] = running[r]
      /\ ping_me'[r] = ping_me[r] /\ pong_me'[r] = pong_me[r]
  BY <1>1, Zenon DEF Ping, Create, Sync, Timeout, Unlock, fields, mutexes, threads, Base, TypeOK
<1>6. Place(r)' = Place(r)
  BY <1>4, <1>5 DEF Place, Base, TypeOK
<1>7. Unborn(r) => Unborn(r)'
  BY <1>2, <1>4, <1>5, Zenon DEF Unborn
<1>8. Turn(r) /\ Idle(r) => Turn(r)'
  BY <1>2, <1>4, <1>5, <1>6, Zenon DEF Turn, Alone, Idle, Rests
<1> QED
  BY <1>7, <1>8, TurnElsewhere, Zenon

(* routine_ping wakes the thread, which waits. *)
LEMMA TurnPing == ASSUME Base, AInv, ~(late > 0), Ping PROVE Turn(self)'
<1> DEFINE r == self
<1>1. r \in Routine /\ running[r] \in Thread
  BY SelfType, Zenon DEF self, Base, TypeOK
<1>2. /\ spc = "poll" /\ spc' = "sync" /\ call' = "ping" /\ ~ping_me[r] /\ alive[r]
      /\ UNCHANGED <<alive, cancelled, running, ping_me, pong_me, at>>
  BY Zenon DEF Ping, fields, mutexes
<1>3. Turn(r) /\ Idle(r)
  BY <1>1, <1>2, Zenon DEF AInv, Unborn, Turn, Starts, Asked, Answered
<1>4. wpc[r][running[r]] = "wait" /\ \A t \in Thread : wpc[r][t] = "wait" => t = running[r]
  BY <1>2, <1>3, Zenon DEF Turn, Alone, Idle, Rests, Place
<1>5. Step(r, running[r], "woken")
  BY <1>1, <1>4, Zenon DEF Ping
<1>6. wpc'[r][running[r]] = "woken" /\ \A t \in Thread : t # running[r] => wpc'[r][t] = wpc[r][t]
  BY <1>1, <1>5, Zenon DEF Step, Base, TypeOK
<1>7. self' = r
  BY <1>2, Zenon DEF self
<1>8. (Alone(r) /\ Asked(r))'
  BY <1>2, <1>3, <1>6, <1>7, Zenon DEF Turn, Alone, Idle, Asked, Place
<1> QED
  BY <1>8, Zenon DEF Turn

(* routine_start creates the first thread. *)
LEMMA TurnCreate == ASSUME Base, AInv, ~(late > 0), Create PROVE Turn(self)'
<1> DEFINE r == self
<1>1. r \in Routine /\ running[r] \in Thread
  BY SelfType, Zenon DEF self, Base, TypeOK
<1>2. PICK t \in Thread :
        /\ Step(r, t, "lock_pong0")
        /\ cancelled' = [cancelled EXCEPT ![r] = @ \ {t}]
        /\ running' = [running EXCEPT ![r] = t]
  BY Zenon DEF Create
<1>3. /\ spc = "create" /\ spc' = "sync" /\ call' = "start" /\ alive' = [alive EXCEPT ![r] = TRUE]
      /\ UNCHANGED <<ping_me, at>>
  BY Zenon DEF Create, mutexes
<1>4. \A u \in Thread : wpc[r][u] = "dead"
  <2>1. ~started /\ at \in at..Len(Order)
    BY <1>3, RoutineAssumption DEF AInv, Base, TypeOK
  <2> QED
    BY <1>3, <2>1, Zenon DEF Base, RInv, Fresh, self
<1>5. Unborn(r)
  BY <1>1, <1>4, Zenon DEF AInv, Turn, Idle, Rests, Starts, Asked, Answered, Place
<1>6. wpc'[r][t] = "lock_pong0" /\ (\A u \in Thread : u # t => wpc'[r][u] = "dead")
      /\ running'[r] = t /\ cancelled'[r] = {} /\ alive'[r]
  BY <1>1, <1>2, <1>3, <1>4, <1>5, Zenon DEF Step, Unborn, Base, TypeOK
<1>7. self' = r /\ ~ping_me'[r]
  BY <1>3, <1>5, Zenon DEF self, Unborn
<1>8. (Alone(r) /\ Starts(r))'
  BY <1>3, <1>6, <1>7, Zenon DEF Alone, Starts, Place
<1> QED
  BY <1>8, Zenon DEF Turn

(* routine_sync: it waits, and is answered in time or not at all. *)
LEMMA TurnSync ==
  ASSUME Base, KInv, AInv, ~(late > 0), Sync \/ (Timeout /\ late' = late)
  PROVE  Turn(self)'
<1> DEFINE r == self
<1>1. r \in Routine /\ running[r] \in Thread
  BY SelfType, Zenon DEF self, Base, TypeOK
<1>2. /\ UNCHANGED <<alive, cancelled, running, wpc, ping_me, at, call>>
      /\ (spc = "sync" /\ spc' = "timedwait") \/ (Timeout /\ late' = late /\ spc = "timedwait" /\ spc' = "relock")
  BY Zenon DEF Sync, Timeout, fields, mutexes, threads
<1>3. self' = r /\ Place(r)' = Place(r)
  BY <1>2, Zenon DEF self, Place
<1>4. Turn(r) /\ (Starts(r) \/ Asked(r))
  BY <1>1, <1>2, Zenon DEF AInv, Unborn, Turn, Idle, Answered
<1>5. Alone(r)'
  BY <1>2, <1>3, <1>4, Zenon DEF Turn, Alone
<1>6. CASE spc = "sync"
  BY <1>2, <1>3, <1>4, <1>5, <1>6, Zenon DEF Turn, Starts, Asked
<1>7. CASE Timeout /\ late' = late
  <2>1. ~Answering(r, running[r])
    <3>1. late # late + 1
      BY DEF Base, TypeOK
    <3> QED
      BY <1>1, <1>7, <3>1, Zenon DEF Timeout
  <2>2. pong_me[r] => Place(r) \in {"lock_ping0", "signal0", "signal"}
    <3> SUFFICES ASSUME pong_me[r] PROVE Place(r) \in {"lock_ping0", "signal0", "signal"}
      OBVIOUS
    <3>1. PICK u \in Thread : wpc[r][u] \in {"lock_ping0", "signal0", "signal"}
      BY <1>7, Zenon DEF KInv, Held, Timeout
    <3> QED
      BY <1>4, <3>1, Zenon DEF Turn, Alone, Place
  <2>3. Starts(r) /\ Place(r) \in {"test", "wait"}
    BY <1>4, <2>1, <2>2, Zenon DEF Answering, Starts, Asked, Place
  <2>4. Answered(r)'
    BY <1>2, <1>3, <1>7, <2>3, Zenon DEF Answered, Starts, Rests, Timeout
  <2> QED
    BY <1>5, <2>4, Zenon DEF Turn
<1> QED
  BY <1>2, <1>6, <1>7, Zenon

(* main: with the storage and the scheduler no ping fails, if no handshake *)
(* is late.                                                                *)
LEMMA TurnFailed ==
  ASSUME Base, AInv, ~(late > 0), Steady, PingRefused \/ Relock
  PROVE  Done \/ (spc = "relock" /\ spc' = "start_lock" /\ UNCHANGED <<at, started>>)
<1>1. self \in Routine /\ running[self] \in Thread
  BY SelfType, Zenon DEF self, Base, TypeOK
<1>2. CASE PingRefused
  <2>1. spc = "poll" /\ alive[self] /\ ping_me[self] /\ PingFailed /\ (self \in Quick => ~Busy(self))
    BY <1>2, Zenon DEF PingRefused
  <2>2. Idle(self)
    BY <1>1, <2>1, Zenon DEF AInv, Unborn, Turn, Starts, Asked, Answered
  <2>3. Busy(self)
    BY <1>1, <2>1, <2>2, Zenon DEF Idle, Rests, Place, Busy
  <2>4. ~Restarts(self)
    BY <1>1, <2>1, <2>3, Zenon DEF Steady, Restarts
  <2> QED
    BY <2>1, <2>4, Zenon DEF PingFailed
<1>3. CASE Relock
  <2>1. Answered(self)
    BY <1>1, <1>3, Zenon DEF Relock, AInv, Unborn, Turn, Idle, Starts, Asked
  <2> QED
    BY <1>3, <2>1, Zenon DEF Relock, Answered
<1> QED
  BY <1>2, <1>3, Zenon

(* routine.c: every step keeps to the turns, or is late. *)
LEMMA TurnStep ==
  ASSUME Base, RInv', KInv, AInv, Steady, [Next]_vars
  PROVE  AInv'
<1>1. late \in Nat /\ (late' = late \/ late' = late + 1)
  BY LateStep, Zenon
<1>2. CASE late' > 0
  BY <1>2, Zenon DEF AInv
<1>3. CASE ~(late' > 0)
  <2>1. late' = late /\ ~(late > 0)
    BY <1>1, <1>3
  <2>2. /\ spc \notin {"stop", "stop_ping", "stop_pong"} /\ (spc = "create" => ~started)
        /\ \A r \in Routine : Turn(r) \/ Unborn(r)
    BY <2>1, Zenon DEF AInv
  <2>3. ASSUME NEW q \in Routine, NEW t \in Thread, Worker(q, t) PROVE AInv'
    <3>1. \A r \in Routine : Turn(r)' \/ Unborn(r)'
      BY <2>2, <2>3, TurnWorker, TurnOther, Zenon
    <3>2. UNCHANGED supervisor \/ SignalPong(q)
      BY <2>3, Zenon DEF Worker, LockPong, LockPing, Pong, TaskEnd, TestAlive, CancelInTask, CancelInWait, DieLocked
    <3>3. started' = started /\ (spc' = spc \/ spc' = "relock")
      BY <3>2, Zenon DEF SignalPong, supervisor
    <3> QED
      BY <2>2, <3>1, <3>3, Zenon DEF AInv
  <2>4. CASE NotDue \/ StartLock \/ PingRefused \/ Relock
    <3>1. Done \/ (spc = "relock" /\ spc' = "start_lock" /\ UNCHANGED <<at, started>>)
      BY <2>1, <2>4, TurnFailed, Zenon DEF NotDue, StartLock
    <3>2. /\ UNCHANGED <<alive, cancelled, running, wpc, ping_me>>
          /\ \/ pong_me' = pong_me /\ spc \in {"poll", "start_lock"}
             \/ spc = "relock" /\ pong_me' = [pong_me EXCEPT ![self] = TRUE]
      BY <2>4, Zenon DEF NotDue, StartLock, PingRefused, Relock, Lock, threads, fields, mutexes
    <3>3. \A r \in Routine : Turn(r)' \/ Unborn(r)'
      BY <2>1, <3>1, <3>2, TurnDone, Zenon
    <3>4. spc' \in {"poll", "create", "start_lock"} /\ (spc' = "create" => ~started')
      BY <3>1, Zenon DEF Done
    <3> QED
      BY <3>3, <3>4, Zenon DEF AInv
  <2>5. CASE Ping \/ Create \/ Sync \/ Timeout
    <3>1. self \in Routine /\ at' = at /\ spc' \in {"sync", "timedwait", "relock"}
      BY <2>5, SelfType, Zenon DEF self, Base, TypeOK, Ping, Create, Sync, Timeout
    <3>2. self' = self
      BY <3>1, Zenon DEF self
    <3>3. Turn(self)'
      BY <2>1, <2>5, TurnPing, TurnCreate, TurnSync, Zenon
    <3>4. \A r \in Routine : r = self => Turn(r)'
      BY <3>2, <3>3, Zenon DEF Turn, Alone, Idle, Starts, Asked, Answered, Rests, Place
    <3>5. \A r \in Routine : r # self => Turn(r)' \/ Unborn(r)'
      BY <2>2, <2>5, TurnBystander, Zenon
    <3> QED
      BY <3>1, <3>4, <3>5, Zenon DEF AInv
  <2>6. CASE UNCHANGED vars \/ \E r \in Routine : BecomeOverdue(r)
    <3>1. UNCHANGED <<wpc, ping_me, pong_me, alive, cancelled, running, at, spc, started, call, acked>>
      BY <2>6, Zenon DEF vars, BecomeOverdue, fields, mutexes, threads, supervisor
    <3>2. self' = self
      BY <3>1, Zenon DEF self
    <3>3. ASSUME NEW r \in Routine PROVE (Alone(r) => Alone(r)') /\ (Unborn(r) => Unborn(r)')
      BY <3>1, <3>2, Zenon DEF Alone, Unborn
    <3>4. ASSUME NEW r \in Routine PROVE (Idle(r) => Idle(r)') /\ (Answered(r) => Answered(r)')
      BY <3>1, <3>2, Zenon DEF Idle, Answered, Rests, Place
    <3>5. ASSUME NEW r \in Routine PROVE (Starts(r) => Starts(r)') /\ (Asked(r) => Asked(r)')
      BY <3>1, <3>2, Zenon DEF Starts, Asked, Place
    <3>6. \A r \in Routine : Turn(r)' \/ Unborn(r)'
      BY <2>2, <3>3, <3>4, <3>5, Zenon DEF Turn
    <3> QED
      BY <2>2, <3>1, <3>6, Zenon DEF AInv
  <2>7. CASE Stop \/ StopPing \/ StopPong
    BY <2>2, <2>7, Zenon DEF Stop, StopPing, StopPong
  <2> QED
    BY <2>3, <2>4, <2>5, <2>6, <2>7, Zenon DEF Next, Supervisor
<1> QED
  BY <1>2, <1>3, Zenon

(* routine_ping and routine_sync: for the routines of main, and any number *)
(* of such routines, the answer to a ping is heard by the supervisor that  *)
(* waits for it and no other signal is taken for one, until a handshake    *)
(* takes more than the 50 ms.                                              *)
THEOREM AnswersKept ==
  ASSUME Steady
  PROVE  Spec => AnswerHeard /\ AnswerMatchesCall
<1>1. Init => KInv /\ AInv
  BY DEF Init, KInv, CancelKnown, Living, Held, AInv, Unborn
<1>2. Base /\ KInv /\ AInv /\ Base' /\ [Next]_vars => AInv'
  BY TurnStep, Zenon DEF Base
<1>3. AInv => (late = 0 => \A r \in Routine, t \in Thread :
                 /\ wpc[r][t] = "signal" => spc = "timedwait" /\ self = r
                 /\ wpc[r][t] = "signal0" => call = "start")
  <2> SUFFICES ASSUME AInv, late = 0, NEW r \in Routine, NEW t \in Thread, wpc[r][t] \in {"signal", "signal0"}
               PROVE  /\ wpc[r][t] = "signal" => spc = "timedwait" /\ self = r
                      /\ wpc[r][t] = "signal0" => call = "start"
    OBVIOUS
  <2>1. Turn(r)
    BY DEF AInv, Unborn
  <2>2. wpc[r][t] = Place(r)
    BY <2>1, Zenon DEF Turn, Alone, Place
  <2> QED
    BY <2>1, <2>2, Zenon DEF Turn, Idle, Rests, Starts, Asked, Answered
<1>4. AInv => [\A r \in Routine, t \in Thread :
                 late = 0 /\ wpc[r][t] = "signal" /\ wpc'[r][t] = "task" => spc = "timedwait" /\ self = r]_vars
  BY <1>3, Zenon
<1>5. AInv => [\A r \in Routine, t \in Thread :
                 late = 0 /\ wpc[r][t] = "signal0" /\ wpc'[r][t] = "test" /\ spc = "timedwait" /\ self = r
                   => call = "start"]_vars
  BY <1>3, Zenon
<1> QED
  BY <1>1, <1>2, <1>4, <1>5, KInvStep, BaseAlways, PTL DEF Spec, AnswerHeard, AnswerMatchesCall
==============================================================================
