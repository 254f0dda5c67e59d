# TLA+ models of the monitoring agent

The agent gathers metrics of a host and its databases and posts them to a
server.  This directory models its start-up and configuration, its concurrent
core, the protocol of a plugin with the server, and the packets it sends, checks
the models with TLC, and proves with TLAPS, for instances of any size, the
safety properties that the passing runs check.  Three theorems have a condition,
without which they are false: `ReadyReachableAlone`, `AnswersKept` and
`PayloadIsJsonAlways`.

## Inventory of the system

| part | source | threads and state | modelled in |
|---|---|---|---|
| main | `src/agent.c` | initialises, starts scheduler, storage and plugins, then polls scheduler and storage every 70 ms | `Startup`, `Routine` |
| routine | `src/routine.c` | a thread that waits for a ping, answers with a pong, runs its task; start, ping, stop, restart | `Routine` |
| scheduler | `src/scheduler.c` | a routine whose task pings the plugins that are overdue and restarts those that gather and do not answer | `Routine` |
| plugin | `src/plugin.c` | a routine whose task is prepare, register, gather or alert | `PluginTask`, `Startup`, `PacketPool`, `Payload`, `PacketClock` |
| packet | `src/packet.c`, `inc/packet.h` | state, spin, payload; fetch, change of state, gather with rollback, expiry | `PacketPool`, `Payload`, `PacketClock` |
| storage | `src/storage.c` | a routine that walks the list of packets and posts; `get_packet`, which plugins call | `PacketPool` |
| sender | `src/sender.c` | one curl handle and spin per packet type | `Sender`; as an atomic post in `PacketPool` and `PluginTask` |
| os module | `src/plugins/os.c` | pipes to awk and ps | `Payload` |
| mysql module | `src/plugins/mysql.c` | connection, up/down flag | `PluginTask`, `Payload` |
| configuration parser | `src/sparser.c` | a line automaton | `Sparser`, `ConfFile` |
| metadata | `src/metadata.c` | identity of host and agent | `Startup` (agent id) |
| unsent store | `src/unsent.c` | dormant: only its initialisation is called | not modelled |
| daemon, util | `src/daemon.c`, `src/util.c` | system call wrappers | not modelled |
| jspd, packaging | `jspd/`, `pack.sh`, `debpack.sh` | jars and scripts, no source of the agent | not modelled |
| headers of MySQL and zlog | `inc/mysql`, `inc/zlog` | declarations of other projects, most of the lines of the repository | not modelled |

What runs at the same time: main, the scheduler, the storage and one thread per
plugin.  They meet in the list of packets (plugins and storage), in the curl
handles (plugins that register or raise alerts) and in the ping/pong mutexes
(main with scheduler and storage, scheduler with plugins).  The agent id, the
target files and `plugin.conf` outlive the process.
`PROJECT.json` lists the hazards that follow from this, each at the line where
it bites, with the properties that would catch it.

## Modules

**PacketPool** has the list `packets`, one `get_packet`/`plugin_gather` per
plugin thread and one `storage_main`.  A step is one access to shared memory:
each compare-and-swap, the plain stores that release a spin, the read of the
head into `pkt->next`, the store of the new head.  What a thread does to a
packet that is its own (by `ExclusiveUse`) is merged with a neighbouring step.
`next` of a published packet does not change.  A payload is the sequence of
its header and numbered records.  `FetchUnlock` has only the READY outcome of
`packet_fetch`: `PostingReady`, checked and proved, says the other one does not
occur.  A plugin is one thread here: what a restart in the middle of a gather
does to the packet is the subject of `Routine` and `Payload`.

**Outbox** is what the pool promises: batches that are filled, sealed, never
changed and sent until acknowledged.  **PoolRefinesOutbox** maps the pool to it.

**Routine** has a supervisor and its routines at the level of mutexes, condition
variables and `pthread_cancel`.  Mutexes have no owner, because the code unlocks
ones it does not hold and default glibc mutexes allow that; a thread cancelled
in `pthread_cond_wait` locks the mutex again before it dies.  Spurious wake-ups
are not modelled.  `Policy` is what the supervisor does after a failed ping:
`never` (main with storage), `always` (main with scheduler), `gather` (scheduler
with plugins).  `posting` has the threads whose task is in `post`, and `late`
and `stray` remember a handshake over 50 ms and a thread that was told to end
and yet began a task or changed which one is next; properties excuse what
follows from them.

**PluginTask** has one run of the task per action for one MySQL plugin: every
way a post can end (including an answer that is lost, and a body, which makes
curl fail since `callback` returns 0), the database going down and coming back,
the process being killed and started again.  `silent` says that the database's
host does not even refuse a connection: then calls of the client library do not
return, and only `GatherCut`, the restart by the scheduler, ends a gather.  A
target id is a fresh number; what the code computes is in `Startup`.

**Payload** has the JSON text that one plugin writes to a packet, as tokens: the
commas that the sections of `os.c` and `mysql.c`, `packet_gather` and
`plugin_gather` decide on one by one.  A gather begins (`Begin`), reads five
sections one at a time (`Read`), or none if the ping reports a change (`NoPing`),
and ends in a record or in the text at the rollback point (`End`).  The members
that the code writes in a row without a condition are one token; their names,
values and the elements of their arrays are abstracted.  The reference is a
definition of JSON by matching brackets and neighbours.  `Killed` cuts a gather
short between two steps: its half record stays, the next one follows it, and
`killed` remembers that until the packet is reused.

**Sparser** is `sparse` with `skip_until`, one line of `plugin.conf` per step.
A line is known by its first character and what the code tells apart in the
rest; `NoFile` is a file that cannot be opened.  A write past `argv` or `plugins`
ends the run as "overrun".  **ConfFile**
has the reference, which knows no states: the lines with '>' divide a file into
blocks, a block has one of four forms, and the plugins are those of the blocks that
load, in the order of their lines.

**Sender** is `post`, with a step for each use of the spin and of the curl handle,
by any number of threads; `answer` and `told` are what the server said to each
packet.  **Startup** extends it: main from `meta_init` to the running plugins,
`get_aid`, the target files and `plugin_regr` of several plugins at a time, and
the process being killed between any two steps and started again after
`plugin.conf` was edited.  An id is the product of three readings of the clock,
cut to a word (`Id`): any number of different readings give the same id, and one may
be 0, which means none.  `clash` remembers that an id was made up that was 0, in
memory, or registered.  A file is named by its id alone, so a plugin with an equal
id overwrites it (`Written`).  Files are written in one step here; a file cut short
by a crash is in `PluginTask`.

**PacketClock** has one plugin and its packet against the clock: when gathers
begin (`due`), when the packet expires, how many records it has got and how long
it is.  Gathers may take any time, be cut short by a restart with any part of
a record written, and the clock may be set back.  The text of a gather has any
length: nothing in the code limits it.  `peak` is how far the text of the packet
ever reached, with what was taken back again and with the closing brackets, and
`longest` the longest text of one gather.  Where a gather is cut short,
the thread ends in the same step; that two threads of a plugin may write to one
packet for a moment is in `Routine` (`OneLiveThread`) and not here.

**MCPacketPool**, **MCRoutine**, **MCStartup** instantiate for TLC.
**PacketPoolProofs**, **OutboxProofs**, **StartupProofs** (with those of the
sender), **PacketClockProofs**, **RoutineProofs**, **PluginTaskProofs**,
**PayloadProofs** and **SparserProofs** have the proofs.

Next to some definitions there is a variant marked "Mutant": the same operation
with a plausible mistake.  Replacing the operation by it must break the property
named in `PROJECT.json`, which shows that the property depends on that code.

## Runs

| run | instance | shows |
|---|---|---|
| `pool_safety` | 2 plugins, 3 packets, 1 record each | packets are exclusive, nothing is lost or mixed, the tick stays positive; the pool implements the outbox |
| `pool_live` | 1 plugin, 3 packets, 2 records | without a competitor every packet stays on the list and every record is delivered |
| `pool_lost` | 2 plugins, 4 packets, 2 records | **violation**: a sealed packet drops off the list |
| `routine_main` | scheduler and storage, no late answer | answers are heard and match their call; both keep running |
| `routine_plugins` | one plugin, 3 threads, one late answer | threads but the current one have been told to end; none is told while it posts, unless a dying thread began or changed a task; a late answer is needed to wedge a routine, and one that is not restarted then stays so |
| `scheduler_hang` | scheduler, 3 threads | **violation**: main waits for ever after a restart |
| `plugin_task` | 3 ids, 2 connection ids | registration, files and alerts agree with the server; a database that is down is reported if its host answers; metrics after a down alert need a reused connection id |
| `payload` | os and mysql, 2 gathers, all outcomes of the os commands, mysql status queries succeed, gathers cut short | the packet is JSON unless a gather was cut short in it, and holds a record if it is sent |
| `mysql_json` | 1 mysql gather, any query fails, listings have uninitialised strings | **violation**: `{,` in the innodb section, or a string cut short |
| `conf` | all files of up to 6 lines, and none, arrays of 2 | `sparse` loads what the blocks ask for, and overruns its arrays only for a file that holds too much |
| `startup` | 2 plugins, 1 or 2 targets, 2 starts, clock 1 or 2, words of 0 to 2 | answers reach their own thread; one agent id; ids stay with their targets unless one in use is made up again |
| `records` | tick 2, expiry 5, at most 4 records of length 1 or 2, 11 time units, 2 restarts, 1 step back | records per packet are bounded; a packet is overrun only after a restart, or with the clock set back in a gather, or if 4 of its longest texts do not fit |

The violations are the findings of `PROJECT.json`; each quotes the comment of
the code it contradicts.  `CHECK_DEADLOCK FALSE` stands where the modelled
threads really can block each other (`routine_plugins`, `scheduler_hang`),
where `sparse` has returned (`conf`), or where the bound on gathers, starts or
the clock ends the run (`payload`, `startup`, `records`).

### Bounds

Two plugins are enough for every pair of claims, pushes and walks to interleave;
with three packets a recycled packet, a new head and an old head exist at once,
and four let a push be lost and then sealed.  (`pool_safety` has one record for
each plugin, so that the order of the records in a batch is left to
`BatchesWholeAlways`; with two each it passes as well, in about five minutes.)  Three failures make the 3-bit
delay wrap, which posts that fail again and again reach without a bound.  Three
threads of a routine are one dying, one cancelled, one new; the names of dead
threads are used again, so restarts are not bounded.  `MaxLate` is one where a
late answer is the point and zero elsewhere.  Two gathers give a first and a
following record in all combinations.  Six lines hold a block with an
argument and one after it, three blocks, or a block with more arguments than
`argv` takes; the arrays are shortened to two so that both can be overrun.  Two
starts are one that leaves files and one that finds them.  With a clock that shows 1
or 2 and words below 3 the ids are 1 and 2: products wrap, different readings give
the same id, and two plugins take both ids or one of them twice.  An id of 0 does not
come up; the theorems, for any clock and word, have it.  The two blocks have one
target or two, and `res/` is missing with one.  In `records` an expiry is two to
three ticks, as for the os plugin (2.977 s, and 7 s, which is what 6.033 amounts to in
whole seconds), so that 4 records are the most in both; four of length 1 fit, and
four of length 2 do not.

### Fairness

`PacketPool`: threads are scheduled; a spin that is free again and again is
obtained; a packet expires, since `packet_expired` compares with the clock; the
server takes each packet that is offered again and again.  `Routine`: threads
are scheduled, tasks return, the clock runs, a mutex that is free again and
again is obtained.  `routine_main` assumes in addition that a round of the
scheduler ends before main polls it again 70 ms later (`Quick`), and that no
answer takes more than the 50 ms of `routine_sync` (`MaxLate = 0`): without the first
`scheduler_hang` occurs, without the second storage can be wedged, and then is
for good (`WedgedForGood`).  `PluginTask`: the scheduler keeps pinging, and a
post that is repeated for ever succeeds.  `DownReported` assumes in addition that
`mysql_ping` learns of a refused connection before the scheduler's next poll, so
that not every gather is cut short.  For a silent host the code does not give that:
`mysql_prep` sets no timeout, and the poll comes after half a second.  The property
excludes it, and nothing is assumed about gathers then.

## Proofs

Every theorem is about all values of the constants that meet the named `ASSUME`
of the module, and each module's proof has one step per action.  The inductive
invariants were checked by TLC on small instances before they were
proved.

| module | assumes | theorems |
|---|---|---|
| `PacketPoolProofs` | `PoolAssumption`: NULL is no packet, the bound is a natural number | `TypeCorrect`, `Exclusive`, `Posting`, `Frozen`, `NeverZero`; for one plugin `ReadyReachableAlone` |
| `OutboxProofs` | the same | `ConservedAlways`, `BatchesWholeAlways`, `PoolImplementsOutbox` |
| `StartupProofs`, the sender | `SenderAssumption`: a thread is not the null pointer, there is a type | `HandleExclusiveAlways`, `AnswerOwnAlways` |
| `StartupProofs` | `StartupAssumption` in addition: main walks through all plugins, a host gives every plugin a target, the clock shows numbers, and a word has at least one value | `StartupTypeCorrect`, `RegistrationsAnswered`, `AidStableAlways`, `IdNamesTargetAlways`, `TidsDistinctAlways`, `FilesOfGatheringAlways`, `TargetKeptAlways` |
| `PacketClockProofs` | `ClockAssumption`: `Cap - 1` ticks are at least the expiry, which defines `Cap`; lengths are any numbers | `ClockTypeCorrect`, `RecordsBoundedAlways`, `PacketFitsAlways` |
| `RoutineProofs` | `RoutineAssumption`: a supervisor starts at least one routine, and none twice | `RoutineTypeCorrect`, `OneLiveThreadAlways`, `PostSparedAlways`, `WedgedForGoodAlways`, `WedgeNeedsMissAlways`; for main's routines `AnswersKept` |
| `PluginTaskProofs` | `PluginAssumption`: there is an id and a connection id | `PluginTypeCorrect`, `RegisteredTidAlways`, `OneTargetAlways`, `StatusAgreesAlways`, `MetricsNotDownAlways` |
| `PayloadProofs` | `PayloadAssumption`: which modules there are | `SealedHasRecordAlways`; under `ServerAnswers` `PayloadIsJsonAlways` |
| `SparserProofs` | `SparserAssumption`: the arrays have a size | `OverrunNeedsManyAlways`, `ConfMeaningAlways` |

### The pool and the outbox

`ExclusiveUse` and `PostingReady` are not inductive alone.  The invariant `IInv`
adds `Pointers` (what each program counter says about the local pointers: a
thread past its claim has a packet, storage has one unless it is idle) and
`Fresh` (packets not yet allocated are EMPTY, so a new one is not the packet
of anyone).  A claim is safe because its compare-and-swap succeeds on DONE only,
which no held packet is; a seal is safe because it gives the packet up in the
same step; a post is safe because only storage leaves READY.

`BInv` follows the records.  The batch a plugin fills is a header and
consecutive records that end with the last one made, and begins after all that
were sealed (`Filling`); what is sealed or received is whole, and two such
batches of a plugin are one before the other (`SealedWhole`, `SealedApart`,
`SealedOnce`); every record is in one of the two places (`Kept`).
`RecordsConserved` and `BatchesWhole` follow.  The refinement uses `IInv` and
`BInv`: `Gather` is a step that collects, and seals if the packet has expired, a
post that succeeds is a step that sends, and all other steps of `get_packet` and
`storage_main` leave the outbox as it is, because a packet that is claimed is
neither filled nor sealed (`Claimed`).

`ReadyReachable` is false with two plugins (`pool_lost`).  For one it is proved,
with any number of packets: each is on the list or about to be put in front of it,
with the list behind it (`LInv`).  `ListFrom` is stated without recursion, as what
is in every set that has the head and is closed under `next`, so that a push can be
argued about without induction.

### The sender and the start-up

`SInv` follows a post through the handle: a holder has the lock (`Locked`), the
handle points to the holder's packet from `SetOpt` on (`OwnPacket`), its status
is that of the holder's answer after `Perform` (`OwnInfo`) and so is the result
the thread takes away (`OwnResult`).

`UInv` of `StartupProofs` extends it to the whole agent.  Where main is says what
the process has in memory (`Life`, `Ids`); every file and every answer "ok" is
that of a registration (`Server`), all of which have the agent id that is in
`.aid` (`AidKept`).  Unless there was a clash, an id names one target in the server,
in memory and on disk (`OneName`), and none that was registered is 0 (`Nonzero`).
Nothing is assumed of the clock: that ids stay apart is not proved but is what `clash`
records, and the theorems say that nothing else can make two targets one, give a file
to two plugins or cost a target its id.  `FilesKept` is what overwriting leaves of the
files.  For `TargetKept`, an id that was registered is either in memory or in a file until
it is taken up (`Remembered`); a kill in between is what `disturbed` excuses.
That the search of main finds a plugin is the least-element principle for numbers
(`WFMin` of the library), the one place where an induction is needed.

### The packet against the clock

The bound on records is inductive with two facts about the clock: the last
gather began as many ticks after the first as there are records (`Spaced`), and
all but the last were within the expiry when they ended (`Young`), since a packet
older than that is sealed.  `Sized` gives every record at most the longest text as
its share of the length, and `Within` the same of the furthest end of the text; the
hypothesis of `PacketFits` is about that longest text, which the code does not limit.

### The routines

`OneLiveThread` alone does not survive `routine_start`, which makes a new thread
the running one.  `RInv` says when that is safe: a routine that was never started
has no thread (`Fresh`, which needs that none is started twice), between
`routine_stop` and `routine_start` all its threads have been told to end
(`Ended`), and only a started routine is pinged and stopped (`Phase`).

`PostSpared` needs that the scheduler's decision stays right while it acts on it:
a thread that posts was not told to end and its task is not to gather
(`PostsKnown`), and from the decision to the cancellation the plugin gathers, or
its thread is at rest, where only a ping moves it (`Decided`).  A thread that was
told to end and still begins or changes a task breaks this, and `stray` excuses
that.

`WedgedForGood` is an action property and needs only the types and `RInv`.
`WedgeNeedsMiss` is a matter of counting.  A wedge is a routine with one thread,
which holds `ping_me` and waits for `pong_me`.  After a restart there are old
threads too, and each takes `ping_me` once more and dies with it.  As long as no
handshake was late, either the threads that will do so are at least as many as the
chances there are to get `ping_me` (`Slack`), so the last thread does not get it,
or no thread is between a wakeup and its answer, or there is one and the supervisor
is in `routine_sync` with it (`Expected`).  `KInv` has what that rests on: a
routine that is not being restarted has a thread that lives (`Living`), and only
a thread about to signal takes `pong_me` from a waiting supervisor (`Held`).

`AnswerHeard` and `AnswerMatchesCall` are false where a routine may be restarted
while its task still runs, since its old threads signal as well.  They
are proved for `Steady` supervisors, whose routines are each never restarted or
done with the task when they are polled.  That is main with storage and scheduler,
the instance of `routine_main`.  There a routine has a single thread, and
it and the supervisor take turns: `AInv` lists them (`Unborn`, `Starts`, `Idle`,
`Asked`, `Answered`).

### The tasks of a plugin

`PInv` adds three facts to the properties: `m->on` is off just from a down alert
to the up alert after it, and no metrics flow while an alert waits (`Alerting`); a
connection that was lost has its old id only if it was given out again
(`NewConnection`); a plugin that is not registered is not known to the server
unless the agent did not hear of it (`Unknown`).

### The configuration parser

`OverrunNeedsMany` compares the arrays with the lines.  While `sparse` reads, there
are at most as many plugins as lines with '>', and at most as many arguments as
lines with '-' since some line after which no block was opened or closed
(`Counted`); one line more changes each count by at most one (`CountLine`).  What
is left in `argv` when a block was closed is not counted, and is reset at the next.

`ConfMeaning` says what `sparse` has done when it returns.  `Meant` says what it has
done so far: the blocks that were closed are whole (`Earlier`), `plugins` lists those
that load, and `status`, `type` and `argv` are where the last block has come to
(`Stage`).  A line either closes this block, or leaves it as it is, or becomes its last
line (`BlockNext`), and a block keeps its meaning when lines are added behind it
(`SameLines`, `BlockKept`).  What a line makes of a block that is open is in
`FirstLine`, `AfterBare`, `AfterNamed` and `OffGrows`: each says which lines continue
it, and that with any other it is no beginning of a block, which is when `sparse`
returns -1.  The reference was stated without recursion for this: arguments and
plugins are ordered by the rank of their lines (`Ranks`), so that no induction over
the file is needed.

### The text of a packet

`IsJson` is about a whole text, so the proof needs to know what can still be
completed.  `At(t, n, x)` says that the brackets of `t` match as far as it goes,
that `n` of them are open, and that its last token is `x`; which ones are open is
then known from `n`, since the outermost is that of the packet, the next the array
of the records, and so on (`Bracket`).  One token is added at a time
(`PutPlain`, `PutOpen`, `PutClose`), and closing the last bracket gives JSON
(`Finish`).  What a section reads, whichever commands fail, is a text that leads
from its brace to a place where it may be closed (`Continues`, `OsFits`, `MysqlFits`).
With that `JInv` is inductive: between two gathers a packet is right after its
header or a record, during a gather the text to go back to is, and the rest of it
ends within "values".

For packets of the os plugin this holds for every outcome of the commands.  For MySQL
it is false as the code stands, which `mysql_json` shows, so the theorem has the
hypothesis `ServerAnswers`: if there are MySQL plugins, their status queries succeed
and the strings that the listings take from uninitialised memory do not end early.

`SealedHasRecord` needs no hypothesis.  `HInv` compares lengths only: a packet that
was begun has its header, one that was written a record besides, the same for the text
to go back to, and a gather that is cut short makes it no shorter.

### Only model-checked

- Liveness (`RecordsDelivered`, `KeepsRunning`, `DownReported`, `Registers`):
  it rests on fairness, which the prover does not handle.
- `PayloadIsJson` for MySQL plugins whose queries fail: it does not hold.
- `ReadyReachable` for more than one plugin, and the other findings: they are
  counterexamples.

## What the code does that its texts do not say

Besides the findings, which have a run each:

- A gather that outlasts the scheduler's poll (0.53 s) is cut short and begun
  again, its text stays in the packet, and it never gets to `packet_expired`:
  neither the length of the packet nor its JSON is then safe (`PacketFits` and
  `PayloadIsJson` excuse this).  `inc/packet.h` says `packet_fetch` returns
  "a json string".
- `inc/packet.h:91` says a packet expires after a minute; it is 7 s.
- The README says to add a line such as `os` to `cfg/plugins`; `sparse` reads
  `/etc/maxgaugeair/plugin.conf` and returns -1 for such a line.
- Nothing limits the length of a record.  With 32768 bytes and at most 4 records (3
  for MySQL), a gather of more than about 8 KB (10 KB) can take a packet past its end.
- A database whose host is silent, rather than refusing the connection, is never
  reported down: `mysql_ping` waits longer than the scheduler, which restarts the
  gather every time.
- Ids are products of the clock in 64 bit.  Two plugins with an equal id share a file,
  the later one overwriting it, and after the next start one of them gets a new id.
- After -1, also when there is no `plugin.conf`, main goes on with no plugin and removes all target files.
- The daemon changes to `/`, so `res/` is `/res`, which nothing creates: without
  it the process ends in `fwrite` once the server has taken the registration.
- The README says the process id is in `res/pid`; it is in
  `/etc/maxgaugeair/etc/.pid`.
- Of two blocks with the same target, the first takes the ids of both.

## Not modelled

- The text of names and values (escaping included) and what follows a write past
  an array or past `PKTSZ`, which is undefined.
- Failures of the file system other than a missing `res/` and `.aid`,
  of `sender_init` (the agent goes on with freed handles), and of memory.
- `unsent.c`: the agent never calls the part that stores and sends.
- `daemon.c`, and the parts of `metadata.c` that copy the host's name and address:
  straight sequences of system calls.
- What state the MySQL client library is in after a call of it was cancelled.
- curl's internals, weak memory (accesses are interleaved one at a time), and the
  end of the agent (`routine_fini`, `storage_fini`), which nothing triggers.
- The two levels of supervision at once: main with the scheduler and the
  scheduler with its plugins are separate instances of `Routine`, since a
  product of the two is out of TLC's reach with more than one thread each.
- The bundled headers, `jspd` and the packaging scripts, which hold no code of
  the agent.
