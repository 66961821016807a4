# The process manager, the parameter cache and the TR-069 agent of codefactory in TLA+

The repository is a collection of programs. Three of them keep state that several
processes or threads change, and are modelled here:

* `src/DB_MSG_ProcessManage`, a process manager for an embedded device: the daemon
  `sched` launches the applications of a fixed table, connects them, routes messages
  and events between them, and collects them when they end;
* `conflib` of the same directory, the library with which those applications share
  their parameters: a System V segment, a semaphore and a file;
* the core of `src/TR069_Client_Lib_CLI_DEMO/tr69Agent`, an agent that reports to a
  management server (ACS), carries out its requests and keeps them over a restart.

The rest of the repository is listed at the end with the reason it is left out.

## 1. Inventory

| Component | State | Operations | Interacts with |
|---|---|---|---|
| event loop and handlers, `sched/tpciserv.c` | `readFdsMaster`, locals of the handler | accept, receive, route, distribute, register, start, stop, restart, query, collect | all below |
| record list, `sched/dls.c` | `dlsInfoHead`: one `DlsInfo` per application or instance | look up, insert, init in two stages, clean up | server sockets, entity table |
| launcher, `sched/launcher.c`, `main.c` | `keepLooping`, the message queue in each record | launch, queue, send by state, boot in two stages, SIGTERM | record list, process control |
| event interest, `sched/interest.c` | list of event types, each with its interested eids | register, unregister, unregister all, find | count in `DlsInfo` |
| process control, `sched/prctl.c` | kernel process table | spawn, signal, collect with timeout | kernel |
| timers, `sched/timer.c`, `liboal/timer.c` | ordered list of callbacks | set, cancel, run expired | records (through a pointer) |
| client library, `libmsg` | handle with socket and put-back queue | connect, send, receive, request/reply, put back, requeue | `sched`, by UNIX socket |
| entity table and eids, `liboal/eid.c`, `tcm_eid.h` | constant table | look up, compose and split eids | everything |
| applications `lan`, `dhcpd` | socket | send requests, receive, exit with `sched` | `sched` |
| parameter cache, `conflib/configapi.c` | shared memory, semaphore, flash file | init, read, write, add, delete, save, leave, release | several processes |
| agent events, `core/event.c` | `timingList`, `timeoutList`, event codes | add, tick, take, call back | main session, files |
| agent session, `core/mainloop.c` | retry count, event codes, reboot flag, semaphore | wait, connect, inform, report, serve, set the next inform | ACS, event list, files |
| agent start, `core/host_handler.c` | free indices, the task and result directories | rebuild the event list, events of the host | event list |

How the parts interact. `sched` is one thread around `select()`. An application
connects to its listening socket and sends a launch message; from then on `sched`
reads one message at a time per readable connection and handles it to the end.
Handlers block: `collectApp` waits up to five seconds for a child, kills it and waits
again; accepting waits up to 200 ms for the launch message; writes block.
Meanwhile the applications run: they exit, crash, connect and send.

The applications that use `conflib` have nothing but the kernel between them: each
finds the semaphore and the segment by key, and the calls that write hold the
semaphore. The agent has three threads: the timer thread moves events from one list
to another every second, the event thread calls their callbacks (which download,
write files and set codes), and the main session talks to the ACS. Files carry
requests and results over a restart.

What is hard:

* the application's life and `sched`'s view of it move apart: a process ends before
  its connection is read, a launch message is read after its sender was killed, a
  stop meets a crash, a launch fails after a message was queued;
* a record is found by eid, by descriptor and through a pointer held across a call
  that may free it;
* the interest lists and the count in the record are kept apart;
* records, pids and descriptors are finite and some leak;
* two functions return nothing when they find nothing;
* the semaphore of the parameter cache is created in two steps, is removed by callers
  that are done with it, and is not undone when its holder is killed;
* readers of the cache take no lock; rows and values come from one pool of nodes that
  is used again and again;
* the power can fail between any two files the agent writes; an event code set by one
  thread is cleared by another; one inform event is all that wakes the session again.

What makes each part correct: at most one record and at most one live child per
single-instance application; a connection belongs to one record of the right
entity, in the right state; messages queued for a starting application reach it; an
ended child is collected; the interest count agrees with the lists and interests
survive a restart; a server that is not running can be woken; instances are told
apart; stopping `sched` leaves no application behind. (A launch that fails is the
exception to two of these: nothing notices it, section 4.) The lock of the cache admits one
process, is always given back, and every call returns; the nodes behave as the store of
parameters and rows that callers see. A request the agent has stored is not lost, its
result is reported, and the agent can always be woken. `PROJECT.json` lists the
hazards line by line.

## 2. Plan

1. **Core (done).** `Dls`, `Interest`, `Sched`: the daemon, composed with its
   applications and the sockets between them; `SchedProps`, `MCSched`; type
   correctness and the connection invariant proved in `SchedProofs`.
2. **Extensions (done).** `ConfLock`: the parameter cache as several processes use it,
   proved in `ConfLockProofs`. `ConfTable` and `ConfStore`: its contents, and the
   abstract store they implement. `Agent`: the threads, sessions and files of the
   TR-069 agent.
3. **Proofs (done).** Of `Sched`: every invariant and action property its passing runs
   check (`SchedProofs`, `SchedRecordProofs`, `SchedInstanceProofs`,
   `SchedAddressProofs`). Of `ConfLock`: its three invariants. Of `Agent`: `TypeOK`,
   `AlwaysWakes` and, for requests that ask for one transfer of each kind,
   `NoTransferLost` (`AgentProofs`, `AgentTransferProofs`). Liveness, the refinement of
   `ConfStore` and `ReadIsCurrent` stay with TLC; section 5 says why.
4. **Left open.** The blocking request of libmsg with bounded sockets; the `readFds`
   snapshot and descriptor reuse; transfers made within a session.

## 3. Modules

| Module | Models |
|---|---|
| `Dls` | constants of the system (entity table, flags), eids, messages, the `DlsInfo` record and the operations on one record |
| `Interest` | registrations and the outcomes of the four operations on them |
| `Sched` | the daemon as a state machine, the applications, sockets and processes |
| `SchedProps` | the properties, the inductive invariants, fairness |
| `SchedProofs` | types and connections: the theorems and their lemmas |
| `SchedRecordProofs` | records, server sockets and registrations |
| `SchedInstanceProofs` | one process per single-instance application |
| `SchedAddressProofs` | instances of a multiple-instance application are told apart |
| `MCSched` | entity tables and request sets for TLC |
| `ConfLock` | the semaphore, the segment and the file of `conflib`, and the processes that use them, one step per system call |
| `ConfLockProofs` | the theorems about it |
| `ConfTable` | the nodes in the segment, the calls on them, the file format as lines, a reader |
| `ConfStore` | what callers are promised: parameters and rows by number, and what each call returns |
| `Agent` | the three threads of the TR-069 agent, its event lists, its files, restarts |
| `AgentProofs` | types, and that the main session is always woken |
| `AgentTransferProofs` | stored transfers survive until they are reported |
| `MCConfLock`, `MCConfTable`, `MCAgent` | who calls what, an entity table and default file, the requests of the ACS |

Operators whose comment starts with "Mutant" are deliberately wrong versions of the
definition that follows. They are used to see that a property notices the error, and
nothing else refers to them.

### State and code of `sched`

* `dls`, `listed`: the records and which of them are on `dlsInfoHead`. The order of
  the list is not kept; a lookup that could match several records may return any. A
  slot is a heap address: it can be freed and used again.
* `monitored`: `serverFd` is in `readFdsMaster`. `insertDlsInfoEntry` tests
  `flags && APPCFG_SERVER`, so every entity with a flag has a server socket
  (`OpensSocket`); `leaked` counts the sockets whose record was freed. `FdLimit` is
  the number of server sockets `sched` can have open.
* `interests`: a set of (type, eid, match data).
* `proc`: the kernel's process table (`child`: started by `sched`; a dead child stays
  until it is collected). `conn`, `backlog`, `toSched`, `toApp`: the connections. A
  connection is named after the process at its other end.
* `pc` and `job`: where `sched` is, and the handler's locals (`caller` is `dInfo`,
  `target` the record `collectApp` works on).

### Actions and code of `sched`

A handler that runs without waiting for anybody is one action. One that waits is
several, so that the other processes can act in between:

* `AppLauncher`, `InitDls2`, `InitDls2Fails`, `BootDone`: `main()` up to the loop.
* `Accept`, `AcceptFails`, `ServerFdReadable`, `Disconnected`, `Sigterm`: the branches
  of `sched_processEvents` and the end of `sched_main`.
* `RecvRequeue`, `RecvEvent`, `RecvRegister`, `RecvIsAppRunning`, `RecvAppControl`,
  `RecvOther`, `RouteMessage`: `sched_processMessage`. `Distribute` delivers an event
  to one interested party.
* `StopApp` → `Collect` / `CollectNothing` / `CollectTimeout` / `CollectGiveUp` →
  `FinishCollect` → `StartApp` → `Reply`: stop, restart and collection. `Return` says
  where `collectApp` goes back to.
* `AppConnect`, `AppSendLaunched`, `AppSend`, `AppReceive`, `AppRequeue`, `AppDies`,
  `AppTerminated`, `AppSeesClose`, `SelfStart`: the applications with libmsg.

Modelled as they are in the code: `PID_IN_EID`, which always gives 0; `START_APP`
without, `RESTART_APP` with, the pid stripped from the eid; the reply through a
freed record (`FreedSlot`: the descriptor read there is -1 or garbage); a write to a
closed connection, which ends `sched` by SIGPIPE unless it was started with the
signal ignored (`SigpipeIgnored`); a search without return value, whose outcome is a
choice between NULL and the list head (`MissingReturn`).

### `conflib`

`ConfLock` keeps the kernel's side (`semKey`, `semVal`: the semaphore under the key;
`shmKey`, `cache`: the segments; `flash`: `os.conf`) and each process's side
(`addr` is `cache_addr`; `op`, `pc`, `sem`, `buf`, `rm`: the call it is in). An
identifier is not given out again while somebody still holds it, as the kernel's
sequence numbers see to; a segment without key and attachments is gone. The steps of
`config_api_init_library` are `SemGetExcl`, `SemGetAgain`, `SetVal` (`init_cache_lock`),
`GetSemId`, `LockCache`, `InitLookup`, `BuildCache`, `FillCache`, `RegetShm`,
`UnlockCache`, `UninitGet`, `UninitRemove`; a writing call is `GetSemId`, `LockCache`,
one of `WriteParameter`, `WriteTableParameter`, `AddTableRow` and `DeleteTableRow`, or
`OpenFlash` and `WriteFlash`, and `UnlockCache`. The four writers have one disjunct for
each `return` of the function, with the step the code takes before it: whether each
unlocks is said return by return, as in the code. `Faults` lets files, `shmget` and
`shmat` fail; a segment that `shmget` made stays when `shmat` fails. `Crash` kills a
process anywhere. What the parameters are is one value here (`Blank`: no applications).

`ConfTable` opens that value: application, row and parameter nodes with ids and offsets
(`CONFLIB_TABLE_ID_SENSITIVITY`, as the source defines it). Calls that write are atomic,
since `ConfLock` shows what the lock gives; where it fails (below) nothing is claimed. A
reader is one step per node. `SaveAndInit` prints the table as lines and builds it
again. `store` is computed from the nodes and is what `ConfStore` speaks of: the
refinement is `ImplementsStore == Store!Spec`. A row that found no nodes for all its
values stays and the call fails: `ConfStore` says so too.

### The agent

`timing`, `timeout` are the lists; `job`, `evpc` the event thread; `pc`, `gRetryTimes`,
`reporting` the main session; `task`, `result` the two directories, with the command key
in each file, or `Unwritten` in a result that was opened and not written; `noBootstrap`,
`mReboot`, `requestDownload` further files. `stored`, `acked`, `unwritten` (results
`fwrite` failed to write) and `silent` (the last session set no inform event that comes
due, and the host has set none since) are history. One action is what a thread does between two points where another,
the ACS or a power failure can act: `Tick`; `EventTake`, `EventInform`,
`EventScheduleOrStun`, `EventTransfer`, `OpenResult`, `WriteResult`, `DeleteTask`; `Wake` to
`EndSession` in the order of `main_session`; `ServeTask`/`StoreTask`, `ServeReboot` for
`handle_server_rpc_commands`; `HostEvent`; `Restart` by `Reboot` or `Crash`, which
keeps the files and runs `init_delay_events`. `tmp_file_lock` is held from `OpenResult`
to `DeleteTask`. `fopen` empties the result file, a failed `fwrite` leaves it empty, and
the task is deleted all the same; what `fread` then leaves in the uninitialised response
is a choice (`Response`). What `update_managementServer_variables` reads at the end of a
session is any member of `ManagementServer`: periodic informs on or off, and an interval
that may be 0, since neither is validated. `gHoldRequest` of `mainloop.c` stands in the
guards and is 0: nothing assigns it. The variable that the ACS's HoldRequests sets is a
static one of the same name in `soap_parser.c`, and its `get_holdrequest` has no caller. A list made in a loop (the events the timer thread moves,
the tasks a start finds) is the set of its members put in order by `Ordered`, which
needs no recursion. Time left after a restart is any from now to the whole
delay. An exchange with the ACS fails, or is answered wrongly, at most `MaxFaults` times.

### What is abstracted

In `sched`: message payloads, names, command lines, sequence numbers and log output. `wordData`
is split into three fields by use. Messages are read whole. Memory for messages does
not run out. Sockets have no capacity. `initDls(1)` succeeds. The fields
`numDelayedMsgRequested` and the state `DLS_TERMINATE_REQUESTED` never get another
value in the code and are left out.

## 4. Runs

Deadlock is not checked: an instance whose bounded requests are used up, or whose
`sched` has stopped, really may stop.

| Run | Instance | Shows |
|---|---|---|
| `control` | two messaging applications, one with auto-relaunch; start, stop, restart, query, route; 3 requests; crashes, exits, early failures | `TypeOK`, `ConnectedIsRunning`, `SingleRecord`, `SingleInstance`, `RunningHasConnection` |
| `interest` | the same and an entity without executable; register with and without match data, unregister, events, restart, unknown and absent destinations, processes that survive SIGKILL; 3 requests | `InterestsCounted`, `InterestSurvivesExit` |
| `live` | one application per boot stage, restart or route, crashes, launches that fail, SIGTERM, failure of the second stage; fair | `QueuedIsSent`, `EndedIsCollected`, `StopEndsApps` |
| `instances` | a multiple-instance application, launched and started by hand, stopped by specific eid, descriptors running out; 2 requests | `InstanceIsAddressable`, `RunningHasConnection` |
| `server` | an on-demand server, the console, both boot stages, crashes; launches do not fail; 2 requests | `ServerIsWatched` |
| `conf_lock` | a process that initialises, makes each of the four writing calls and releases, one that initialises, saves and leaves; every return, failing system calls, the second killed at any point; fair | `TypeOK`, `SemaphoreAdmitsOne`, `SemaphoreIsGivenBack`, `CallsReturn` |
| `conf_table` | two applications with one row each, of one and two columns, the second with a plain parameter; writes, rows added with and without number, deleted, nodes running out, save and reload, one reader | `ImplementsStore`, `ReadIsCurrent` |
| `agent` | a scheduled inform, a reboot, a firmware; periodic informs on, off and with interval 0; results that cannot be opened or written; one failing exchange, one event of the host, one power failure; fair | `TypeOK`, `NoTransferLost`, `AlwaysWakes`, `ResultsAreReported` |

Bounds of the `sched` runs. Three pids are enough for the two applications and the successor of one of
them, or for three instances; two or three slots hold a record per entity and, for
instances, one to spare. The longest known disagreement (below) takes two requests.
`MaxSends` bounds the messages applications send (requeued ones included); `leaked`
is bounded by `FdLimit`. Pids and slots are interchangeable, so symmetry is used
wherever no liveness property is checked.

Bounds of the others. In `conf_lock` two processes call as often as they like; with the
two semaphore identifiers one may still hold a removed semaphore while a new one exists
(three in `find_conf_lock`, with a third process). The theorems
cover every number of processes. `conf_table` has no bound on calls: the pools are small
enough to run out, and the state space is complete. `agent` uses one second for each
delay and the inform interval, which makes all events meet, and the two configurations
that set no inform; `MaxFaults` and
`MaxCrashes` of 1 put one failure and one restart at every place. `find_transfer`
needs one of each.

Fairness (`live`). `sched` keeps running its handlers and boot steps:
weak fairness. Each pass of the loop serves every descriptor `select` reported, so a
connection that is readable again and again is served however often a handler comes
in between: strong fairness of accepting and of receiving per record. A launched
application reaches its launch message and exits when it finds its connection closed,
as `dhcpd` does. Nothing is assumed of requests, exits, crashes, SIGTERM or calls on
server sockets.

Fairness (`conf_lock`): a process goes on with a call it is in; the kernel wakes the
waiters of a semaphore in order, hence strong fairness of `LockCache`. Nobody is assumed
to call. Fairness (`agent`, `find_schedule`): the threads run on. That the ACS
answers in the end is the bound `MaxFaults`; nothing is assumed of the host, nor of what
the configuration says.

What the properties except, because the code does it:

* a failed launch (`launcher.c:105`: no memory for the arguments, `fork` fails, or the
  child ends before its launch message). The record stays LAUNCHED with its queue, and a
  server's socket unwatched, until a STOP_APP; the comment there says "smd timer will
  detect the child is not running", and no timer does. `QueuedIsSent` names that state
  (`LaunchFailed`) beside being sent and being dropped, and the run has such launches;
  `ServerIsWatched` claims of a LAUNCHED server that somebody is on the way to connect
  only where launches do not fail, which is the instance of the run;
* a killed process (`crashes`), which leaves the semaphore of the cache taken;
* a result that `fwrite` fails to write (`event.c:561`): the transfer is lost;
* an agent whose last session read that periodic informs are disabled, or an interval of
  0 (`silent`). The timer thread decrements the 0 to the largest number, and the event
  even takes the place of an inform that would have come. Only an event of the host or a
  restart wakes the agent again. The memset in `update_managementServer_variables`
  (`tr69_agent.c:273`), which the host's thread calls too, makes both values 0 for a
  moment, so that a session may read them;
* an empty result file: `main_session` may report whatever key its response happens to
  hold again and again, since no answer removes the file, so `ResultsAreReported` claims
  nothing from then on.

### Where code and comments disagree

Each of these runs checks one statement of the code and TLC finds a counterexample.

| Run | Statement | What happens |
|---|---|---|
| `find_kill` | `tpciserv.c`: a process that `sched` did not launch under this record is not collected | the disconnect of a process killed by RESTART_APP kills its successor |
| `find_conf_lock` | `configapi.c`: initialising is locked | the first caller removes the semaphore the second has just taken; a third gets a new one and builds the cache at the same time |
| `find_transfer` | `mainloop.c`: requests are written to files so that a reboot loses nothing | after a restart an unreported result's index is given out again, and the result overwritten |
| `find_schedule` | `event.c`: a scheduled inform sets its code and wakes the session | the callback table is in another order than the enum: `event_stun_notify` is called |

`conf_lock` passes beside `find_conf_lock`: the semaphore *under the key* admits one
process; a holder whose semaphore was removed is not excluded by the next one. With the
two entries of the callback table exchanged, `find_schedule` finds no violation.

The model of `sched` has further behaviour that its comments do not expect and no
property forbids: a write to an application that has exited ends `sched` (SIGPIPE), `flags && APPCFG_SERVER` leaks server sockets,
the answer to an application that stops itself goes through a freed record, and messages
queued for a starting application are delivered last one first.

## 5. Proofs

`SchedProofs` proves, for every entity table, set of requests, number of processes
and slots, and every value of the switches:

* `TypeCorrect`: `Spec => []TypeOK`;
* `ConnectionsCorrect`: `Spec => []ConnectedIsRunning`.

They rest on the assumptions `DlsAssumption`, `MissingReturnAssumption` and
`SchedAssumption` (finitely many slots, a table over the known flags, special values
outside the sets they are special in), which TLC evaluates in every run.

`TypeOK` is inductive as it stands; each handler has a lemma, and so have the
operators it is made of (`Launched`, `SimpleReply`, the interest operations,
`SendMessageByAppState`).

`ConnectedIsRunning` is not inductive. When `Accept` ties a record to a connection,
the entities agree only because the first message on a connection that waits to be
accepted is signed by the process that opened it, and no two records share it only
because it was not open before. The strengthening `ConnectionInv` adds:

* `SocketsOK`: nothing is in transit on a connection that does not exist; a pending
  one has been sent nothing and its first message carries its owner's eid; the
  backlog has pending connections only, each once;
* `RecordsOK`: only listed records have connections; a specific eid belongs to the
  record's entity (so a lookup by eid finds a record of that entity);
* `HandlerOK`: `collectApp` works on a listed record whose connection is closed, so
  relaunching or clearing it cannot disturb the property.

`ConfLockProofs` proves, for every number of processes, identifiers and parameter sets,
and whatever each process calls:

* `LockTypes`: `Spec => []TypeOK`, the semaphore's value being a natural number;
* `OneHolder`: `Spec => []SemaphoreAdmitsOne`;
* `LockIsGivenBack`: `Spec => []SemaphoreIsGivenBack`.

They rest on `ConfLockAssumption` (more identifiers than processes can hold), which TLC
evaluates. None of the three is inductive alone: `semVal - 1` is a natural number only
because a holder had raised it before; that `SetVal` and `UnlockCache` do not raise the
value above 1 needs that the process is the only user of the semaphore; and that it is
needs that a semaphore the kernel creates is held by nobody. The inductive invariant is
`LockInv`, the three together with `CallsOK` (a writing call has an address, `build`
and `fill` occur in `init` only, `flush` in `flash` only). Its steps fall into three
kinds, each with a lemma: those that leave the semaphore and its users alone (`Quiet`),
those that take it, and those that free or remove it.

`SchedRecordProofs` proves, with the same generality:

* `RecordsUnique`: `Spec => []SingleRecord`;
* `RunningConnected`: `Spec => []RunningHasConnection`;
* `InterestCountsExact`: `Spec => []InterestsCounted`;
* `InterestsOutliveProcess`: `Spec => InterestSurvivesExit`, an action property.

One assumption is added, `RequestsAssumption`: a request is addressed with a pid only if
the entity may have several instances. `launchApp` (`launcher.c:115`) and `oalMsg_init`
(`oal_msg.c:87`) call `MAKE_SPECIFIC_EID` under `APPCFG_MULTIPLE_INSTANCES` only, so no
application of this code has any other address to send to; an address with a pid would
match no record of a single-instance entity, and `sched` would make a second one. TLC
evaluates the assumption in every run of `sched`. The inductive invariant is `RecordInv`,
together with `ConnectionInv`. What it adds to the properties:

* `MessagesOK`: what waits on a connection is signed by the process at its other end and
  properly addressed, or was requeued by it. A record is looked up by these addresses
  long after the message was sent, so uniqueness of records hangs on it;
* `RegistrationsOK`: registrations carry addresses of applications, finitely many, one
  per type and application: only then does removing one lower the count by the right
  number, whichever way the searches without return value end;
* `LocalsOK`: the boot stages launch listed records only, and `collectApp` relaunches
  nothing without executable;
* `RecordsSane`: each record by itself. `RunningHasConnection` is false inside
  `collectApp`, which closes the connection first, and this says where it is restored.

`SchedInstanceProofs` proves `InstancesUnique`: `Spec => []SingleInstance`, the property
the runs check (it claims nothing when processes may survive SIGKILL). A state with one
record and one process does not say that they belong together. `InstanceInv` does:
`ChildIsRecorded`, a live child of a single-instance application is the process its
record names; `CollectedIsGone`, when `collectApp` has waited, the record's process is no
longer alive, so relaunching it cannot make a second.

`SchedAddressProofs` proves two theorems, for they rest on the same invariant:

* `InstancesAddressable`:
  `Spec => [](~EarlyFailures /\ ~StuckProcesses => InstanceIsAddressable)`;
* `ServersWatched`: `Spec => []ServerIsWatched`, where the part about LAUNCHED servers
  carries its conditions in the property.

The inductive
invariant `AddressInv` says that specific eids are made of the record's pid, that no two
records have the same pid, and, the part that needs the others, that a pid is not free
before the record of its process has been dealt with (`PidInUse`, `ChildHasRecord`,
`CollectedIsFreed`). A server whose socket is
not watched while it is LAUNCHED has a process on its way because the pid of a record
belongs to a process that is connecting or connected (`PidInUse`). That a NOT_RUNNING
server is watched is in `RecordsSane` and has no condition. Of `InstancesAddressable` both
conditions are needed, and both come from the code. A process
that survives SIGKILL outlives its record and later connects to one without pid. When
`fork` fails, the record stays LAUNCHED without pid; collecting it is `waitpid(-1)`,
which may take an instance that died before it connected. That instance's record stays,
the kernel gives its pid to the next one, and two records answer to one eid. The run
`instances` has both switches off.

`AgentProofs` proves, for every sequence of requests, every configuration (informs
disabled and intervals of 0 among them) and number of retries, and any number of failures, host events and restarts:

* `AgentTypes`: `Spec => []TypeOK`;
* `AgentAlwaysWakes`: `Spec => []AlwaysWakes`.

They rest on `AgentAssumption`, which TLC evaluates. It leaves out the transfers that are
made within the session and never become events: uploads, and downloads of firmware,
without a delay. `TypeOK` is not inductive: that a free index stays within the requests
needs `IndicesFollowRequests`, that the retry count stays within its limit needs what
`main_session` knows at each point (`SessionKnows`). `AlwaysWakes` needs
`EventThreadHolds`: an event the thread has taken is kept until its function has returned.
It speaks of informs that come due: one whose time is 0 or has wrapped does not count, so
the proof has to show that no event which comes due is replaced by one that does not,
except where `silent` says so. The conjunction is `WakeInv`. Most of the work is in the lists: lemmas say
which elements `AddEvent`, `Tick` and a start leave in them, in particular that
`Ordered` lists every member of a finite set under a total order (`OrderedLists`), so the
timer thread loses no event.

`AgentTransferProofs` proves `TransfersKept`:
`Spec => [](OneTransferOfEachKind => NoTransferLost)`. Without the condition it is false,
as `find_transfer` shows: a start computes the free index from the task files alone and
gives the index of an unreported result to the next transfer. With at most one download
and one upload there is no next transfer of that kind; the requests of run `agent` are
of this form. `TransferInv` adds that files and events hold keys of their own kind, that
a task is stored in a free file (`FreeIndexIsFree`), and that the result is on the disk
before the task is deleted unless `fwrite` failed (`ResultIsWritten`), which is what a
power failure between the two depends on. Opening the result empties it, so the power may
also fail when the key is in no result: the proof needs that the task is still there
then. It is, because only one event of a kind exists at a time (`OneEventOfEachKind`) and
the task of an event that has not been served has not been deleted (`EventsHaveTasks`,
with `TasksAreStored`), through the timer's lists, the event thread and every start.

Each inductive invariant was checked with TLC before it was proved. In every proof
module an action has a lemma of its own, and the theorem combines them.

Only model-checked:

* liveness (`QueuedIsSent`, `EndedIsCollected`, `StopEndsApps`, `CallsReturn`,
  `ResultsAreReported`): fairness and ENABLED are out of the prover's reach;
* `ImplementsStore` and `ReadIsCurrent` of `ConfTable`: the walk over a list of nodes is
  a RECURSIVE operator, and what it returns needs induction over the nodes.

No module with a theorem reaches a RECURSIVE operator.

## 6. Not modelled

The modelled programs are a few thousand lines of a repository of nearly two hundred
thousand. Most of the rest is vendored libraries and headers (OpenSSL, Android and
Java frameworks), copies of the same programs, generated code, and exercises of a few
hundred lines each that keep no state between two actors: there is nothing in them that
a state machine would say better than the code.

* `sched/timer.c`, `liboal/timer.c`, `timestamp.c`: no handler arms a timer.
* `libmsg` request and reply with timeout; bounded sockets and the blocking they cause.
* `conflib`: names and lengths of parameters, `config_api_read_parameter`,
  `dump_para_table`, the log. `confact`, `confral`: shell commands and ioctls of one device.
* `sched/tpcilib.c`: superseded and not linked. `liboal` memory, string, log and
  assertion helpers: data handling.
* `select()`'s snapshot within one pass; connections orphaned when an application
  connects twice are kept open by the model but no property speaks of them.
* The TR-069 agent: transfers made within a session (uploads, and downloads of firmware,
  web content or configuration, without a delay), requests on the parameter tree, a
  change of the ACS's URL, `set_event` and `delete_event`, STUN, the wrap of the file
  index at `MAX_INDEX`, exhausted memory; SOAP, HTTP and the tree itself (formatting,
  parsing and tables of names), `tcmAgent.c` (the demonstration client).
* The timer thread takes `timeout_list`'s lock for each event it moves (`event.c:179`); the
  model moves all events of one second in one step. The event thread takes them one by
  one either way.
* `sched`'s check of the type and destination of a launch message (`tpciserv.c:873`):
  `oalMsg_init` sends no other first message.
* `InteligenceHomeSystem`: a home controller on a serial radio stack; its sources are
  mostly tables of device commands (`zwave.h`, `zwave.c`) and message translation.
* `SSSerial` (separate demonstrations; `SS20-Octopus` is a copy of this system),
  `DataStructure` (containers, mostly third-party), `UnixSocketV1`, `IPC`, `APUE`,
  `LIBEVENT`, `opensslsockettest`, `httpapi` (network exercises), `cprogram`,
  `CDoublePlusPrimer`, `disignMode`, `Interview_FQA`, `Makefile`, `Bash`, `Assemble`,
  `AutoIt`, `AutoGtest`, `MyExe`, `notused`, `SmartTestProgramm` (exercises and
  scripts), `LinuxDriver`, `Weather`, `android`, `spring` (other programs).
