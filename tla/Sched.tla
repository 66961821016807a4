------------------------------- MODULE Sched -------------------------------
(***************************************************************************)
(* The sched process of DB_MSG_ProcessManage and the applications it       *)
(* launches, connects and routes messages between.                         *)
(*                                                                         *)
(* sched is one thread around select().  A step of the model is what it    *)
(* does between two points where the other processes can make a            *)
(* difference: it takes one message, waits for one child, writes to one    *)
(* target of an event.  pc says where in the code sched is, job holds the  *)
(* local variables of the handler it is in.  Applications connect, send,   *)
(* receive, exit and crash at any point in between.                        *)
(***************************************************************************)
EXTENDS Interest

CONSTANTS
    Requests,        \* messages an application may send, but for their src
    MaxSends,        \* bound: messages the applications send altogether
    SelfStarters,    \* entities also started by hand, not only by sched
    Deaths,          \* how a process may end by itself: "exited", "crashed"
    EarlyFailures,   \* may a launch fail before the launch message is sent?
    BootFailures,    \* may a server socket of boot stage 2 find its port taken?
    StuckProcesses,  \* may a process survive SIGKILL ("really stuck")?
    SigpipeIgnored   \* was sched started with SIGPIPE ignored?

NoSlot    == "NULL"
FreedSlot == "FREED"     \* a pointer to a DlsInfo that has been freed

ASSUME SchedAssumption ==
    /\ {NoSlot, FreedSlot} \cap Slots = {}
    /\ Requests \subseteq Msgs
    /\ MaxSends \in Nat
    /\ SelfStarters \subseteq Entities
    /\ Deaths \subseteq {"exited", "crashed"}
    /\ {EarlyFailures, BootFailures, StuckProcesses, SigpipeIgnored} \subseteq BOOLEAN

VARIABLES
    pc,         \* where sched is
    job,        \* the locals of the handler sched is in
    listed,     \* the slots on the list dlsInfoHead
    dls,        \* dls[s]: the DlsInfo at slot s
    interests,  \* the event interest registrations
    leaked,     \* server sockets no DlsInfo refers to any more
    proc,       \* proc[p]: the process with pid p
    conn,       \* conn[p]: sched's end of the connection of process p
    backlog,    \* connections of the listening socket, not yet accepted
    toSched,    \* toSched[p]: messages p has sent, not yet read
    toApp,      \* toApp[p]: messages sched has written to p, not yet read
    sends       \* messages sent by applications so far

listVars == <<listed, dls, interests, leaked>>
sockVars == <<conn, backlog, toSched, toApp>>
vars == <<pc, job, listVars, proc, sockVars, sends>>

(* sched has ended by a signal, a bad memory access, or on SIGTERM.        *)
Down == {"sigpipe", "segv", "stopped"}

NoJob == [ caller |-> NoSlot, msg |-> EmptyMsgHeader, target |-> NoSlot,
           todo |-> {}, boot |-> {}, ret |-> "NONE",
           fatal |-> FALSE, term |-> FALSE ]

(* linking: connected to sched, launch message not sent yet.               *)
Alive == {"init", "linking", "up"}
Dead  == {"exited", "crashed"}

PcValues == Down \cup { "launch1", "launch2", "select", "distribute", "stop",
                        "collect", "kill", "finish", "start", "reply" }
Jobs == [ caller : Slots \cup {NoSlot, FreedSlot}, msg : Msgs,
          target : Slots \cup {NoSlot}, todo : SUBSET Registrations,
          boot : SUBSET Slots, ret : Rets, fatal : BOOLEAN, term : BOOLEAN ]
Processes == [ st : Alive \cup Dead \cup {"free"}, eid : Entities,
               child : BOOLEAN ]

TypeOK ==
    /\ pc \in PcValues
    /\ job \in Jobs
    /\ listed \subseteq Slots
    /\ dls \in [Slots -> DlsInfo]
    /\ interests \subseteq Registrations
    /\ leaked \in Nat
    /\ proc \in [Pids -> Processes]
    /\ conn \in [Pids -> {"none", "pending", "open"}]
    /\ backlog \in Seq(Pids)
    /\ toSched \in [Pids -> Seq(Msgs)]
    /\ toApp \in [Pids -> Seq(Msgs)]
    /\ sends \in 0..MaxSends

-----------------------------------------------------------------------------
(* Sockets and processes, as the kernel keeps them.                        *)

PeerGone(p) == proc[p].st \notin Alive

(* tcmMsg_sendBySocket.  A write to a connection whose other end is closed *)
(* raises SIGPIPE, which sched leaves at its default action.               *)
Send(fd, m, next) ==
    /\ toApp' = IF fd \in Pids /\ ~PeerGone(fd)
                  THEN [toApp EXCEPT ![fd] = Append(@, m)] ELSE toApp
    /\ pc' = IF fd \in Pids /\ PeerGone(fd) /\ ~SigpipeIgnored
               THEN "sigpipe" ELSE next

CloseFd(fd) ==
    IF fd \in Pids
      THEN /\ conn' = [conn EXCEPT ![fd] = "none"]
           /\ toSched' = [toSched EXCEPT ![fd] = << >>]
           /\ toApp' = [toApp EXCEPT ![fd] = << >>]
      ELSE UNCHANGED <<conn, toSched, toApp>>

(* Pids the kernel may give to a new process.  The name of a connection    *)
(* that sched still has open is not given away.                            *)
FreePids == { p \in Pids : /\ conn[p] = "none"
                           /\ \/ proc[p].st = "free"
                              \/ proc[p].st \in Dead /\ ~proc[p].child }

(* What prctl_spawnProcess may return; out of pids, fork() fails.          *)
SpawnResults ==
    FreePids
      \cup (IF FreePids = {} THEN {ForkError} ELSE {})
      \cup (IF EarlyFailures THEN {ForkError, InvalidPid} ELSE {})

NewProcess(e, isChild) == [st |-> "init", eid |-> e, child |-> isChild]

(* launchApp on the record d of slot s.                                    *)
LaunchApp(s, d) ==
    IF "EXE" \in Flags[d.eid]
      THEN \E p \in SpawnResults :
             /\ dls' = [dls EXCEPT ![s] = Launched(d, p)]
             /\ proc' = IF p \in Pids
                          THEN [proc EXCEPT ![p] = NewProcess(d.eid, TRUE)]
                          ELSE proc
      ELSE dls' = [dls EXCEPT ![s] = d] /\ UNCHANGED proc

(* sendMessageByAppState, for the record d of slot s.                      *)
SendMessageByAppState(s, d, m, next) ==
    \/ /\ d.state = "NOT_RUNNING"
       /\ LaunchApp(s, QueueMsg(d, m))
       /\ pc' = next
       /\ UNCHANGED toApp
    \/ /\ d.state = "LAUNCHED"
       /\ dls' = [dls EXCEPT ![s] = QueueMsg(d, m)]
       /\ pc' = next
       /\ UNCHANGED <<proc, toApp>>
    \/ /\ d.state = "RUNNING"
       /\ dls' = [dls EXCEPT ![s] = d]
       /\ Send(d.commFd, m, next)
       /\ UNCHANGED proc

-----------------------------------------------------------------------------
(* The list of DlsInfo records.                                            *)

GetExistingDlsInfo(a) == { s \in listed : KeyOf(dls[s]) = a }

ServerFds == Cardinality({ s \in listed : OpensSocket(dls[s].eid) }) + leaked

(* insertDlsInfoEntry fails for an unknown eid, and when memory or file    *)
(* descriptors run out.                                                    *)
CanInsert(a) ==
    /\ a[2] \in Entities
    /\ OpensSocket(a[2]) => ServerFds < FdLimit

GetNewDlsInfo(a) == IF CanInsert(a) THEN Slots \ listed ELSE {}

(* Mutant: getDlsInfo does not look for an existing record.                *)
GetDlsInfoNew(a) == GetNewDlsInfo(a)

(* getDlsInfo: the slots it may return, none for NULL ...                  *)
GetDlsInfo(a) == IF GetExistingDlsInfo(a) # {}
                   THEN GetExistingDlsInfo(a) ELSE GetNewDlsInfo(a)

(* ... and the record found there, a new one if the slot was free.         *)
DlsInfoAt(s, a) == IF s \in listed THEN dls[s] ELSE NewDlsInfo(a)

AnyEntity == CHOOSE e \in Entities : TRUE
Blank     == NewDlsInfo(Generic(AnyEntity))

(* The ways initDls can lay out new entries for the entities es in free    *)
(* slots, and the table d with them in place.                              *)
Placement(es, free) ==
    { f \in [es -> free] : \A d, e \in es : f[d] = f[e] => d = e }

Placed(d, es, f) ==
    [ s \in Slots |-> IF \E e \in es : f[e] = s
                        THEN NewDlsInfo(Generic(CHOOSE e \in es : f[e] = s))
                        ELSE d[s] ]

WithFlag(flag) == { e \in Entities : flag \in Flags[e] }
SlotsWithFlag(L, d, flag) == { s \in L : flag \in Flags[d[s].eid] }

-----------------------------------------------------------------------------
(* main(): init_launcher has run, initDls(1) included; app_launcher(1) is  *)
(* next.                                                                   *)

Init ==
    /\ pc = "launch1"
    /\ \E f \in Placement(WithFlag("STAGE_1"), Slots) :
         /\ listed = { f[e] : e \in WithFlag("STAGE_1") }
         /\ dls = Placed([s \in Slots |-> Blank], WithFlag("STAGE_1"), f)
    /\ job = [NoJob EXCEPT !.boot = listed]
    /\ interests = {}
    /\ leaked = 0
    /\ proc = [p \in Pids |-> [st |-> "free", eid |-> AnyEntity, child |-> FALSE]]
    /\ conn = [p \in Pids |-> "none"]
    /\ backlog = << >>
    /\ toSched = [p \in Pids |-> << >>]
    /\ toApp = [p \in Pids |-> << >>]
    /\ sends = 0

BootMsg(e) == [ EmptyMsgHeader EXCEPT !.type = "SYSTEM_BOOT",
                  !.dst = Generic(e), !.flags = {"event"} ]

(* app_launcher(stage), one entry of the list.                             *)
AppLauncher(s) ==
    /\ pc \in {"launch1", "launch2"}
    /\ s \in job.boot
    /\ job' = [job EXCEPT !.boot = @ \ {s}]
    /\ \/ /\ Messaging(dls[s].eid)
          /\ SendMessageByAppState(s, dls[s], BootMsg(dls[s].eid), pc)
       \/ /\ ~Messaging(dls[s].eid) /\ dls[s].state = "NOT_RUNNING"
          /\ LaunchApp(s, dls[s])
          /\ UNCHANGED <<pc, toApp>>
       \/ /\ ~Messaging(dls[s].eid) /\ dls[s].state # "NOT_RUNNING"
          /\ UNCHANGED <<pc, dls, proc, toApp>>
    /\ UNCHANGED <<listed, interests, leaked, conn, backlog, toSched, sends>>

(* clean_sched, and the end of the process.                                *)
CleanSched ==
    /\ pc' = "stopped"
    /\ job' = NoJob
    /\ listed' = {}
    /\ dls' = [s \in Slots |-> Blank]
    /\ interests' = {}
    /\ conn' = [p \in Pids |-> "none"]
    /\ backlog' = << >>
    /\ toSched' = [p \in Pids |-> << >>]
    /\ toApp' = [p \in Pids |-> << >>]
    /\ UNCHANGED <<leaked, proc, sends>>

Stage2 == { e \in Entities : /\ Flags[e] \cap {"ON_BOOT", "SERVER", "CONSOLE"} # {}
                             /\ GetExistingDlsInfo(Generic(e)) = {} }

(* initDls(2) and the start of app_launcher(2).                            *)
InitDls2 ==
    /\ pc = "launch1" /\ job.boot = {}
    /\ ServerFds + Cardinality({e \in Stage2 : OpensSocket(e)}) <= FdLimit
    /\ \E f \in Placement(Stage2, Slots \ listed) :
         /\ listed' = listed \cup { f[e] : e \in Stage2 }
         /\ dls' = Placed(dls, Stage2, f)
    /\ pc' = "launch2"
    /\ job' = [job EXCEPT !.boot = SlotsWithFlag(listed', dls', "ON_BOOT")]
    /\ UNCHANGED <<interests, leaked, proc, sockVars, sends>>

(* initDls(2) failing: sched_main returns at once and sched cleans up.     *)
InitDls2Fails ==
    /\ pc = "launch1" /\ job.boot = {}
    /\ \/ ServerFds + Cardinality({e \in Stage2 : OpensSocket(e)}) > FdLimit
       \/ Placement(Stage2, Slots \ listed) = {}
       \/ BootFailures /\ \E e \in Stage2 : OpensSocket(e)
    /\ CleanSched

BootDone ==
    /\ pc = "launch2" /\ job.boot = {}
    /\ pc' = "select"
    /\ UNCHANGED <<job, listVars, proc, sockVars, sends>>

(* SIGTERM clears keepLooping; the loop ends when the handler is done.     *)
Sigterm ==
    /\ pc = "select"
    /\ CleanSched

-----------------------------------------------------------------------------
(* sched_processEvents: a server fd is readable.                           *)
ServerFdReadable(s) ==
    /\ pc = "select"
    /\ s \in listed /\ dls[s].monitored /\ dls[s].state = "NOT_RUNNING"
    /\ LaunchApp(s, dls[s])
    /\ UNCHANGED <<pc, job, listed, interests, leaked, sockVars, sends>>

(* Mutant: the queued messages are left in the queue.                      *)
LaunchConfirmationUnsent(s, d, p) ==
    /\ listed' = listed \cup {s}
    /\ dls' = [dls EXCEPT ![s] = [d EXCEPT !.commFd = p, !.state = "RUNNING"]]
    /\ conn' = [conn EXCEPT ![p] = "open"]
    /\ toSched' = [toSched EXCEPT ![p] = Tail(@)]
    /\ pc' = "select"
    /\ UNCHANGED toApp

(* sched_processEvents: a connection to accept, with its launch message.   *)
(* processLaunchConfirmation writes the queued messages in list order.     *)
LaunchConfirmation(s, d, p) ==
    /\ listed' = listed \cup {s}
    /\ dls' = [dls EXCEPT ![s] = [d EXCEPT !.commFd = p, !.state = "RUNNING",
                                           !.msgQueue = << >>]]
    /\ conn' = [conn EXCEPT ![p] = "open"]
    /\ toSched' = [toSched EXCEPT ![p] = Tail(@)]
    /\ toApp' = IF PeerGone(p) THEN toApp
                ELSE [toApp EXCEPT ![p] = @ \o d.msgQueue]
    /\ pc' = IF d.msgQueue # << >> /\ PeerGone(p) /\ ~SigpipeIgnored
               THEN "sigpipe" ELSE "select"

Accept ==
    /\ pc = "select" /\ backlog # << >>
    /\ LET p == Head(backlog)
           a == Head(toSched[p]).src
       IN  /\ toSched[p] # << >>
           /\ \/ \E s \in GetDlsInfo(a) : LaunchConfirmation(s, DlsInfoAt(s, a), p)
              \/ /\ GetDlsInfo(a) = {}
                 /\ CloseFd(p)
                 /\ UNCHANGED <<pc, listed, dls>>
    /\ backlog' = Tail(backlog)
    /\ UNCHANGED <<job, interests, leaked, proc, sends>>

(* No launch message within CONNECT_TO_LAUNCH_MSG_TIMEOUT, or the process  *)
(* has gone without sending it.                                            *)
AcceptFails ==
    /\ pc = "select" /\ backlog # << >>
    /\ toSched[Head(backlog)] = << >>
    /\ EarlyFailures \/ PeerGone(Head(backlog))
    /\ CloseFd(Head(backlog))
    /\ backlog' = Tail(backlog)
    /\ UNCHANGED <<pc, job, listVars, proc, sends>>

-----------------------------------------------------------------------------
(* sched_processEvents: a message from the connected application of s.     *)

Readable(s) ==
    /\ pc = "select"
    /\ s \in listed /\ dls[s].commFd # InvalidFd
    /\ toSched[dls[s].commFd] # << >>

Incoming(s) == Head(toSched[dls[s].commFd])
Consume(s)  == toSched' = [toSched EXCEPT ![dls[s].commFd] = Tail(@)]

IsForSched(m) == "requeue" \notin m.flags /\ m.dst = SchedAddr

(* sched_processMessage, requeue: the message goes back to its sender.     *)
RecvRequeue(s) ==
    /\ Readable(s) /\ "requeue" \in Incoming(s).flags
    /\ Consume(s)
    /\ Send(dls[s].commFd, [Incoming(s) EXCEPT !.flags = @ \ {"requeue"}], "select")
    /\ UNCHANGED <<job, listVars, proc, conn, backlog, sends>>

(* sched_distributeEventMessage, the search for the interested parties.    *)
RecvEvent(s) ==
    /\ Readable(s) /\ IsForSched(Incoming(s)) /\ "event" \in Incoming(s).flags
    /\ Consume(s)
    /\ LET found == FindByType(interests, Incoming(s).type)
       IN  \/ /\ found # {}
              /\ job' = [NoJob EXCEPT !.caller = s, !.msg = Incoming(s), !.todo = found]
              /\ pc' = "distribute"
           \/ /\ found = {} /\ "null" \in MissingReturn
              /\ UNCHANGED <<pc, job>>
           \/ /\ found = {} /\ "head" \in MissingReturn
              /\ pc' = "segv" /\ UNCHANGED job
    /\ UNCHANGED <<listVars, proc, conn, backlog, toApp, sends>>

(* One interested party: getDlsInfo may create its record even when the    *)
(* event is then not sent.                                                 *)
NoMatch(i, m) == i.matchData # NoData /\ i.matchData # m.data

Distribute(i) ==
    /\ pc = "distribute" /\ i \in job.todo
    /\ job' = [job EXCEPT !.todo = @ \ {i}]
    /\ \/ /\ GetDlsInfo(i.eid) = {}
          /\ UNCHANGED <<pc, listed, dls, proc, toApp>>
       \/ \E s \in GetDlsInfo(i.eid) :
            LET d == DlsInfoAt(s, i.eid)
            IN  /\ listed' = listed \cup {s}
                /\ \/ /\ s = job.caller \/ NoMatch(i, job.msg)
                      /\ dls' = [dls EXCEPT ![s] = d]
                      /\ UNCHANGED <<pc, proc, toApp>>
                   \/ /\ ~(s = job.caller \/ NoMatch(i, job.msg))
                      /\ SendMessageByAppState(s, d,
                           [job.msg EXCEPT !.dst = KeyOf(d)], pc)
    /\ UNCHANGED <<interests, leaked, conn, backlog, toSched, sends>>

DistributeDone ==
    /\ pc = "distribute" /\ job.todo = {}
    /\ pc' = "select"
    /\ job' = NoJob
    /\ UNCHANGED <<listVars, proc, sockVars, sends>>

(* sched_processRegisterEventInterest: the reply says SUCCESS whatever     *)
(* happened; the count is the one of the connection's record.              *)
RegisterOutcomes(m) ==
    IF m.type = "REGISTER"
      THEN InterestRegister(interests, m.evt, m.src, m.data)
      ELSE InterestUnregister(interests, m.evt, m.src)

(* Mutant: a refused duplicate registration is counted too.                *)
DeltaAlways(m, res) == IF m.type = "REGISTER" THEN 1 ELSE -1

Delta(m, res) == IF res # "ok" THEN 0
                 ELSE IF m.type = "REGISTER" THEN 1 ELSE -1

RecvRegister(s) ==
    /\ Readable(s) /\ IsForSched(Incoming(s)) /\ "event" \notin Incoming(s).flags
    /\ Incoming(s).type \in {"REGISTER", "UNREGISTER"}
    /\ Consume(s)
    /\ \E o \in RegisterOutcomes(Incoming(s)) :
         \/ /\ o.res = "segv"
            /\ pc' = "segv"
            /\ UNCHANGED <<interests, dls, toApp>>
         \/ /\ o.res # "segv"
            /\ interests' = o.ints
            /\ dls' = [dls EXCEPT ![s].numEventInterestRequested =
                                     @ + Delta(Incoming(s), o.res)]
            /\ Send(dls[s].commFd, SimpleReply(Incoming(s), "SUCCESS"), "select")
    /\ UNCHANGED <<job, listed, leaked, proc, conn, backlog, sends>>

(* sched_processIsAppRuning.                                               *)
RecvIsAppRunning(s) ==
    /\ Readable(s) /\ IsForSched(Incoming(s)) /\ "event" \notin Incoming(s).flags
    /\ Incoming(s).type = "IS_APP_RUNNING"
    /\ Consume(s)
    /\ LET running == \E t \in GetExistingDlsInfo(Incoming(s).app) :
                        dls[t].state = "RUNNING"
       IN  Send(dls[s].commFd,
                SimpleReply(Incoming(s), IF running THEN "SUCCESS"
                                                    ELSE "OBJECT_NOT_FOUND"),
                "select")
    /\ UNCHANGED <<job, listVars, proc, conn, backlog, sends>>

(* START_APP, STOP_APP and RESTART_APP: on to startApp or stopApp.         *)
RecvAppControl(s) ==
    /\ Readable(s) /\ IsForSched(Incoming(s)) /\ "event" \notin Incoming(s).flags
    /\ Incoming(s).type \in {"START_APP", "STOP_APP", "RESTART_APP"}
    /\ Consume(s)
    /\ job' = [NoJob EXCEPT !.caller = s, !.msg = Incoming(s)]
    /\ pc' = IF Incoming(s).type = "START_APP" THEN "start" ELSE "stop"
    /\ UNCHANGED <<listVars, proc, conn, backlog, toApp, sends>>

(* Any other message for sched is dropped.                                 *)
RecvOther(s) ==
    /\ Readable(s) /\ IsForSched(Incoming(s)) /\ "event" \notin Incoming(s).flags
    /\ Incoming(s).type \in Events \cup {"APP_LAUNCHED", "SYSTEM_BOOT"}
    /\ Consume(s)
    /\ UNCHANGED <<pc, job, listVars, proc, conn, backlog, toApp, sends>>

(* sched_routeMessage.                                                     *)
NotRunning(a) == \A t \in GetExistingDlsInfo(a) : dls[t].state = "NOT_RUNNING"

Bounce(m) ==
    /\ "bounceIfNotRunning" \in m.flags /\ NotRunning(m.dst)
    /\ \/ /\ "event" \in m.flags
          /\ UNCHANGED <<pc, toApp>>
       \/ /\ "event" \notin m.flags
          /\ \/ \E t \in GetExistingDlsInfo(m.src) :
                  Send(dls[t].commFd, SimpleReply(m, "BOUNCED"), "select")
             \/ /\ GetExistingDlsInfo(m.src) = {}
                /\ pc' = "segv" /\ UNCHANGED toApp
    /\ UNCHANGED <<listed, dls, proc>>

Forward(m) ==
    /\ ~("bounceIfNotRunning" \in m.flags /\ NotRunning(m.dst))
    /\ \/ /\ GetDlsInfo(m.dst) = {}
          /\ UNCHANGED <<pc, listed, dls, proc, toApp>>
       \/ \E t \in GetDlsInfo(m.dst) :
            /\ listed' = listed \cup {t}
            /\ SendMessageByAppState(t, DlsInfoAt(t, m.dst), m, "select")

RouteMessage(s) ==
    /\ Readable(s)
    /\ "requeue" \notin Incoming(s).flags /\ Incoming(s).dst # SchedAddr
    /\ Consume(s)
    /\ Bounce(Incoming(s)) \/ Forward(Incoming(s))
    /\ UNCHANGED <<job, interests, leaked, conn, backlog, sends>>

-----------------------------------------------------------------------------
(* Mutant: a disconnect clears the record and collects no process.         *)
DisconnectedUncollected(s) ==
    /\ pc = "select"
    /\ s \in listed /\ dls[s].commFd # InvalidFd
    /\ toSched[dls[s].commFd] = << >> /\ PeerGone(dls[s].commFd)
    /\ dls' = [dls EXCEPT ![s] = Cleared(Closed(@))]
    /\ CloseFd(dls[s].commFd)
    /\ UNCHANGED <<pc, job, listed, interests, leaked, proc, backlog, sends>>

(* collectApp begins: from a disconnect ...                                *)
Disconnected(s) ==
    /\ pc = "select"
    /\ s \in listed /\ dls[s].commFd # InvalidFd
    /\ toSched[dls[s].commFd] = << >> /\ PeerGone(dls[s].commFd)
    /\ job' = [NoJob EXCEPT !.target = s]
    /\ dls' = [dls EXCEPT ![s] = Closed(@)]
    /\ CloseFd(dls[s].commFd)
    /\ pc' = "collect"
    /\ UNCHANGED <<listed, interests, leaked, proc, backlog, sends>>

(* Where collectApp and stopApp return to.                                 *)
Return == IF job.msg.type = "STOP_APP" THEN "reply"
          ELSE IF job.msg.type = "RESTART_APP" THEN "start" ELSE "select"

(* ... or from stopApp and terminateApp, which has sent SIGTERM.           *)
StopApp ==
    /\ pc = "stop"
    /\ LET a == job.msg.app
           running == { s \in GetExistingDlsInfo(a) : dls[s].state # "NOT_RUNNING" }
       IN  \/ /\ a[2] \notin Entities \/ running = {}
              /\ pc' = Return
              /\ job' = [job EXCEPT !.ret = "SUCCESS"]
              /\ UNCHANGED <<dls, conn, toSched, toApp>>
           \/ /\ a[2] \in Entities
              /\ \E s \in running :
                   /\ job' = [job EXCEPT !.target = s, !.ret = "SUCCESS",
                                !.term = "CONSOLE" \notin Flags[dls[s].eid]]
                   /\ dls' = [dls EXCEPT ![s] = Closed(@)]
                   /\ CloseFd(dls[s].commFd)
              /\ pc' = "collect"
    /\ UNCHANGED <<listed, interests, leaked, proc, backlog, sends>>

(* Children waitpid(pid) can return; waitpid(-1) takes any.                *)
Collectable(pid) == { p \in Pids : /\ proc[p].child /\ proc[p].st \in Dead
                                   /\ pid \in {p, ForkError} }

(* prctl_collectProcess got a process.  Only the first attempt looks at    *)
(* the signal that ended it.                                               *)
Collect(p) ==
    /\ pc \in {"collect", "kill"}
    /\ p \in Collectable(dls[job.target].pid)
    /\ job' = [job EXCEPT !.fatal = (pc = "collect" /\ proc[p].st = "crashed"),
                          !.term = FALSE]
    /\ proc' = [proc EXCEPT ![p].st = "free", ![p].child = FALSE]
    /\ pc' = "finish"
    /\ UNCHANGED <<listVars, sockVars, sends>>

(* Not launched by sched: nothing to collect.                              *)
CollectNothing ==
    /\ pc = "collect" /\ dls[job.target].pid = InvalidPid
    /\ pc' = "finish"
    /\ job' = [job EXCEPT !.term = FALSE]
    /\ UNCHANGED <<listVars, proc, sockVars, sends>>

(* Mutant: the process is given up without SIGKILL.                        *)
CollectTimeoutNoKill ==
    /\ pc = "collect" /\ dls[job.target].pid # InvalidPid
    /\ Collectable(dls[job.target].pid) = {}
    /\ pc' = "kill"
    /\ job' = [job EXCEPT !.term = FALSE]
    /\ UNCHANGED <<listVars, proc, sockVars, sends>>

(* Five seconds went by, or there is no such child: SIGKILL.               *)
CollectTimeout ==
    /\ pc = "collect" /\ dls[job.target].pid # InvalidPid
    /\ Collectable(dls[job.target].pid) = {}
    /\ pc' = "kill"
    /\ job' = [job EXCEPT !.term = FALSE]
    /\ LET p == dls[job.target].pid
       IN  \/ /\ p \in Pids /\ proc[p].st \in Alive
              /\ proc' = [proc EXCEPT ![p].st = "exited"]
           \/ /\ ~(p \in Pids /\ proc[p].st \in Alive) \/ StuckProcesses
              /\ UNCHANGED proc
    /\ UNCHANGED <<listVars, sockVars, sends>>

(* The second attempt failed too: leave the process alone.                 *)
CollectGiveUp ==
    /\ pc = "kill" /\ Collectable(dls[job.target].pid) = {}
    /\ pc' = "finish"
    /\ UNCHANGED <<job, listVars, proc, sockVars, sends>>

(* The rest of collectApp: relaunch, free the record or keep it.           *)
FinishCollect ==
    /\ pc = "finish"
    /\ LET s == job.target
           d == dls[s]
           relaunch == job.fatal /\ "AUTO_RELAUNCH" \in Flags[d.eid]
           back == [job EXCEPT !.target = NoSlot, !.fatal = FALSE]
       IN  \/ /\ relaunch
              /\ LaunchApp(s, d)
              /\ pc' = Return
              /\ job' = IF Return = "select" THEN NoJob ELSE back
              /\ UNCHANGED <<listed, interests, leaked>>
           \/ /\ ~relaunch /\ Freeable(d)
              /\ \E o \in InterestUnregisterAll(interests, KeyOf(d)) :
                   \/ /\ o.res = "segv"
                      /\ pc' = "segv"
                      /\ job' = NoJob
                      /\ UNCHANGED <<listed, dls, interests, leaked>>
                   \/ /\ o.res # "segv"
                      /\ pc' = Return
                      /\ job' = IF Return = "select" THEN NoJob
                                ELSE [back EXCEPT !.caller =
                                        IF @ = s THEN FreedSlot ELSE @]
                      /\ interests' = o.ints
                      /\ listed' = listed \ {s}
                      /\ dls' = [dls EXCEPT ![s] = Blank]
                      /\ leaked' = IF OpensSocket(d.eid) THEN leaked + 1 ELSE leaked
              /\ UNCHANGED proc
           \/ /\ ~relaunch /\ ~Freeable(d)
              /\ dls' = [dls EXCEPT ![s] = Cleared(d)]
              /\ pc' = Return
              /\ job' = IF Return = "select" THEN NoJob ELSE back
              /\ UNCHANGED <<listed, interests, leaked, proc>>
    /\ UNCHANGED <<sockVars, sends>>

(* startApp.  Only RESTART_APP strips the pid from the eid it was given.   *)
StartTarget == IF job.msg.type = "RESTART_APP" THEN GenericEid(job.msg.app)
               ELSE job.msg.app

StartSlots(a) == IF a \notin { Generic(e) : e \in Entities } THEN {}
                 ELSE IF Multi(a[2]) THEN GetNewDlsInfo(a) ELSE GetDlsInfo(a)

StartApp ==
    /\ pc = "start"
    /\ pc' = "reply"
    /\ \/ /\ StartSlots(StartTarget) = {}
          /\ job' = [job EXCEPT !.ret = InvalidPid]
          /\ UNCHANGED <<listed, dls, proc>>
       \/ \E s \in StartSlots(StartTarget) :
            LET d == DlsInfoAt(s, StartTarget)
            IN  \/ /\ d.state # "NOT_RUNNING"
                   /\ job' = [job EXCEPT !.ret = InvalidPid]
                   /\ UNCHANGED <<listed, dls, proc>>
                \/ /\ d.state = "NOT_RUNNING"
                   /\ listed' = listed \cup {s}
                   /\ LaunchApp(s, d)
                   /\ job' = [job EXCEPT !.ret = dls'[s].pid]
    /\ UNCHANGED <<interests, leaked, sockVars, sends>>

(* processMsgSimpleFooter, to the connection of the handler's dInfo.  When *)
(* collectApp has freed that record, the memory is read after the free:    *)
(* the commFd left there is -1, or anything.                               *)
Reply ==
    /\ pc = "reply"
    /\ job' = NoJob
    /\ \/ /\ job.caller # FreedSlot
          /\ Send(dls[job.caller].commFd, SimpleReply(job.msg, job.ret), "select")
       \/ /\ job.caller = FreedSlot
          /\ pc' \in {"select", "segv"}
          /\ UNCHANGED toApp
    /\ UNCHANGED <<listVars, proc, conn, backlog, toSched, sends>>

-----------------------------------------------------------------------------
(* The applications and the library they use (oalMsg_init, oalMsg_send).   *)

(* connect() in oalMsg_init; without a listener the application gives up.  *)
AppConnect(p) ==
    /\ proc[p].st = "init"
    /\ \/ /\ pc \notin Down
          /\ proc' = [proc EXCEPT ![p].st = "linking"]
          /\ conn' = [conn EXCEPT ![p] = "pending"]
          /\ backlog' = Append(backlog, p)
       \/ /\ pc \in Down
          /\ proc' = [proc EXCEPT ![p].st = "exited"]
          /\ UNCHANGED <<conn, backlog>>
    /\ UNCHANGED <<pc, job, listVars, toSched, toApp, sends>>

(* The launch message that ends oalMsg_init.                               *)
AppSendLaunched(p) ==
    /\ proc[p].st = "linking" /\ conn[p] # "none"
    /\ proc' = [proc EXCEPT ![p].st = "up"]
    /\ toSched' = [toSched EXCEPT ![p] = Append(@,
                     [EmptyMsgHeader EXCEPT !.src = OwnAddr(p, proc[p].eid),
                                            !.flags = {"event"}])]
    /\ UNCHANGED <<pc, job, listVars, conn, backlog, toApp, sends>>

(* oalMsg_send of one of the requests, from the moment oalMsg_init is done.*)
AppSend(p) ==
    /\ proc[p].st = "up" /\ conn[p] # "none" /\ sends < MaxSends
    /\ \E r \in Requests :
         toSched' = [toSched EXCEPT ![p] =
                       Append(@, [r EXCEPT !.src = OwnAddr(p, proc[p].eid)])]
    /\ sends' = sends + 1
    /\ UNCHANGED <<pc, job, listVars, proc, conn, backlog, toApp>>

AppReceive(p) ==
    /\ proc[p].st = "up" /\ toApp[p] # << >>
    /\ toApp' = [toApp EXCEPT ![p] = Tail(@)]
    /\ UNCHANGED <<pc, job, listVars, proc, conn, backlog, toSched, sends>>

(* tcmMsg_requeuePutBacks: a message that came while the application was   *)
(* waiting for another one goes back to sched, to come again.              *)
AppRequeue(p) ==
    /\ proc[p].st = "up" /\ toApp[p] # << >> /\ sends < MaxSends
    /\ toApp' = [toApp EXCEPT ![p] = Tail(@)]
    /\ toSched' = [toSched EXCEPT ![p] =
                     Append(@, [Head(toApp[p]) EXCEPT !.flags = @ \cup {"requeue"}])]
    /\ sends' = sends + 1
    /\ UNCHANGED <<pc, job, listVars, proc, conn, backlog>>

(* The process ends; what it had not read is lost, what it has written     *)
(* stays readable.                                                         *)
AppEnds(p, how) ==
    /\ proc' = [proc EXCEPT ![p].st = how]
    /\ toApp' = [toApp EXCEPT ![p] = << >>]
    /\ UNCHANGED <<pc, job, listVars, conn, backlog, toSched, sends>>

AppDies(p) ==
    /\ \/ proc[p].st = "up"
       \/ proc[p].st \in Alive /\ EarlyFailures
    /\ \E how \in Deaths : AppEnds(p, how)

(* SIGTERM from terminateApp, while sched waits in collectApp.             *)
AppTerminated(p) ==
    /\ pc = "collect" /\ job.term /\ dls[job.target].pid = p
    /\ proc[p].st \in Alive
    /\ AppEnds(p, "exited")

(* Mutant: the application takes the disconnect for any other error.       *)
AppSeesCloseRetries(p) ==
    /\ proc[p].st \in {"linking", "up"} /\ conn[p] = "none"
    /\ UNCHANGED vars

(* An application whose connection sched has closed exits.                 *)
AppSeesClose(p) ==
    /\ proc[p].st \in {"linking", "up"} /\ conn[p] = "none"
    /\ AppEnds(p, "exited")

(* Somebody other than sched starts an application.                        *)
SelfStart(p) ==
    /\ p \in FreePids
    /\ \E e \in SelfStarters : proc' = [proc EXCEPT ![p] = NewProcess(e, FALSE)]
    /\ UNCHANGED <<pc, job, listVars, sockVars, sends>>

-----------------------------------------------------------------------------
SchedBoot == (\E s \in Slots : AppLauncher(s)) \/ InitDls2 \/ InitDls2Fails \/ BootDone

SchedReceive(s) ==
    \/ RecvRequeue(s)
    \/ RecvEvent(s)
    \/ RecvRegister(s)
    \/ RecvIsAppRunning(s)
    \/ RecvAppControl(s)
    \/ RecvOther(s)
    \/ RouteMessage(s)
    \/ Disconnected(s)

SchedHandler ==
    \/ \E i \in job.todo : Distribute(i)
    \/ DistributeDone
    \/ StopApp
    \/ \E p \in Pids : Collect(p)
    \/ CollectNothing
    \/ CollectTimeout
    \/ CollectGiveUp
    \/ FinishCollect
    \/ StartApp
    \/ Reply

(* What the sched process does of its own accord: everything but the       *)
(* arrival of a datagram and of SIGTERM.                                   *)
SchedStep ==
    \/ SchedBoot
    \/ \E s \in Slots : SchedReceive(s)
    \/ SchedHandler
    \/ Accept
    \/ AcceptFails

AppInit(p) == AppConnect(p) \/ AppSendLaunched(p)

AppStep(p) ==
    \/ AppInit(p)
    \/ AppSend(p)
    \/ AppReceive(p)
    \/ AppRequeue(p)
    \/ AppDies(p)
    \/ AppTerminated(p)
    \/ AppSeesClose(p)
    \/ SelfStart(p)

Next ==
    \/ SchedStep
    \/ Sigterm
    \/ \E s \in Slots : ServerFdReadable(s)
    \/ \E p \in Pids : AppStep(p)

Spec == Init /\ [][Next]_vars
=============================================================================
