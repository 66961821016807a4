----------------------------- MODULE SchedProps -----------------------------
(***************************************************************************)
(* The properties of the sched process that the runs check.                *)
(***************************************************************************)
EXTENDS Sched

(* An address has a pid in it only for a multiple-instance application:    *)
(* nothing else is given to MAKE_SPECIFIC_EID (oalMsg_init, launchApp).    *)
ProperAddr(a) == a[2] \in Entities /\ ~Multi(a[2]) => a = Generic(a[2])

ASSUME RequestsAssumption == \A r \in Requests : ProperAddr(r.dst)

(* The record of an application with a connection is RUNNING, has nothing  *)
(* queued, and belongs to the entity of the process at the other end; no   *)
(* two records share a connection.  getDlsInfoByCommFd relies on it.       *)
ConnectedIsRunning ==
    \A s \in listed :
       dls[s].commFd # InvalidFd =>
         /\ dls[s].state = "RUNNING" /\ dls[s].msgQueue = << >>
         /\ conn[dls[s].commFd] = "open"
         /\ proc[dls[s].commFd].eid = dls[s].eid
         /\ \A t \in listed : dls[t].commFd = dls[s].commFd => s = t

(* An entity without APPCFG_MULTIPLE_INSTANCES has at most one record:     *)
(* getExistingDlsInfo returns the first match as if it were the only one.  *)
SingleRecord ==
    \A s, t \in listed :
       dls[s].eid = dls[t].eid /\ ~Multi(dls[s].eid) => s = t

(* collectApp is working on the record of this slot.                       *)
Collecting(s) == pc \in {"collect", "kill", "finish"} /\ job.target = s

(* A RUNNING record of a messaging-capable application has a connection,   *)
(* so sendMessageByAppState never writes its messages to fd -1.            *)
RunningHasConnection ==
    \A s \in listed :
       /\ Messaging(dls[s].eid) /\ dls[s].state = "RUNNING"
       /\ ~Collecting(s) /\ pc \notin Down
       => dls[s].commFd # InvalidFd

(* On its way to a connection, or connected: not to be given away.         *)
Underway(p) ==
    \/ proc[p].st = "init"
    \/ conn[p] = "pending" /\ (proc[p].st = "linking" \/ toSched[p] # << >>)
    \/ conn[p] = "open"

(* A launch that came to nothing: prctl_spawnProcess failed, or the child  *)
(* ended or was given up before its launch message.  The comment there     *)
(* says "smd timer will detect the child is not running", and no timer     *)
(* does: the record stays LAUNCHED until a STOP_APP.                       *)
LaunchFailed(s) ==
    dls[s].state = "LAUNCHED" /\ ~ \E p \in Pids : dls[s].pid = p /\ Underway(p)

(* A server whose record is NOT_RUNNING has its server fd (the console:    *)
(* its stdin) watched, so that a client's call launches it, whatever stop, *)
(* crash or late connection came before.  One whose fd is not watched      *)
(* while it is LAUNCHED has a process that is connecting: where launches   *)
(* do not fail and fork finds a pid, no server is left deaf.  (After a     *)
(* failed launch one is: nothing watches the fd of a LAUNCHED record.)     *)
ServerIsWatched ==
    \A s \in listed : Serves(dls[s].eid) =>
       /\ dls[s].state = "NOT_RUNNING" => dls[s].monitored
       /\ dls[s].state = "LAUNCHED" =>
            /\ ~dls[s].monitored
            /\ \/ EarlyFailures \/ StuckProcesses \/ dls[s].pid = ForkError
               \/ Collecting(s) \/ pc \in Down
               \/ ~LaunchFailed(s)

(* The count that decides in collectApp whether a record can be freed is   *)
(* the number of registrations the application has in the interest lists,  *)
(* so freeing never leaves a registration of a single-instance application *)
(* behind, and the assertion of sched_processRegisterEventInterest holds.  *)
InterestsCounted ==
    /\ \A s \in listed : ~Multi(dls[s].eid) =>
         dls[s].numEventInterestRequested =
           Cardinality({ i \in interests : i.eid = Generic(dls[s].eid) })
    /\ \A i \in interests : i.eid \in { Generic(e) : e \in Entities } =>
         \E s \in listed : Generic(dls[s].eid) = i.eid

(* A single-instance application keeps its registrations when it exits, is *)
(* stopped or crashes, even if collectApp frees other records: the next    *)
(* event finds it interested and launches it again.                        *)
InterestSurvivesExit ==
    [][ pc = "finish" /\ pc' \notin Down =>
          { i \in interests : i.eid[1] = InvalidPid } \subseteq interests' ]_vars

(* A connected instance of a multiple-instance application that sched has  *)
(* launched can be addressed: exactly one record answers to its own eid in *)
(* getExistingDlsInfo, and that record holds its connection and its pid,   *)
(* so a stop or a message for one instance never reaches another.          *)
InstanceIsAddressable ==
    \A p \in Pids :
       conn[p] = "open" /\ proc[p].child /\ Multi(proc[p].eid) =>
         \E s \in Slots :
            /\ GetExistingDlsInfo(MakeSpecificEid(p, proc[p].eid)) = {s}
            /\ dls[s].commFd = p /\ dls[s].pid = p

(* sched never has two live processes of a single-instance application:    *)
(* whatever order of stop, restart, crash, relaunch and late connections,  *)
(* the old process is gone before launchApp starts another.                *)
SingleInstance ==
    StuckProcesses \/
    \A p, q \in Pids :
       /\ proc[p].child /\ proc[p].st \in Alive
       /\ proc[q].child /\ proc[q].st \in Alive
       /\ proc[p].eid = proc[q].eid /\ ~Multi(proc[p].eid)
       => p = q

-----------------------------------------------------------------------------
(* What makes the invariants above inductive.                              *)

(* The locals of the handler sched is in: collectApp works on a listed     *)
(* record without connection, and a handler that replies has a caller.     *)
HandlerOK ==
    /\ pc \in {"collect", "kill", "finish"} =>
         /\ job.target \in listed
         /\ dls[job.target].commFd = InvalidFd
         /\ Return # "select" => job.caller # NoSlot
    /\ pc \in {"stop", "start", "reply"} => job.caller # NoSlot

(* Connections: nothing is in transit on one that does not exist; one that *)
(* waits to be accepted has been sent nothing, and its first message is    *)
(* signed with the eid of the process that opened it.                      *)
SocketsOK ==
    /\ \A p \in Pids :
         /\ conn[p] = "none" => toSched[p] = << >> /\ toApp[p] = << >>
         /\ conn[p] = "pending" =>
              /\ toApp[p] = << >>
              /\ toSched[p] # << >> =>
                   Head(toSched[p]).src = OwnAddr(p, proc[p].eid)
         /\ proc[p].st = "init" => conn[p] = "none"
    /\ \A i \in 1..Len(backlog) : conn[backlog[i]] = "pending"
    /\ \A i, j \in 1..Len(backlog) : backlog[i] = backlog[j] => i = j

(* Records: only a listed one has a connection, and a specific eid is one  *)
(* of the record's own entity.                                             *)
RecordsOK ==
    \A s \in Slots :
       /\ dls[s].commFd # InvalidFd => s \in listed
       /\ dls[s].specificEid # NoEid => dls[s].specificEid[2] = dls[s].eid

ConnectionInv == TypeOK /\ HandlerOK /\ SocketsOK /\ RecordsOK /\ ConnectedIsRunning

(* What sched has to read on a connection is signed by the process at its  *)
(* other end and properly addressed, or was requeued by it.                *)
MessagesOK ==
    \A p \in Pids : \A k \in 1..Len(toSched[p]) :
       \/ "requeue" \in toSched[p][k].flags
       \/ /\ toSched[p][k].src = OwnAddr(p, proc[p].eid)
          /\ ProperAddr(toSched[p][k].dst)

(* Registrations carry the address of an application, and an application   *)
(* has one at most for a type of event.                                    *)
RegistrationsOK ==
    /\ IsFiniteSet(interests)
    /\ \A i \in interests \cup job.todo :
         \E p \in Pids : \E e \in Entities : i.eid = OwnAddr(p, e)
    /\ \A i, j \in interests : i.type = j.type /\ i.eid = j.eid => i = j

(* The boot stages launch listed records; collectApp relaunches only what  *)
(* can be launched.                                                        *)
LocalsOK ==
    /\ pc \in {"launch1", "launch2"} => job.boot \subseteq listed
    /\ job.fatal => pc = "finish" /\ "EXE" \in Flags[dls[job.target].eid]

(* A record by itself: its server fd, its specific eid, its pid (a launch  *)
(* that did not fail before fork() left one), and its connection.          *)
Watched(d) == Serves(d.eid) => /\ d.state = "NOT_RUNNING" => d.monitored
                               /\ d.state = "LAUNCHED" => ~d.monitored
Sane(d) ==
    /\ Watched(d)
    /\ d.specificEid # NoEid => d.specificEid[1] # InvalidPid
    /\ "EXE" \notin Flags[d.eid] => d.pid = InvalidPid
    /\ d.state = "LAUNCHED" => d.pid # InvalidPid \/ EarlyFailures
Linked(d) == Messaging(d.eid) /\ d.state = "RUNNING" => d.commFd # InvalidFd

RecordsSane ==
    \A s \in Slots : Sane(dls[s]) /\ (Linked(dls[s]) \/ Collecting(s) \/ pc \in Down)

RecordInv ==
    /\ MessagesOK /\ RegistrationsOK /\ LocalsOK /\ RecordsSane
    /\ SingleRecord /\ InterestsCounted

(* A live child of a single-instance application is the process its record *)
(* stands for, until sched stops; and collectApp is not done with a record *)
(* whose process is alive.                                                 *)
LiveChild(p) == proc[p].child /\ proc[p].st \in Alive

ChildIsRecorded ==
    pc # "stopped" =>
      \A p \in Pids : LiveChild(p) /\ ~Multi(proc[p].eid) =>
        \E s \in listed : /\ dls[s].eid = proc[p].eid /\ dls[s].pid = p
                          /\ dls[s].state # "NOT_RUNNING"

CollectedIsGone ==
    pc \in {"kill", "finish"} =>
      \A p \in Pids : dls[job.target].pid = p /\ LiveChild(p) =>
                       proc[p].eid # dls[job.target].eid

InstanceInv == StuckProcesses \/ (ChildIsRecorded /\ CollectedIsGone)

(* Why an instance can be addressed: a specific eid is made of the pid of  *)
(* its record, and no two records have the same pid, because a pid is not  *)
(* free again before the record of its process has been dealt with.        *)
SpecificIsPid ==
    \A s \in listed : Multi(dls[s].eid) =>
       dls[s].specificEid = IF dls[s].pid = InvalidPid THEN NoEid
                            ELSE MakeSpecificEid(dls[s].pid, dls[s].eid)

PidsDistinct ==
    \A s, t \in listed : dls[s].pid \in Pids /\ dls[s].pid = dls[t].pid => s = t

InstanceHasItsFd ==
    \A s \in listed : \A p \in Pids :
       Multi(dls[s].eid) /\ dls[s].pid = p /\ conn[p] = "open" => dls[s].commFd = p

PidInUse ==
    pc \notin Down =>
      \A s \in listed : \A p \in Pids : dls[s].pid = p /\ ~Collecting(s) =>
         proc[p].eid = dls[s].eid /\ Underway(p)

ChildHasRecord ==
    pc # "stopped" =>
      \A p \in Pids : proc[p].child =>
         /\ proc[p].st # "free"
         /\ \E s \in listed : /\ dls[s].pid = p /\ dls[s].eid = proc[p].eid
                              /\ dls[s].state # "NOT_RUNNING"

CollectedIsFreed ==
    /\ pc = "kill" => \A p \in Pids : dls[job.target].pid = p => ~LiveChild(p)
    /\ pc = "finish" => \A p \in Pids : dls[job.target].pid = p => ~proc[p].child

StoppedIsClosed == pc = "stopped" => \A p \in Pids : conn[p] = "none"

AddressInv ==
    /\ SpecificIsPid /\ PidsDistinct /\ InstanceHasItsFd /\ PidInUse
    /\ ChildHasRecord /\ CollectedIsFreed /\ StoppedIsClosed

-----------------------------------------------------------------------------
(* Liveness.  Each pass of sched_processEvents serves every descriptor     *)
(* select reported, so a descriptor that stays readable is served however  *)
(* often sched is busy in between: strong fairness of accepting and of     *)
(* receiving from each connection.  A launched application gets as far as  *)
(* its launch message, and exits when it finds its connection closed.      *)
Fairness ==
    /\ WF_vars(SchedBoot)
    /\ WF_vars(SchedHandler)
    /\ SF_vars(Accept \/ AcceptFails)
    /\ \A s \in Slots : SF_vars(SchedReceive(s))
    /\ \A p \in Pids : WF_vars(AppInit(p)) /\ WF_vars(AppSeesClose(p))

FairSpec == Spec /\ Fairness

(* What is queued for an application that is starting does not stay there: *)
(* it is written to the application, or dropped with it, unless the launch *)
(* fails, for then nothing looks at the queue again.                       *)
QueuedIsSent ==
    \A s \in Slots :
       dls[s].msgQueue # << >> ~>
         (dls[s].msgQueue = << >> \/ pc \in Down \/ LaunchFailed(s))

(* A process that had sent its launch message and has ended is collected,  *)
(* wherever sched is when it ends: accepting it, restarting it, or busy    *)
(* with another.  (One that ends before stays a zombie.)                   *)
EndedIsCollected ==
    \A p \in Pids :
       proc[p].child /\ proc[p].st \in Dead /\ (conn[p] = "open" \/ toSched[p] # << >>)
         ~> (~proc[p].child \/ pc \in Down)

(* When sched stops, the applications it is connected to or still          *)
(* launching stop too, although clean_sched signals none of them.          *)
StopEndsApps ==
    \A p \in Pids : pc = "stopped" ~> proc[p].st \notin Alive

-----------------------------------------------------------------------------
(* What a comment of the code says of it, and the code does not do.        *)

(* "If the process started by itself ... its pid will be CMS_INVALID_PID,  *)
(* so smd should not bother collecting it": after a disconnect, the        *)
(* process that went away is the one collected, and no live one is killed. *)
DisconnectKillsNobody ==
    [][ pc = "collect" /\ pc' = "kill" /\ job.caller = NoSlot =>
          \A p \in Pids : proc[p].st \in Alive => proc'[p].st \in Alive ]_vars
=============================================================================
