-------------------------------- MODULE Dls --------------------------------
(***************************************************************************)
(* The data of the sched process: the entity table (liboal eid.c), the     *)
(* addresses of the messaging system (tcm_eid.h), the messages (tcm_msg.h) *)
(* and the DlsInfo records sched keeps for the applications it manages     *)
(* (dls.h, dls.c), with the operations on them that involve no other       *)
(* process.                                                                *)
(***************************************************************************)
EXTENDS Integers, Sequences, FiniteSets

CONSTANTS
    Entities,      \* the eids of entityInfoArray
    Flags,         \* Flags[e]: the APPCFG_* flags of entity e
    Pids,          \* process ids
    Slots,         \* heap addresses a DlsInfo may be allocated at
    Events,        \* message types used as events or between applications
    Data,          \* payloads an event may carry or an interest match on
    FdLimit        \* server sockets the sched process may hold open

AppFlags == { "SERVER",          \* APPCFG_SERVER
              "CONSOLE",         \* the entity is ID_CONSOLE
              "STAGE_1",         \* APPCFG_LAUNCH_IN_STAGE_1
              "ON_BOOT",         \* APPCFG_LAUNCH_ON_BOOT
              "MESSAGING",       \* APPCFG_MESSAGING_CAPABLE
              "MULTI",           \* APPCFG_MULTIPLE_INSTANCES
              "AUTO_RELAUNCH",   \* APPCFG_AUTO_RELAUNCH
              "EXE" }            \* the path of the executable is not empty

InvalidPid == "TCM_INVALID_PID"  \* 0
ForkError  == "-1"               \* what fork() returns when it fails
InvalidFd  == "TCM_INVALID_FD"   \* -1
NoData     == "NO_DATA"          \* dataLength = 0
ID_SCHED   == "ID_SCHED"
UnknownId  == "UNKNOWN_ID"       \* an eid the table does not have, 0 included

ASSUME DlsAssumption ==
    /\ Entities # {}
    /\ Flags \in [Entities -> SUBSET AppFlags]
    /\ IsFiniteSet(Slots)
    /\ {InvalidPid, ForkError, InvalidFd} \cap Pids = {}
    /\ {ID_SCHED, UnknownId} \cap Entities = {}
    /\ NoData \notin Data
    /\ FdLimit \in Nat

Multi(e)     == "MULTI" \in Flags[e]
Messaging(e) == "MESSAGING" \in Flags[e]
(* Entities whose server fd (or stdin, for the console) is watched while   *)
(* they are not running.                                                   *)
Serves(e)    == Flags[e] \cap {"SERVER", "CONSOLE"} # {}
(* insertDlsInfoEntry tests flags && APPCFG_SERVER, so every entity with   *)
(* any APPCFG flag gets a server socket; the console has its stdin.        *)
OpensSocket(e) == "CONSOLE" \notin Flags[e] /\ Flags[e] \ {"EXE"} # {}

-----------------------------------------------------------------------------
(* Entity ids on the wire: <<pid, eid>>, with no pid in a generic eid.     *)

PidValue == Pids \cup {InvalidPid, ForkError}
Addr     == PidValue \X (Entities \cup {ID_SCHED, UnknownId})

Generic(e)         == <<InvalidPid, e>>
MakeSpecificEid(p, e) == <<p, e>>
GenericEid(a)      == Generic(a[2])
(* PID_IN_EID masks with EID_EID_MASK before it shifts: the pid is gone.   *)
PidInEid(a)        == InvalidPid
NoEid              == Generic(UnknownId)   \* specificEid = 0
SchedAddr          == Generic(ID_SCHED)

(* The address a process of entity e with this pid signs its messages with.*)
OwnAddr(p, e) == IF Multi(e) THEN MakeSpecificEid(p, e) ELSE Generic(e)

SchedMsgTypes == { "APP_LAUNCHED", "SYSTEM_BOOT", "REGISTER", "UNREGISTER",
                   "START_APP", "STOP_APP", "RESTART_APP", "IS_APP_RUNNING" }
MsgTypes == SchedMsgTypes \cup Events
MsgFlags == { "event", "response", "requeue", "bounceIfNotRunning" }

(* wordData is split by its use: app names an application in the requests  *)
(* START, STOP, RESTART and IS_APP_RUNNING, evt the event type of REGISTER *)
(* and UNREGISTER, ret the result in a response.                           *)
Rets == PidValue \cup { "NONE", "SUCCESS", "OBJECT_NOT_FOUND", "BOUNCED" }
Msgs == [ type : MsgTypes, src : Addr, dst : Addr, flags : SUBSET MsgFlags,
          app : Addr, evt : MsgTypes, data : Data \cup {NoData}, ret : Rets ]

EmptyMsgHeader ==
    [ type |-> "APP_LAUNCHED", src |-> SchedAddr, dst |-> SchedAddr,
      flags |-> {}, app |-> SchedAddr, evt |-> "APP_LAUNCHED",
      data |-> NoData, ret |-> "NONE" ]

(* Mutant: the result is left in the payload, not in wordData.             *)
SimpleReplyInData(m, rv) ==
    [ m EXCEPT !.src = m.dst, !.dst = m.src, !.data = rv,
               !.flags = @ \cup {"response"} ]

(* What processMsgSimpleFooter turns a request into.                       *)
SimpleReply(m, rv) ==
    [ m EXCEPT !.src = m.dst, !.dst = m.src, !.data = NoData, !.ret = rv,
               !.flags = @ \cup {"response"} ]

-----------------------------------------------------------------------------
(* DlsInfo.  A commFd is named after the process at its other end: a       *)
(* process opens one connection to sched.  monitored says whether serverFd *)
(* is in readFdsMaster.  The fields of a freed or never used slot are      *)
(* those of Blank.                                                         *)

States == { "NOT_RUNNING", "LAUNCHED", "RUNNING" }

DlsInfo == [ eid : Entities, state : States, commFd : Pids \cup {InvalidFd},
             pid : PidValue, specificEid : Addr, monitored : BOOLEAN,
             numEventInterestRequested : Int, msgQueue : Seq(Msgs) ]

(* The record insertDlsInfoEntry builds for an eid.                        *)
NewDlsInfo(a) ==
    [ eid |-> a[2], state |-> "NOT_RUNNING", commFd |-> InvalidFd,
      pid |-> InvalidPid,
      specificEid |-> IF Multi(a[2]) /\ PidInEid(a) # InvalidPid
                        THEN a ELSE NoEid,
      monitored |-> OpensSocket(a[2]) \/ "CONSOLE" \in Flags[a[2]],
      numEventInterestRequested |-> 0, msgQueue |-> << >> ]

(* queuemsg: the message becomes the head of the list.                     *)
QueueMsg(d, m) == [ d EXCEPT !.msgQueue = <<m>> \o @ ]

(* Mutants: an application that must still connect is taken for RUNNING;   *)
(* the specific eid of a new instance is not noted.                        *)
LaunchedRunning(d, p) ==
    [ d EXCEPT !.pid = p, !.state = "RUNNING", !.monitored = @ /\ ~Serves(d.eid) ]
LaunchedGeneric(d, p) ==
    [ d EXCEPT !.pid = p,
               !.state = IF Messaging(d.eid) THEN "LAUNCHED" ELSE "RUNNING",
               !.monitored = @ /\ ~Serves(d.eid) ]

(* launchApp, for the pid prctl_spawnProcess came back with: the new       *)
(* process, ForkError, or InvalidPid when parseArgs ran out of memory.     *)
Launched(d, p) ==
    [ d EXCEPT !.pid = p,
               !.specificEid = IF p # InvalidPid /\ Multi(d.eid)
                                 THEN MakeSpecificEid(p, d.eid) ELSE @,
               !.state = IF Messaging(d.eid) THEN "LAUNCHED" ELSE "RUNNING",
               !.monitored = @ /\ ~Serves(d.eid) ]

(* Mutant: the connection is closed, its descriptor stays in the record.   *)
ClosedKeepingFd(d) == [ d EXCEPT !.msgQueue = << >> ]

(* collectApp, first part: drop the queued messages, close the connection. *)
Closed(d) == [ d EXCEPT !.msgQueue = << >>, !.commFd = InvalidFd ]

(* Mutant: the server fd is not watched again.                             *)
ClearedUnwatched(d) ==
    [ d EXCEPT !.state = "NOT_RUNNING", !.pid = InvalidPid, !.specificEid = NoEid ]

(* collectApp, last part, when the record is kept.                         *)
Cleared(d) ==
    [ d EXCEPT !.state = "NOT_RUNNING", !.pid = InvalidPid,
               !.specificEid = NoEid, !.monitored = @ \/ Serves(d.eid) ]

(* Mutant: the record is freed whatever interests the application has.     *)
FreeableAlways(d) == ~Serves(d.eid)

(* When collectApp frees the record instead.                               *)
Freeable(d) ==
    /\ ~Serves(d.eid)
    /\ Multi(d.eid) \/ d.numEventInterestRequested = 0

(* The eid getExistingDlsInfo compares with.                               *)
KeyOf(d) == IF Multi(d.eid) THEN d.specificEid ELSE Generic(d.eid)
=============================================================================
