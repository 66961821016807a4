------------------------- MODULE SchedInstanceProofs -------------------------
(***************************************************************************)
(* The processes behind the records: sched never has two live processes of *)
(* a single-instance application.                                          *)
(***************************************************************************)
EXTENDS SchedRecordProofs

InstancesHold == ChildIsRecorded /\ CollectedIsGone /\ SingleInstance

(* No process that sched has launched for entity e is alive.               *)
NoLive(e) ==
    \A p \in Pids : LiveChild(p) /\ ~Multi(proc[p].eid) => proc[p].eid # e

(* A step that launches nothing: no process becomes a live child.          *)
NoLaunch ==
    \A p \in Pids : LiveChild(p)' => LiveChild(p) /\ proc'[p].eid = proc[p].eid

(* The records of launched applications stay, with their pids.             *)
RecordsPersist ==
    \A s \in listed :
       /\ s \in listed'
       /\ dls'[s].eid = dls[s].eid /\ dls'[s].pid = dls[s].pid
       /\ dls[s].state # "NOT_RUNNING" => dls'[s].state # "NOT_RUNNING"

LEMMA SingleInstanceFrame ==
  ASSUME SingleInstance, NoLaunch
  PROVE  SingleInstance'
BY DEF SingleInstance, NoLaunch, LiveChild

LEMMA ChildFrame ==
  ASSUME ChildIsRecorded, NoLaunch, RecordsPersist, pc # "stopped"
  PROVE  ChildIsRecorded'
<1>1. ASSUME NEW p \in Pids, LiveChild(p)', ~Multi(proc'[p].eid)
      PROVE  \E s \in listed' : /\ dls'[s].eid = proc'[p].eid /\ dls'[s].pid = p
                                /\ dls'[s].state # "NOT_RUNNING"
  <2>1. LiveChild(p) /\ proc'[p].eid = proc[p].eid
    BY <1>1 DEF NoLaunch
  <2>2. PICK s \in listed : /\ dls[s].eid = proc[p].eid /\ dls[s].pid = p
                            /\ dls[s].state # "NOT_RUNNING"
    BY <1>1, <2>1 DEF ChildIsRecorded
  <2> QED
    BY <2>1, <2>2 DEF RecordsPersist
<1> QED
  BY <1>1 DEF ChildIsRecorded, LiveChild

(* A record that is not running, or a new one, has no live process.        *)
LEMMA IdleHasNoChild ==
  ASSUME ChildIsRecorded, SingleRecord, pc # "stopped",
         NEW s, NEW d, Stands(s, d), d.state = "NOT_RUNNING"
  PROVE  NoLive(d.eid)
<1> SUFFICES ASSUME NEW p \in Pids, LiveChild(p), ~Multi(proc[p].eid),
                    proc[p].eid = d.eid
             PROVE  FALSE
  BY DEF NoLive
<1>1. PICK t \in listed : /\ dls[t].eid = proc[p].eid /\ dls[t].pid = p
                          /\ dls[t].state # "NOT_RUNNING"
  BY DEF ChildIsRecorded
<1> QED
  BY <1>1 DEF Stands, SingleRecord

(* d is what the record of slot s says of its application, if there is one.*)
SameApp(s, d) ==
    s \in listed => /\ d.eid = dls[s].eid /\ d.pid = dls[s].pid
                    /\ d.state = dls[s].state

LEMMA StandsSameApp ==
  ASSUME NEW s, NEW d, Stands(s, d)
  PROVE  SameApp(s, d)
BY DEF Stands, SameApp

(* launchApp on a record without live process.                             *)
LEMMA LaunchInstance ==
  ASSUME TypeOK, ChildIsRecorded, SingleInstance, pc # "stopped",
         NEW s \in Slots, NEW d \in DlsInfo, Sane(d), SameApp(s, d), NoLive(d.eid),
         LaunchApp(s, d), listed' = listed \cup {s}
  PROVE  ChildIsRecorded' /\ SingleInstance'
<1>1. CASE "EXE" \in Flags[d.eid]
  <2>1. PICK p \in SpawnResults :
          /\ dls' = [dls EXCEPT ![s] = Launched(d, p)]
          /\ proc' = IF p \in Pids
                       THEN [proc EXCEPT ![p] = NewProcess(d.eid, TRUE)]
                       ELSE proc
    BY <1>1 DEF LaunchApp
  <2>2. p \in PidValue /\ (p # InvalidPid \/ EarlyFailures)
    BY DlsAssumption, "-1" # "TCM_INVALID_PID"
       DEF SpawnResults, FreePids, PidValue, InvalidPid, ForkError
  <2>3. /\ dls'[s].eid = d.eid /\ dls'[s].pid = p
        /\ dls'[s].state # "NOT_RUNNING"
    BY <1>1, <2>1, <2>2, LaunchedSane DEF TypeOK
  <2>4. \A t \in Slots \ {s} : dls'[t] = dls[t]
    BY <2>1 DEF TypeOK
  <2>5. \A q \in Pids : IF q = p THEN /\ proc'[q].eid = d.eid
                                 ELSE proc'[q] = proc[q]
    BY <2>1 DEF TypeOK, NewProcess
  <2>6. ASSUME NEW q \in Pids, q # p, LiveChild(q)', ~Multi(proc'[q].eid)
        PROVE  LiveChild(q) /\ proc'[q].eid # d.eid
    BY <2>5, <2>6 DEF LiveChild, NoLive
  <2>7. SingleInstance'
    <3> SUFFICES ASSUME ~StuckProcesses, NEW q \in Pids, NEW r \in Pids,
                        LiveChild(q)', LiveChild(r)',
                        proc'[q].eid = proc'[r].eid, ~Multi(proc'[q].eid)
                 PROVE  q = r
      BY DEF SingleInstance, LiveChild
    <3>1. CASE q # p /\ r # p
      BY <2>5, <2>6, <3>1 DEF SingleInstance, LiveChild
    <3>2. CASE q = p \/ r = p
      BY <2>5, <2>6, <3>2
    <3> QED
      BY <3>1, <3>2
  <2>8. ASSUME NEW q \in Pids, LiveChild(q)', ~Multi(proc'[q].eid)
        PROVE  \E t \in listed' : /\ dls'[t].eid = proc'[q].eid /\ dls'[t].pid = q
                                  /\ dls'[t].state # "NOT_RUNNING"
    <3>1. CASE q = p
      BY <2>3, <2>5, <3>1
    <3>2. CASE q # p
      <4>1. LiveChild(q) /\ proc[q].eid # d.eid /\ proc'[q] = proc[q]
        BY <2>5, <2>6, <2>8, <3>2
      <4>2. PICK t \in listed : /\ dls[t].eid = proc[q].eid /\ dls[t].pid = q
                                /\ dls[t].state # "NOT_RUNNING"
        BY <2>8, <4>1 DEF ChildIsRecorded
      <4>3. t # s /\ t \in Slots
        BY <4>1, <4>2 DEF SameApp, TypeOK
      <4> QED
        BY <2>4, <4>1, <4>2, <4>3
    <3> QED
      BY <3>1, <3>2
  <2> QED
    BY <2>7, <2>8 DEF ChildIsRecorded, LiveChild
<1>2. CASE "EXE" \notin Flags[d.eid]
  <2>1. dls' = [dls EXCEPT ![s] = d] /\ UNCHANGED proc
    BY <1>2 DEF LaunchApp
  <2>2. RecordsPersist /\ NoLaunch
    BY <2>1 DEF RecordsPersist, NoLaunch, SameApp, LiveChild, TypeOK
  <2> QED
    BY <2>2, ChildFrame, SingleInstanceFrame
<1> QED
  BY <1>1, <1>2

LEMMA SendInstance ==
  ASSUME TypeOK, RecordsHold, ChildIsRecorded, SingleInstance, pc # "stopped",
         NEW s \in Slots, NEW d \in DlsInfo, NEW m \in Msgs, NEW next,
         Sane(d), Stands(s, d),
         SendMessageByAppState(s, d, m, next), listed' = listed \cup {s}
  PROVE  ChildIsRecorded' /\ SingleInstance'
<1>1. /\ QueueMsg(d, m) \in DlsInfo /\ Sane(QueueMsg(d, m))
      /\ QueueMsg(d, m).eid = d.eid /\ QueueMsg(d, m).pid = d.pid
      /\ QueueMsg(d, m).state = d.state
  BY QueueMsgType, QueueMsgSame
<1>2. SameApp(s, d) /\ SameApp(s, QueueMsg(d, m))
  BY <1>1, StandsSameApp DEF SameApp
<1>3. CASE d.state = "NOT_RUNNING" /\ LaunchApp(s, QueueMsg(d, m))
  <2>1. NoLive(QueueMsg(d, m).eid)
    BY <1>1, <1>3, IdleHasNoChild DEF RecordsHold
  <2> QED
    BY <1>1, <1>2, <1>3, <2>1, LaunchInstance
<1>4. ASSUME NEW r, dls' = [dls EXCEPT ![s] = r], r \in {d, QueueMsg(d, m)},
             UNCHANGED proc
      PROVE  ChildIsRecorded' /\ SingleInstance'
  <2>1. SameApp(s, r)
    BY <1>2, <1>4
  <2>2. RecordsPersist /\ NoLaunch
    BY <1>4, <2>1 DEF RecordsPersist, NoLaunch, SameApp, LiveChild, TypeOK
  <2> QED
    BY <2>2, ChildFrame, SingleInstanceFrame
<1> QED
  BY <1>3, <1>4 DEF SendMessageByAppState

-----------------------------------------------------------------------------
(* The steps.                                                              *)

LEMMA AppInstances ==
  ASSUME TypeOK, InstancesHold, NEW p \in Pids, AppStep(p)
  PROVE  InstancesHold'
<1>1. UNCHANGED <<pc, job, listed, dls>>
  BY AppFrame
<1>2. NoLaunch
  <2>1. CASE SelfStart(p)
    BY <2>1 DEF SelfStart, NewProcess, NoLaunch, LiveChild, TypeOK
  <2>2. ASSUME NEW st, proc' = [proc EXCEPT ![p].st = st],
               st \in Alive => proc[p].st \in Alive
        PROVE  NoLaunch
    BY <2>2 DEF NoLaunch, LiveChild, TypeOK, Processes
  <2>3. \/ SelfStart(p) \/ UNCHANGED proc
        \/ \E st : /\ proc' = [proc EXCEPT ![p].st = st]
                   /\ st \in Alive => proc[p].st \in Alive
    <3>1. \A how \in Deaths : how \notin Alive
      BY SchedAssumption DEF Alive
    <3> QED
      BY <1>1, <3>1, AppStep(p)
         DEF AppStep, AppInit, AppConnect, AppSendLaunched, AppSend, AppReceive,
             AppRequeue, AppDies, AppTerminated, AppSeesClose, AppEnds, Alive
  <2>4. CASE UNCHANGED proc
    BY <2>4 DEF NoLaunch, LiveChild
  <2> QED
    BY <2>1, <2>2, <2>3, <2>4
<1>3. ChildIsRecorded'
  <2>1. RecordsPersist
    BY <1>1 DEF RecordsPersist
  <2>2. CASE pc = "stopped"
    BY <1>1, <2>2 DEF ChildIsRecorded
  <2>3. CASE pc # "stopped"
    BY <1>2, <2>1, <2>3, ChildFrame DEF InstancesHold
  <2> QED
    BY <2>2, <2>3
<1>4. CollectedIsGone'
  <2>1. \A q \in Pids : LiveChild(q)' => LiveChild(q) /\ proc'[q].eid = proc[q].eid
    BY <1>2 DEF NoLaunch
  <2> HIDE DEF LiveChild
  <2> QED
    BY <1>1, <2>1 DEF InstancesHold, CollectedIsGone
<1>5. SingleInstance'
  BY <1>2, SingleInstanceFrame DEF InstancesHold
<1> QED
  BY <1>3, <1>4, <1>5 DEF InstancesHold

(* A step of sched outside collectApp that launches nothing.               *)
LEMMA QuietInstances ==
  ASSUME InstancesHold, pc # "stopped", RecordsPersist, NoLaunch,
         pc' \notin {"kill", "finish"}
  PROVE  InstancesHold'
<1>1. ChildIsRecorded' /\ SingleInstance'
  BY ChildFrame, SingleInstanceFrame DEF InstancesHold
<1> QED
  BY <1>1 DEF InstancesHold, CollectedIsGone

LEMMA CleanSchedInstances ==
  ASSUME InstancesHold, CleanSched
  PROVE  InstancesHold'
<1>1. pc' = "stopped" /\ UNCHANGED proc
  BY DEF CleanSched
<1>2. SingleInstance'
  BY <1>1, SingleInstanceFrame DEF InstancesHold, NoLaunch, LiveChild
<1> QED
  BY <1>1, <1>2 DEF InstancesHold, ChildIsRecorded, CollectedIsGone

LEMMA BootInstances ==
  ASSUME ConnectionInv, LocalsOK, RecordsHold, InstancesHold, SchedBoot
  PROVE  InstancesHold'
<1> USE DEF ConnectionInv
<1>1. ASSUME NEW s \in Slots, AppLauncher(s)
      PROVE  InstancesHold'
  <2>1. /\ pc \in {"launch1", "launch2"} /\ s \in listed /\ UNCHANGED listed
        /\ listed' = listed \cup {s}
    BY <1>1 DEF AppLauncher, LocalsOK
  <2>2. pc # "stopped" /\ pc' \notin {"kill", "finish"}
    BY <1>1, <2>1 DEF AppLauncher, SendMessageByAppState, Send
  <2>3. /\ dls[s] \in DlsInfo /\ Sane(dls[s]) /\ Stands(s, dls[s])
        /\ BootMsg(dls[s].eid) \in Msgs
    BY <2>1, BootMsgType DEF RecordsHold, RecordsSane, Stands, TypeOK, DlsInfo
  <2>4. ChildIsRecorded' /\ SingleInstance'
    <3>1. CASE SendMessageByAppState(s, dls[s], BootMsg(dls[s].eid), pc)
      BY <2>1, <2>2, <2>3, <3>1, SendInstance DEF InstancesHold
    <3>2. CASE dls[s].state = "NOT_RUNNING" /\ LaunchApp(s, dls[s])
      <4>1. NoLive(dls[s].eid) /\ SameApp(s, dls[s])
        BY <2>2, <2>3, <3>2, IdleHasNoChild, StandsSameApp DEF InstancesHold, RecordsHold
      <4> QED
        BY <2>1, <2>2, <2>3, <3>2, <4>1, LaunchInstance DEF InstancesHold
    <3>3. CASE UNCHANGED <<dls, proc>>
      <4>1. RecordsPersist /\ NoLaunch
        BY <2>1, <3>3 DEF RecordsPersist, NoLaunch, LiveChild
      <4> QED
        BY <2>2, <4>1, ChildFrame, SingleInstanceFrame DEF InstancesHold
    <3> QED
      BY <1>1, <3>1, <3>2, <3>3 DEF AppLauncher
  <2> QED
    BY <2>2, <2>4 DEF InstancesHold, CollectedIsGone
<1>2. ASSUME InitDls2
      PROVE  InstancesHold'
  <2>1. PICK f \in Placement(Stage2, Slots \ listed) :
          /\ listed' = listed \cup { f[e] : e \in Stage2 }
          /\ dls' = Placed(dls, Stage2, f)
    BY <1>2 DEF InitDls2
  <2>2. f \in [Stage2 -> Slots \ listed]
    BY DEF Placement
  <2>3. \A t \in listed : t \in Slots /\ ~ \E e \in Stage2 : f[e] = t
    BY <2>2 DEF TypeOK
  <2>4. \A t \in listed : dls'[t] = dls[t]
    BY <2>1, <2>3 DEF Placed
  <2>5. RecordsPersist
    BY <2>1, <2>4 DEF RecordsPersist
  <2>6. pc # "stopped" /\ pc' \notin {"kill", "finish"} /\ NoLaunch
    BY <1>2 DEF InitDls2, NoLaunch, LiveChild
  <2> QED
    BY <2>5, <2>6, QuietInstances
<1>3. ASSUME InitDls2Fails
      PROVE  InstancesHold'
  BY <1>3, CleanSchedInstances DEF InitDls2Fails
<1>4. ASSUME BootDone
      PROVE  InstancesHold'
  BY <1>4, QuietInstances DEF BootDone, listVars, RecordsPersist, NoLaunch, LiveChild
<1> QED
  BY <1>1, <1>2, <1>3, <1>4 DEF SchedBoot

LEMMA ReceiveInstances ==
  ASSUME ConnectionInv, MessagesOK, RecordsHold, InstancesHold,
         NEW s \in Slots, SchedReceive(s)
  PROVE  InstancesHold'
<1> USE DEF ConnectionInv
<1>1. pc = "select" /\ pc' \notin {"kill", "finish"}
  BY DEF SchedReceive, RecvRequeue, RecvEvent, RecvRegister, RecvIsAppRunning,
         RecvAppControl, RecvOther, RouteMessage, Bounce, Forward,
         SendMessageByAppState, Send, Readable, Disconnected
<1>2. ASSUME UNCHANGED <<listed, dls, proc>>
      PROVE  InstancesHold'
  BY <1>1, <1>2, QuietInstances DEF RecordsPersist, NoLaunch, LiveChild
<1>3. CASE RecvRequeue(s) \/ RecvEvent(s) \/ RecvIsAppRunning(s)
           \/ RecvAppControl(s) \/ RecvOther(s)
  BY <1>2, <1>3 DEF RecvRequeue, RecvEvent, RecvIsAppRunning, RecvAppControl,
                    RecvOther, listVars
<1>4. CASE RecvRegister(s)
  <2>1. UNCHANGED <<listed, proc>>
    BY <1>4 DEF RecvRegister
  <2>2. CASE UNCHANGED dls
    BY <1>2, <2>1, <2>2
  <2>3. ASSUME NEW n, dls' = [dls EXCEPT ![s].numEventInterestRequested = n]
        PROVE  InstancesHold'
    <3>1. RecordsPersist
      BY <2>1, <2>3 DEF RecordsPersist, TypeOK, DlsInfo
    <3> QED
      BY <1>1, <2>1, <3>1, QuietInstances DEF NoLaunch, LiveChild
  <2> QED
    BY <1>4, <2>2, <2>3 DEF RecvRegister
<1>5. CASE RouteMessage(s)
  <2>1. /\ Incoming(s) \in Msgs /\ Incoming(s).dst \in Addr
        /\ ProperAddr(Incoming(s).dst)
    <3>1. Incoming(s) \in Msgs
      BY <1>5, IncomingType DEF RouteMessage
    <3>2. Readable(s) /\ "requeue" \notin Incoming(s).flags
      BY <1>5 DEF RouteMessage
    <3> QED
      BY <3>1, <3>2, IncomingIsSigned DEF Msgs
  <2>2. CASE UNCHANGED <<listed, dls, proc>>
    BY <1>2, <2>2
  <2>3. ASSUME NEW t \in GetDlsInfo(Incoming(s).dst), listed' = listed \cup {t},
               SendMessageByAppState(t, DlsInfoAt(t, Incoming(s).dst),
                                     Incoming(s), "select")
        PROVE  InstancesHold'
    <3> DEFINE d == DlsInfoAt(t, Incoming(s).dst)
    <3>1. t \in Slots /\ d \in DlsInfo /\ Stands(t, d) /\ Sane(d)
      BY <2>1, GetDlsInfoStands
    <3>2. ChildIsRecorded' /\ SingleInstance'
      BY <1>1, <2>1, <2>3, <3>1, SendInstance DEF InstancesHold
    <3> QED
      BY <1>1, <3>2 DEF InstancesHold, CollectedIsGone
  <2> QED
    BY <1>5, <2>2, <2>3 DEF RouteMessage, Bounce, Forward
<1>6. CASE Disconnected(s)
  <2>1. dls' = [dls EXCEPT ![s] = Closed(dls[s])] /\ UNCHANGED <<listed, proc>>
    BY <1>6 DEF Disconnected
  <2>2. RecordsPersist
    BY <2>1, ClosedSame DEF RecordsPersist, TypeOK
  <2> QED
    BY <1>1, <2>1, <2>2, QuietInstances DEF NoLaunch, LiveChild
<1> QED
  BY <1>3, <1>4, <1>5, <1>6 DEF SchedReceive

(* prctl_collectProcess: what is left of a process that was collected or   *)
(* killed is not alive.                                                    *)
LEMMA CollectInstances ==
  ASSUME ConnectionInv, InstancesHold, ~StuckProcesses,
         (\E p \in Pids : Collect(p)) \/ CollectNothing \/ CollectTimeout
         \/ CollectGiveUp
  PROVE  InstancesHold'
<1> USE DEF ConnectionInv
<1> DEFINE s == job.target
<1>1. /\ pc \in {"collect", "kill"} /\ UNCHANGED <<listed, dls>>
      /\ job'.target = s
  BY DEF Collect, CollectNothing, CollectTimeout, CollectGiveUp, listVars, TypeOK, Jobs
<1>2. RecordsPersist /\ pc # "stopped"
  BY <1>1 DEF RecordsPersist
<1>3. ASSUME NoLaunch,
             \A q \in Pids : dls[s].pid = q /\ LiveChild(q)' => proc'[q].eid # dls[s].eid
      PROVE  InstancesHold'
  <2>1. ChildIsRecorded' /\ SingleInstance'
    BY <1>2, <1>3, ChildFrame, SingleInstanceFrame DEF InstancesHold
  <2>2. CollectedIsGone'
    BY <1>1, <1>3 DEF CollectedIsGone, LiveChild
  <2> QED
    BY <2>1, <2>2 DEF InstancesHold
<1>4. ASSUME NEW p \in Pids, Collect(p)
      PROVE  InstancesHold'
  <2>1. /\ p \in Collectable(dls[s].pid)
        /\ proc' = [proc EXCEPT ![p].st = "free", ![p].child = FALSE]
    BY <1>4 DEF Collect
  <2>2. /\ \A q \in Pids \ {p} : proc'[q] = proc[q]
        /\ proc'[p].child = FALSE
    BY <2>1 DEF TypeOK, Processes
  <2>3. NoLaunch
    BY <2>2 DEF NoLaunch, LiveChild
  <2>4. ASSUME NEW q \in Pids, dls[s].pid = q, LiveChild(q)'
        PROVE  FALSE
    <3>1. q # ForkError
      BY DlsAssumption
    <3>2. q = p
      BY <2>1, <2>4, <3>1 DEF Collectable
    <3> QED
      BY <2>2, <2>4, <3>2 DEF LiveChild
  <2> QED
    BY <1>3, <2>3, <2>4
<1>5. CASE CollectNothing
  <2>1. dls[s].pid = InvalidPid /\ UNCHANGED proc
    BY <1>5 DEF CollectNothing
  <2>2. \A q \in Pids : dls[s].pid # q
    BY <2>1, DlsAssumption
  <2> QED
    BY <1>3, <2>1, <2>2 DEF NoLaunch, LiveChild
<1>6. CASE CollectTimeout
  <2> DEFINE p == dls[s].pid
  <2>1. CASE /\ p \in Pids /\ proc[p].st \in Alive
             /\ proc' = [proc EXCEPT ![p].st = "exited"]
    <3>1. /\ \A q \in Pids \ {p} : proc'[q] = proc[q]
          /\ proc'[p].st = "exited"
      <4>1. proc \in [Pids -> Processes] /\ proc[p] \in Processes
        BY <2>1 DEF TypeOK
      <4> HIDE DEF p
      <4> QED
        BY <2>1, <4>1 DEF Processes
    <3>2. \A q \in Pids : q = p => ~LiveChild(q)'
      BY <3>1 DEF LiveChild, Alive
    <3>3. NoLaunch
      BY <3>1, <3>2 DEF NoLaunch, LiveChild
    <3> QED
      BY <1>3, <3>2, <3>3
  <2>2. CASE ~(p \in Pids /\ proc[p].st \in Alive) /\ UNCHANGED proc
    BY <1>3, <2>2 DEF NoLaunch, LiveChild
  <2> QED
    BY <1>6, <2>1, <2>2 DEF CollectTimeout
<1>7. CASE CollectGiveUp
  <2>1. pc = "kill" /\ UNCHANGED proc
    BY <1>7 DEF CollectGiveUp
  <2> QED
    BY <1>3, <2>1 DEF NoLaunch, LiveChild, InstancesHold, CollectedIsGone
<1> QED
  BY <1>4, <1>5, <1>6, <1>7

(* The rest of collectApp: the record's process is gone, so the record may *)
(* be launched again, freed or cleared.                                    *)
LEMMA FinishInstances ==
  ASSUME ConnectionInv, RecordsHold, InstancesHold, FinishCollect
  PROVE  InstancesHold'
<1> USE DEF ConnectionInv
<1> DEFINE s == job.target
           d == dls[s]
<1>1. pc = "finish" /\ s \in listed /\ s \in Slots /\ d \in DlsInfo
  BY DEF FinishCollect, HandlerOK, TypeOK
<1>2. pc' \notin {"kill", "finish"}
  BY DEF FinishCollect, Return
<1>3. ASSUME NEW p \in Pids, LiveChild(p), ~Multi(proc[p].eid)
      PROVE  /\ proc[p].eid # d.eid
             /\ \E t \in listed \ {s} : /\ dls[t].eid = proc[p].eid /\ dls[t].pid = p
                                        /\ dls[t].state # "NOT_RUNNING"
  <2>1. PICK t \in listed : /\ dls[t].eid = proc[p].eid /\ dls[t].pid = p
                            /\ dls[t].state # "NOT_RUNNING"
    BY <1>1, <1>3 DEF InstancesHold, ChildIsRecorded
  <2>2. t # s
    BY <1>1, <1>3, <2>1 DEF InstancesHold, CollectedIsGone
  <2>3. proc[p].eid # d.eid
    BY <1>1, <1>3, <2>1, <2>2 DEF RecordsHold, SingleRecord
  <2> QED
    BY <2>1, <2>2, <2>3
<1>4. CASE LaunchApp(s, d) /\ UNCHANGED listed
  <2>1. NoLive(d.eid) /\ SameApp(s, d) /\ listed' = listed \cup {s} /\ Sane(d)
    BY <1>1, <1>3, <1>4 DEF NoLive, SameApp, RecordsHold, RecordsSane
  <2>2. ChildIsRecorded' /\ SingleInstance'
    BY <1>1, <1>4, <2>1, LaunchInstance DEF InstancesHold
  <2> QED
    BY <1>2, <2>2 DEF InstancesHold, CollectedIsGone
<1>5. ASSUME NEW r, UNCHANGED proc,
             listed \ {s} \subseteq listed', dls' = [dls EXCEPT ![s] = r]
      PROVE  InstancesHold'
  <2>1. \A t \in listed \ {s} : t \in listed' /\ dls'[t] = dls[t]
    BY <1>1, <1>5 DEF TypeOK
  <2>2. ChildIsRecorded'
    BY <1>3, <1>5, <2>1 DEF ChildIsRecorded, LiveChild
  <2>3. SingleInstance'
    BY <1>5, SingleInstanceFrame DEF InstancesHold, NoLaunch, LiveChild
  <2> QED
    BY <1>2, <2>2, <2>3 DEF InstancesHold, CollectedIsGone
<1>6. CASE UNCHANGED <<listed, dls, proc>>
  BY <1>1, <1>2, <1>6, QuietInstances DEF RecordsPersist, NoLaunch, LiveChild
<1> QED
  BY <1>4, <1>5, <1>6 DEF FinishCollect

LEMMA HandlerInstances ==
  ASSUME ConnectionInv, RegistrationsOK, RecordsHold, InstancesHold, ~StuckProcesses,
         SchedHandler
  PROVE  InstancesHold'
<1> USE DEF ConnectionInv
<1>1. ASSUME NEW i \in job.todo, Distribute(i)
      PROVE  InstancesHold'
  <2>1. pc = "distribute" /\ pc' \notin {"kill", "finish"}
    BY <1>1 DEF Distribute, SendMessageByAppState, Send
  <2>2. i.eid \in Addr /\ ProperAddr(i.eid)
    <3>1. \A j \in interests \cup job.todo :
            \E p \in Pids : \E x \in Entities : j.eid = OwnAddr(p, x)
      BY DEF RegistrationsOK
    <3>2. PICK p \in Pids, x \in Entities : i.eid = OwnAddr(p, x)
      BY <3>1
    <3> QED
      BY <3>2, OwnAddrProper
  <2>3. CASE UNCHANGED <<listed, dls, proc>>
    BY <2>1, <2>3, QuietInstances DEF RecordsPersist, NoLaunch, LiveChild
  <2>4. ASSUME NEW s \in GetDlsInfo(i.eid), listed' = listed \cup {s},
               \/ dls' = [dls EXCEPT ![s] = DlsInfoAt(s, i.eid)] /\ UNCHANGED proc
               \/ SendMessageByAppState(s, DlsInfoAt(s, i.eid),
                    [job.msg EXCEPT !.dst = KeyOf(DlsInfoAt(s, i.eid))], pc)
        PROVE  InstancesHold'
    <3> DEFINE d == DlsInfoAt(s, i.eid)
    <3>1. s \in Slots /\ d \in DlsInfo /\ Stands(s, d) /\ Sane(d)
      BY <2>2, GetDlsInfoStands
    <3>2. [job.msg EXCEPT !.dst = KeyOf(d)] \in Msgs
      BY <3>1, KeyOfType DEF TypeOK, Jobs, Msgs
    <3>3. CASE dls' = [dls EXCEPT ![s] = d] /\ UNCHANGED proc
      <4>1. RecordsPersist
        BY <2>4, <3>1, <3>3 DEF RecordsPersist, Stands, TypeOK
      <4> QED
        BY <2>1, <3>3, <4>1, QuietInstances DEF NoLaunch, LiveChild
    <3>4. CASE SendMessageByAppState(s, d, [job.msg EXCEPT !.dst = KeyOf(d)], pc)
      <4>1. ChildIsRecorded' /\ SingleInstance'
        BY <2>1, <2>4, <3>1, <3>2, <3>4, SendInstance DEF InstancesHold
      <4> QED
        BY <2>1, <4>1 DEF InstancesHold, CollectedIsGone
    <3> QED
      BY <2>4, <3>3, <3>4
  <2> QED
    BY <1>1, <2>3, <2>4 DEF Distribute
<1>2. CASE DistributeDone \/ Reply
  <2>1. /\ pc # "stopped" /\ pc' \notin {"kill", "finish"}
        /\ UNCHANGED <<listed, dls, proc>>
    BY <1>2 DEF DistributeDone, Reply, Send, listVars
  <2> QED
    BY <2>1, QuietInstances DEF RecordsPersist, NoLaunch, LiveChild
<1>3. CASE StopApp
  <2>1. pc = "stop" /\ pc' \notin {"kill", "finish"} /\ UNCHANGED <<listed, proc>>
    BY <1>3 DEF StopApp, Return
  <2>2. ASSUME NEW s \in listed, dls' = [dls EXCEPT ![s] = Closed(@)]
        PROVE  RecordsPersist
    BY <2>1, <2>2, ClosedSame DEF RecordsPersist, TypeOK
  <2>3. RecordsPersist
    BY <1>3, <2>1, <2>2 DEF StopApp, GetExistingDlsInfo, RecordsPersist
  <2> QED
    BY <2>1, <2>3, QuietInstances DEF NoLaunch, LiveChild
<1>4. CASE (\E p \in Pids : Collect(p)) \/ CollectNothing \/ CollectTimeout
           \/ CollectGiveUp
  BY <1>4, CollectInstances
<1>5. CASE FinishCollect
  BY <1>5, FinishInstances
<1>6. CASE StartApp
  <2>1. pc = "start" /\ pc' = "reply"
    BY <1>6 DEF StartApp
  <2>2. CASE UNCHANGED <<listed, dls, proc>>
    BY <2>1, <2>2, QuietInstances DEF RecordsPersist, NoLaunch, LiveChild
  <2>3. ASSUME NEW s \in StartSlots(StartTarget),
               DlsInfoAt(s, StartTarget).state = "NOT_RUNNING",
               listed' = listed \cup {s}, LaunchApp(s, DlsInfoAt(s, StartTarget))
        PROVE  InstancesHold'
    <3> DEFINE d == DlsInfoAt(s, StartTarget)
    <3>1. s \in Slots /\ d \in DlsInfo /\ Stands(s, d) /\ Sane(d)
      BY StartSlotsStand
    <3>2. NoLive(d.eid) /\ SameApp(s, d)
      BY <2>1, <2>3, <3>1, IdleHasNoChild, StandsSameApp DEF InstancesHold, RecordsHold
    <3>3. ChildIsRecorded' /\ SingleInstance'
      BY <2>1, <2>3, <3>1, <3>2, LaunchInstance DEF InstancesHold
    <3> QED
      BY <2>1, <3>3 DEF InstancesHold, CollectedIsGone
  <2> QED
    BY <1>6, <2>2, <2>3 DEF StartApp
<1> QED
  BY <1>1, <1>2, <1>3, <1>4, <1>5, <1>6 DEF SchedHandler

LEMMA AcceptInstances ==
  ASSUME ConnectionInv, InstancesHold, Accept \/ AcceptFails
  PROVE  InstancesHold'
<1>1. pc = "select" /\ pc' \notin {"kill", "finish"} /\ UNCHANGED proc
  BY DEF Accept, LaunchConfirmation, AcceptFails
<1>2. CASE UNCHANGED <<listed, dls>>
  BY <1>1, <1>2, QuietInstances DEF RecordsPersist, NoLaunch, LiveChild
<1>3. ASSUME NEW a, NEW s \in GetDlsInfo(a), LaunchConfirmation(s, DlsInfoAt(s, a), Head(backlog))
      PROVE  InstancesHold'
  <2>1. /\ listed' = listed \cup {s}
        /\ dls' = [dls EXCEPT ![s] = [DlsInfoAt(s, a) EXCEPT !.commFd = Head(backlog),
                                        !.state = "RUNNING", !.msgQueue = << >>]]
    BY <1>3 DEF LaunchConfirmation
  <2>2. RecordsPersist
    <3>1. ASSUME NEW t \in listed
          PROVE  /\ dls'[t].eid = dls[t].eid /\ dls'[t].pid = dls[t].pid
                 /\ dls[t].state # "NOT_RUNNING" => dls'[t].state # "NOT_RUNNING"
      <4>1. t \in Slots /\ dls[t] \in DlsInfo /\ dls \in [Slots -> DlsInfo]
        BY DEF ConnectionInv, TypeOK
      <4>2. CASE t = s
        <5>1. dls'[s] = [dls[s] EXCEPT !.commFd = Head(backlog),
                                       !.state = "RUNNING", !.msgQueue = << >>]
          BY <2>1, <4>1, <4>2 DEF DlsInfoAt
        <5> QED
          BY <4>1, <4>2, <5>1 DEF DlsInfo
      <4>3. CASE t # s
        BY <2>1, <4>1, <4>3
      <4> QED
        BY <4>2, <4>3
    <3> QED
      BY <2>1, <3>1 DEF RecordsPersist
  <2> QED
    BY <1>1, <2>2, QuietInstances DEF NoLaunch, LiveChild
<1> QED
  BY <1>2, <1>3 DEF Accept, AcceptFails, listVars

LEMMA ServerFdInstances ==
  ASSUME ConnectionInv, RecordsHold, InstancesHold, NEW s \in Slots, ServerFdReadable(s)
  PROVE  InstancesHold'
<1>1. /\ pc = "select" /\ UNCHANGED pc /\ s \in listed
      /\ dls[s].state = "NOT_RUNNING"
      /\ LaunchApp(s, dls[s]) /\ listed' = listed \cup {s}
  BY DEF ServerFdReadable
<1>2. dls[s] \in DlsInfo /\ Sane(dls[s]) /\ Stands(s, dls[s])
  BY <1>1 DEF ConnectionInv, TypeOK, RecordsHold, RecordsSane, Stands
<1>3. NoLive(dls[s].eid) /\ SameApp(s, dls[s])
  BY <1>1, <1>2, IdleHasNoChild, StandsSameApp DEF InstancesHold, RecordsHold
<1>4. ChildIsRecorded' /\ SingleInstance'
  BY <1>1, <1>2, <1>3, LaunchInstance DEF InstancesHold, ConnectionInv
<1> QED
  BY <1>1, <1>4 DEF InstancesHold, CollectedIsGone

-----------------------------------------------------------------------------
LEMMA InstanceStep ==
  ASSUME ConnectionInv, RecordInv, InstancesHold, ~StuckProcesses, Next
  PROVE  InstancesHold'
<1>1. RecordsHold /\ MessagesOK /\ RegistrationsOK /\ LocalsOK /\ TypeOK
  BY DEF RecordInv, RecordsHold, ConnectionInv
<1>2. CASE SchedStep
  BY <1>1, <1>2, BootInstances, ReceiveInstances, HandlerInstances, AcceptInstances
     DEF SchedStep
<1>3. CASE Sigterm
  BY <1>3, CleanSchedInstances DEF Sigterm
<1>4. CASE \E s \in Slots : ServerFdReadable(s)
  BY <1>1, <1>4, ServerFdInstances
<1>5. CASE \E p \in Pids : AppStep(p)
  BY <1>1, <1>5, AppInstances
<1> QED
  BY <1>2, <1>3, <1>4, <1>5 DEF Next

LEMMA InstanceStutter ==
  ASSUME InstancesHold, UNCHANGED vars
  PROVE  InstancesHold'
<1>1. UNCHANGED <<pc, job, listed, dls, proc>>
  BY DEF vars, listVars
<1> QED
  BY <1>1 DEF InstancesHold, ChildIsRecorded, CollectedIsGone, SingleInstance, LiveChild

LEMMA InitInstances == Init => InstancesHold
<1> SUFFICES ASSUME Init PROVE InstancesHold
  OBVIOUS
<1>1. pc = "launch1" /\ \A p \in Pids : ~LiveChild(p)
  BY DEF Init, LiveChild
<1> QED
  BY <1>1 DEF InstancesHold, ChildIsRecorded, CollectedIsGone, SingleInstance, LiveChild

(* Unless a process survives SIGKILL, sched never has two live processes   *)
(* of a single-instance application, however stop, restart, crash,         *)
(* relaunch, failed launches and late connections interleave: a live       *)
(* process is the one its only record stands for, and collectApp comes to  *)
(* relaunching or clearing a record only when that process is gone.        *)
THEOREM InstancesUnique == Spec => []SingleInstance
<1> DEFINE Inv == /\ ConnectionInv /\ RecordInv
                  /\ StuckProcesses \/ InstancesHold
<1>1. Init => Inv
  BY InitConn, InitRecords, InitInstances
<1>2. Inv /\ [Next]_vars => Inv'
  BY ConnectionStep, ConnectionStutter, RecordStep, RecordStutter, InstanceStep,
     InstanceStutter
<1>3. Inv => SingleInstance
  BY DEF InstancesHold, SingleInstance
<1> QED
  BY <1>1, <1>2, <1>3, PTL DEF Spec
=============================================================================
