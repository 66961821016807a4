-------------------------- MODULE SchedAddressProofs --------------------------
(***************************************************************************)
(* The instances of a multiple-instance application: each can be addressed *)
(* by an eid of its own.                                                   *)
(***************************************************************************)
EXTENDS SchedRecordProofs

(* What the argument is about in a record, and a record of no process.     *)
Same(r, d) == /\ r.eid = d.eid /\ r.pid = d.pid /\ r.specificEid = d.specificEid
              /\ r.state = d.state /\ r.commFd = d.commFd
Idle(d) == d.pid = InvalidPid /\ d.specificEid = NoEid

(* d is the record of slot s, or a new one.                                *)
From(s, d) == IF s \in listed THEN Same(d, dls[s]) ELSE Idle(d)

InstancesKept ==
    /\ listed \subseteq listed'
    /\ \A s \in listed : Same(dls'[s], dls[s])
    /\ \A s \in listed' \ listed : Idle(dls'[s])

(* No connection comes or goes; sched reads from open ones only.           *)
SocketsKept ==
    /\ UNCHANGED conn
    /\ \A p \in Pids : conn[p] = "open" \/ toSched'[p] = toSched[p]

LEMMA InvalidIsNoPid == \A p \in Pids : p # InvalidPid /\ p # ForkError /\ p # InvalidFd
BY DlsAssumption

LEMMA AppendNotEmpty ==
  ASSUME NEW S, NEW q \in Seq(S), NEW m
  PROVE  Append(q, m) # << >>
<1>1. q \in Seq(S \cup {m})
  OBVIOUS
<1> QED
  BY <1>1

LEMMA NewIsIdle == \A a : Idle(NewDlsInfo(a))
BY DEF Idle, NewDlsInfo, PidInEid

LEMMA DlsInfoFrom ==
  ASSUME NEW s, NEW a
  PROVE  From(s, DlsInfoAt(s, a))
BY DEF From, DlsInfoAt, NewDlsInfo, PidInEid, Same, Idle

LEMMA LaunchedFields ==
  ASSUME NEW d \in DlsInfo, NEW p \in PidValue
  PROVE  /\ Launched(d, p).eid = d.eid /\ Launched(d, p).pid = p
         /\ Launched(d, p).commFd = d.commFd
         /\ Launched(d, p).state # "NOT_RUNNING"
         /\ Multi(d.eid) /\ p # InvalidPid =>
              Launched(d, p).specificEid = MakeSpecificEid(p, d.eid)
BY DEF Launched, DlsInfo

LEMMA QueueMsgFrom ==
  ASSUME NEW s, NEW d \in DlsInfo, NEW m, From(s, d)
  PROVE  From(s, QueueMsg(d, m))
BY DEF From, Same, Idle, QueueMsg, DlsInfo

(* A step outside collectApp that launches nothing and closes nothing.     *)
LEMMA QuietAddress ==
  ASSUME TypeOK, AddressInv, InstancesKept, UNCHANGED proc, SocketsKept,
         pc \notin Down \cup CollectPcs, pc' \notin CollectPcs \cup {"stopped"}
  PROVE  AddressInv'
<1>1. SpecificIsPid'
  BY DEF AddressInv, SpecificIsPid, InstancesKept, Same, Idle
<1>2. PidsDistinct'
  BY InvalidIsNoPid DEF AddressInv, PidsDistinct, InstancesKept, Same, Idle
<1>3. InstanceHasItsFd'
  BY InvalidIsNoPid DEF AddressInv, InstanceHasItsFd, InstancesKept, Same, Idle, SocketsKept
<1>4. PidInUse'
  <2>1. \A t \in listed : ~Collecting(t)
    BY DEF Collecting, CollectPcs
  <2>2. \A p \in Pids : Underway(p) => Underway(p)'
    BY DEF Underway, SocketsKept
  <2>3. \A t \in listed' : \A p \in Pids : dls'[t].pid = p =>
           proc'[p].eid = dls'[t].eid /\ Underway(p)'
    BY <2>1, <2>2, InvalidIsNoPid DEF AddressInv, PidInUse, InstancesKept, Same, Idle
  <2> QED
    BY <2>3 DEF PidInUse, Underway
<1>5. ChildHasRecord'
  BY DEF AddressInv, ChildHasRecord, InstancesKept, Same, Down
<1> QED
  BY <1>1, <1>2, <1>3, <1>4, <1>5 DEF AddressInv, CollectedIsFreed, StoppedIsClosed, CollectPcs

(* launchApp on a record without process: the pid of the new one was free, *)
(* so no other record has it.                                              *)
LEMMA LaunchAddress ==
  ASSUME TypeOK, AddressInv, ~EarlyFailures, SocketsKept,
         pc \notin Down \cup {"collect", "kill"}, pc' \notin CollectPcs \cup {"stopped"},
         NEW s \in Slots, NEW d \in DlsInfo, From(s, d), LaunchApp(s, d),
         listed' = listed \cup {s},
         IF pc = "finish" THEN s = job.target /\ "EXE" \in Flags[d.eid]
                          ELSE d.state = "NOT_RUNNING"
  PROVE  AddressInv'
<1>1. CASE "EXE" \notin Flags[d.eid]
  <2>1. dls' = [dls EXCEPT ![s] = d] /\ UNCHANGED proc
    BY <1>1 DEF LaunchApp
  <2>2. InstancesKept
    BY <2>1 DEF InstancesKept, From, Same, Idle, TypeOK
  <2> QED
    BY <1>1, <2>1, <2>2, QuietAddress DEF CollectPcs
<1>2. CASE "EXE" \in Flags[d.eid]
  <2>1. PICK p \in SpawnResults :
          /\ dls' = [dls EXCEPT ![s] = Launched(d, p)]
          /\ proc' = IF p \in Pids
                       THEN [proc EXCEPT ![p] = NewProcess(d.eid, TRUE)]
                       ELSE proc
    BY <1>2 DEF LaunchApp
  <2>2. p \in PidValue /\ p # InvalidPid /\ (p \in Pids => p \in FreePids)
    BY InvalidIsNoPid DEF SpawnResults, FreePids, PidValue, InvalidPid, ForkError
  <2>3. /\ dls'[s].eid = d.eid /\ dls'[s].pid = p
        /\ dls'[s].state # "NOT_RUNNING"
        /\ Multi(d.eid) => dls'[s].specificEid = MakeSpecificEid(p, d.eid)
    BY <2>1, <2>2, LaunchedFields DEF TypeOK
  <2>4. \A t \in listed \ {s} : t \in listed' /\ dls'[t] = dls[t]
    BY <2>1 DEF TypeOK
  <2>5. \A q \in Pids : IF q = p THEN proc'[q] = NewProcess(d.eid, TRUE)
                                 ELSE proc'[q] = proc[q]
    BY <2>1 DEF TypeOK
  <2>6. \A t \in listed \ {s} : ~Collecting(t)
    BY DEF Collecting
  <2>7. p \in Pids => ~Underway(p) /\ conn[p] = "none"
    BY <2>2 DEF FreePids, Underway, Dead
  <2>8. \A t \in listed \ {s} : p \in Pids => dls[t].pid # p
    BY <2>6, <2>7 DEF AddressInv, PidInUse
  <2>9. SpecificIsPid'
    BY <2>2, <2>3, <2>4 DEF AddressInv, SpecificIsPid
  <2>10. PidsDistinct'
    BY <2>3, <2>4, <2>8 DEF AddressInv, PidsDistinct
  <2>11. InstanceHasItsFd'
    BY <2>3, <2>4, <2>7 DEF AddressInv, InstanceHasItsFd, SocketsKept
  <2>12. PidInUse'
    <3>1. \A q \in Pids \ {p} : Underway(q) => Underway(q)'
      BY <2>5 DEF Underway, SocketsKept
    <3>2. p \in Pids => Underway(p)' /\ proc'[p].eid = d.eid
      BY <2>5 DEF Underway, NewProcess
    <3>3. ASSUME NEW t \in listed', NEW q \in Pids, dls'[t].pid = q
          PROVE  proc'[q].eid = dls'[t].eid /\ Underway(q)'
      <4>1. CASE t = s
        BY <2>3, <3>2, <3>3, <4>1
      <4>2. CASE t # s
        <5>1. t \in listed \ {s} /\ dls'[t] = dls[t] /\ dls[t].pid = q
          BY <2>4, <3>3, <4>2
        <5>2. proc[q].eid = dls[t].eid /\ Underway(q)
          BY <2>6, <5>1 DEF AddressInv, PidInUse
        <5>3. q # p
          BY <2>8, <5>1
        <5> QED
          BY <2>5, <3>1, <5>1, <5>2, <5>3
      <4> QED
        BY <4>1, <4>2
    <3> QED
      BY <3>3 DEF PidInUse, Underway
  <2>13. ChildHasRecord'
    <3>1. ASSUME NEW q \in Pids, q # p, proc[q].child
          PROVE  /\ proc[q].st # "free"
                 /\ \E t \in listed \ {s} : /\ dls[t].pid = q /\ dls[t].eid = proc[q].eid
                                            /\ dls[t].state # "NOT_RUNNING"
      <4>1. PICK t \in listed : /\ dls[t].pid = q /\ dls[t].eid = proc[q].eid
                                /\ dls[t].state # "NOT_RUNNING"
        BY <3>1 DEF AddressInv, ChildHasRecord, Down
      <4>2. CASE pc = "finish"
        BY <3>1, <4>1, <4>2 DEF AddressInv, CollectedIsFreed, ChildHasRecord
      <4>3. CASE pc # "finish"
        BY <3>1, <4>1, <4>3 DEF From, Same, AddressInv, ChildHasRecord, Down
      <4> QED
        BY <4>2, <4>3
    <3>2. ASSUME NEW q \in Pids, proc'[q].child
          PROVE  /\ proc'[q].st # "free"
                 /\ \E t \in listed' : /\ dls'[t].pid = q /\ dls'[t].eid = proc'[q].eid
                                       /\ dls'[t].state # "NOT_RUNNING"
      <4>1. CASE q = p
        BY <2>3, <2>5, <4>1 DEF NewProcess
      <4>2. CASE q # p
        <5>1. proc'[q] = proc[q]
          BY <2>5, <4>2
        <5> QED
          BY <2>4, <3>1, <3>2, <4>2, <5>1
      <4> QED
        BY <4>1, <4>2
    <3> QED
      BY <3>2 DEF ChildHasRecord
  <2> QED
    BY <2>9, <2>10, <2>11, <2>12, <2>13 DEF AddressInv, CollectedIsFreed, StoppedIsClosed, CollectPcs
<1> QED
  BY <1>1, <1>2

LEMMA SendAddress ==
  ASSUME TypeOK, AddressInv, ~EarlyFailures, SocketsKept,
         pc \notin Down \cup CollectPcs, pc' \notin CollectPcs \cup {"stopped"},
         NEW s \in Slots, NEW d \in DlsInfo, NEW m \in Msgs, NEW next, From(s, d),
         SendMessageByAppState(s, d, m, next), listed' = listed \cup {s}
  PROVE  AddressInv'
<1>1. /\ QueueMsg(d, m) \in DlsInfo /\ From(s, QueueMsg(d, m))
      /\ QueueMsg(d, m).state = d.state
  BY QueueMsgType, QueueMsgFrom, QueueMsgSame
<1>2. CASE d.state = "NOT_RUNNING" /\ LaunchApp(s, QueueMsg(d, m))
  BY <1>1, <1>2, LaunchAddress DEF CollectPcs
<1>3. ASSUME NEW r, dls' = [dls EXCEPT ![s] = r], r \in {d, QueueMsg(d, m)},
             UNCHANGED proc
      PROVE  AddressInv'
  <2>1. From(s, r)
    BY <1>1, <1>3
  <2>2. InstancesKept
    BY <1>3, <2>1 DEF InstancesKept, From, Same, Idle, TypeOK
  <2> QED
    BY <1>3, <2>2, QuietAddress
<1> QED
  BY <1>2, <1>3 DEF SendMessageByAppState

(* collectApp begins: the connection it closes is of no other record's     *)
(* process.                                                                *)
LEMMA CloseAddress ==
  ASSUME ConnectionInv, SingleRecord, AddressInv, pc \notin Down \cup CollectPcs,
         NEW s \in listed, pc' = "collect", job'.target = s,
         dls' = [dls EXCEPT ![s] = Closed(dls[s])], CloseFd(dls[s].commFd),
         UNCHANGED <<listed, proc>>
  PROVE  AddressInv'
<1> USE DEF ConnectionInv
<1>1. s \in Slots /\ dls[s] \in DlsInfo /\ dls[s].commFd \in Pids \cup {InvalidFd}
  BY DEF TypeOK, DlsInfo
<1>2. /\ dls'[s].eid = dls[s].eid /\ dls'[s].pid = dls[s].pid
      /\ dls'[s].state = dls[s].state /\ dls'[s].specificEid = dls[s].specificEid
      /\ dls'[s].commFd = InvalidFd
  BY <1>1 DEF Closed, TypeOK, DlsInfo
<1>3. \A t \in listed \ {s} : dls'[t] = dls[t]
  BY <1>1 DEF TypeOK
<1>4. \A p \in Pids : IF p = dls[s].commFd
                        THEN conn'[p] = "none"
                        ELSE conn'[p] = conn[p] /\ toSched'[p] = toSched[p]
  BY DEF CloseFd, TypeOK
<1>5. ASSUME NEW t \in listed \ {s}, NEW p \in Pids, dls[t].pid = p
      PROVE  /\ proc[p].eid = dls[t].eid /\ Underway(p)
             /\ p # dls[s].commFd
  <2>1. proc[p].eid = dls[t].eid /\ Underway(p)
    BY <1>5 DEF AddressInv, PidInUse, Collecting, CollectPcs
  <2>2. ASSUME p = dls[s].commFd
        PROVE  FALSE
    <3>1. /\ proc[p].eid = dls[s].eid /\ conn[p] = "open"
          /\ dls[t].commFd = p => s = t
      BY <2>2, InvalidIsNoPid DEF ConnectedIsRunning
    <3>2. Multi(dls[t].eid) => dls[t].commFd = p
      BY <1>5, <3>1 DEF AddressInv, InstanceHasItsFd
    <3> QED
      BY <1>5, <2>1, <3>1, <3>2 DEF SingleRecord
  <2> QED
    BY <2>1, <2>2
<1>6. SpecificIsPid' /\ PidsDistinct'
  BY <1>2, <1>3 DEF AddressInv, SpecificIsPid, PidsDistinct
<1>7. InstanceHasItsFd'
  <2> SUFFICES ASSUME NEW t \in listed, NEW p \in Pids, Multi(dls'[t].eid),
                      dls'[t].pid = p, conn'[p] = "open"
               PROVE  dls'[t].commFd = p
    BY DEF InstanceHasItsFd
  <2>1. conn[p] = "open" /\ p # dls[s].commFd
    BY <1>4
  <2>2. Multi(dls[t].eid) /\ dls[t].pid = p
    BY <1>2, <1>3
  <2>3. dls[t].commFd = p
    BY <2>1, <2>2 DEF AddressInv, InstanceHasItsFd
  <2> QED
    BY <1>3, <2>1, <2>3
<1>8. PidInUse'
  <2>1. Collecting(s)'
    BY DEF Collecting
  <2>2. \A t \in listed \ {s} : \A p \in Pids : dls'[t].pid = p =>
           proc'[p].eid = dls'[t].eid /\ Underway(p)'
    BY <1>3, <1>4, <1>5 DEF Underway
  <2> QED
    BY <2>1, <2>2 DEF PidInUse, Underway, Collecting
<1>9. ChildHasRecord'
  <2>1. pc # "stopped"
    BY DEF Down
  <2>2. \A t \in listed : /\ dls'[t].eid = dls[t].eid /\ dls'[t].pid = dls[t].pid
                          /\ dls'[t].state = dls[t].state
    BY <1>2, <1>3
  <2> QED
    BY <2>1, <2>2 DEF AddressInv, ChildHasRecord
<1> QED
  BY <1>6, <1>7, <1>8, <1>9 DEF AddressInv, CollectedIsFreed, StoppedIsClosed

-----------------------------------------------------------------------------
(* The steps.                                                              *)

LEMMA CleanSchedAddress ==
  ASSUME CleanSched
  PROVE  AddressInv'
<1>1. pc' = "stopped" /\ listed' = {} /\ \A p \in Pids : conn'[p] = "none"
  BY DEF CleanSched
<1> QED
  BY <1>1 DEF AddressInv, SpecificIsPid, PidsDistinct, InstanceHasItsFd, PidInUse,
              ChildHasRecord, CollectedIsFreed, StoppedIsClosed, Down

LEMMA BootAddress ==
  ASSUME ConnectionInv, LocalsOK, AddressInv, ~EarlyFailures, SchedBoot
  PROVE  AddressInv'
<1> USE DEF ConnectionInv
<1>1. ASSUME NEW s \in Slots, AppLauncher(s)
      PROVE  AddressInv'
  <2>1. /\ pc \in {"launch1", "launch2"} /\ s \in listed /\ listed' = listed \cup {s}
        /\ UNCHANGED listed
    BY <1>1 DEF AppLauncher, LocalsOK
  <2>2. pc \notin Down \cup CollectPcs /\ pc' \notin CollectPcs \cup {"stopped"}
    BY <1>1, <2>1 DEF AppLauncher, SendMessageByAppState, Send, Down, CollectPcs
  <2>3. /\ dls[s] \in DlsInfo /\ From(s, dls[s]) /\ BootMsg(dls[s].eid) \in Msgs
    BY <2>1, BootMsgType DEF From, Same, TypeOK, DlsInfo
  <2>4. SocketsKept
    BY <1>1 DEF AppLauncher, SocketsKept
  <2>5. CASE SendMessageByAppState(s, dls[s], BootMsg(dls[s].eid), pc)
    BY <2>1, <2>2, <2>3, <2>4, <2>5, SendAddress
  <2>6. CASE dls[s].state = "NOT_RUNNING" /\ LaunchApp(s, dls[s])
    BY <2>1, <2>2, <2>3, <2>4, <2>6, LaunchAddress DEF CollectPcs
  <2>7. CASE UNCHANGED <<dls, proc>>
    BY <2>1, <2>2, <2>4, <2>7, QuietAddress DEF InstancesKept, Same
  <2> QED
    BY <1>1, <2>5, <2>6, <2>7 DEF AppLauncher
<1>2. ASSUME InitDls2
      PROVE  AddressInv'
  <2>1. PICK f \in Placement(Stage2, Slots \ listed) :
          /\ listed' = listed \cup { f[e] : e \in Stage2 }
          /\ dls' = Placed(dls, Stage2, f)
    BY <1>2 DEF InitDls2
  <2>2. f \in [Stage2 -> Slots \ listed]
    BY DEF Placement
  <2>3. \A t \in listed : t \in Slots /\ ~ \E e \in Stage2 : f[e] = t
    BY <2>2 DEF TypeOK
  <2>4. \A t \in listed : dls'[t] = dls[t]
    BY <2>1, <2>3 DEF Placed
  <2>5. ASSUME NEW t \in listed' \ listed
        PROVE  Idle(dls'[t])
    <3>1. t \in Slots /\ \E e \in Stage2 : f[e] = t
      BY <2>1, <2>2
    <3>2. \E a : dls'[t] = NewDlsInfo(a)
      BY <2>1, <3>1 DEF Placed
    <3> QED
      BY <3>2, NewIsIdle
  <2>6. InstancesKept
    BY <2>1, <2>4, <2>5 DEF InstancesKept, Same
  <2>7. /\ pc \notin Down \cup CollectPcs /\ pc' \notin CollectPcs \cup {"stopped"}
        /\ UNCHANGED proc /\ SocketsKept
    BY <1>2 DEF InitDls2, SocketsKept, sockVars, Down, CollectPcs
  <2> QED
    BY <2>6, <2>7, QuietAddress
<1>3. ASSUME InitDls2Fails
      PROVE  AddressInv'
  BY <1>3, CleanSchedAddress DEF InitDls2Fails
<1>4. ASSUME BootDone
      PROVE  AddressInv'
  BY <1>4, QuietAddress
     DEF BootDone, listVars, sockVars, InstancesKept, Same, SocketsKept, Down, CollectPcs
<1> QED
  BY <1>1, <1>2, <1>3, <1>4 DEF SchedBoot

LEMMA ReceiveAddress ==
  ASSUME ConnectionInv, SingleRecord, AddressInv, ~EarlyFailures,
         NEW s \in Slots, SchedReceive(s)
  PROVE  AddressInv'
<1> USE DEF ConnectionInv
<1>1. pc = "select" /\ pc \notin Down \cup CollectPcs
  BY DEF SchedReceive, RecvRequeue, RecvEvent, RecvRegister, RecvIsAppRunning,
         RecvAppControl, RecvOther, RouteMessage, Readable, Disconnected, Down, CollectPcs
<1>2. ASSUME Readable(s), Consume(s), UNCHANGED conn
      PROVE  SocketsKept
  <2>1. s \in listed /\ dls[s].commFd # InvalidFd
    BY <1>2 DEF Readable
  <2>2. conn[dls[s].commFd] = "open"
    BY <2>1 DEF ConnectedIsRunning
  <2>3. \A p \in Pids : p # dls[s].commFd => toSched'[p] = toSched[p]
    BY <1>2 DEF Consume, TypeOK
  <2> QED
    BY <1>2, <2>2, <2>3 DEF SocketsKept
<1>3. CASE RecvRequeue(s) \/ RecvEvent(s) \/ RecvIsAppRunning(s)
           \/ RecvAppControl(s) \/ RecvOther(s)
  <2>1. Readable(s) /\ Consume(s) /\ UNCHANGED <<conn, listed, dls, proc>>
    BY <1>3 DEF RecvRequeue, RecvEvent, RecvIsAppRunning, RecvAppControl, RecvOther, listVars
  <2>2. pc' \notin CollectPcs \cup {"stopped"}
    BY <1>1, <1>3 DEF RecvRequeue, RecvEvent, RecvIsAppRunning, RecvAppControl, RecvOther,
                      Send, CollectPcs
  <2>3. SocketsKept /\ InstancesKept
    BY <1>2, <2>1 DEF InstancesKept, Same
  <2> QED
    BY <1>1, <2>1, <2>2, <2>3, QuietAddress
<1>4. CASE RecvRegister(s)
  <2>1. Readable(s) /\ Consume(s) /\ UNCHANGED <<conn, listed, proc>>
    BY <1>4 DEF RecvRegister
  <2>2. pc' \notin CollectPcs \cup {"stopped"}
    BY <1>4 DEF RecvRegister, Send, CollectPcs
  <2>3. CASE UNCHANGED dls
    BY <1>1, <1>2, <2>1, <2>2, <2>3, QuietAddress DEF InstancesKept, Same
  <2>4. ASSUME NEW n, dls' = [dls EXCEPT ![s].numEventInterestRequested = n]
        PROVE  AddressInv'
    <3>1. InstancesKept
      BY <2>1, <2>4 DEF InstancesKept, Same, TypeOK, DlsInfo
    <3> QED
      BY <1>1, <1>2, <2>1, <2>2, <3>1, QuietAddress
  <2> QED
    BY <1>4, <2>3, <2>4 DEF RecvRegister
<1>5. CASE RouteMessage(s)
  <2>1. /\ Readable(s) /\ Consume(s) /\ UNCHANGED conn
        /\ Incoming(s) \in Msgs /\ Incoming(s).dst \in Addr
    BY <1>5, IncomingType DEF RouteMessage, Msgs
  <2>2. pc' \notin CollectPcs \cup {"stopped"}
    BY <1>1, <1>5 DEF RouteMessage, Bounce, Forward, SendMessageByAppState, Send, CollectPcs
  <2>3. SocketsKept
    BY <1>2, <2>1
  <2>4. CASE UNCHANGED <<listed, dls, proc>>
    BY <1>1, <2>2, <2>3, <2>4, QuietAddress DEF InstancesKept, Same
  <2>5. ASSUME NEW t \in GetDlsInfo(Incoming(s).dst), listed' = listed \cup {t},
               SendMessageByAppState(t, DlsInfoAt(t, Incoming(s).dst),
                                     Incoming(s), "select")
        PROVE  AddressInv'
    <3> DEFINE d == DlsInfoAt(t, Incoming(s).dst)
    <3>1. t \in Slots /\ d \in DlsInfo /\ From(t, d)
      BY <2>1, GetDlsInfoType, DlsInfoFrom
    <3> QED
      BY <1>1, <2>1, <2>2, <2>3, <2>5, <3>1, SendAddress
  <2> QED
    BY <1>5, <2>4, <2>5 DEF RouteMessage, Bounce, Forward
<1>6. CASE Disconnected(s)
  <2>1. /\ s \in listed /\ pc' = "collect" /\ UNCHANGED <<listed, proc>>
        /\ dls' = [dls EXCEPT ![s] = Closed(dls[s])] /\ CloseFd(dls[s].commFd)
        /\ job' = [NoJob EXCEPT !.target = s]
    BY <1>6 DEF Disconnected
  <2>2. job'.target = s
    BY <2>1 DEF NoJob
  <2> QED
    BY <1>1, <2>1, <2>2, CloseAddress
<1> QED
  BY <1>3, <1>4, <1>5, <1>6 DEF SchedReceive

LEMMA ServerFdAddress ==
  ASSUME ConnectionInv, AddressInv, ~EarlyFailures, NEW s \in Slots, ServerFdReadable(s)
  PROVE  AddressInv'
<1>1. /\ pc = "select" /\ UNCHANGED pc /\ s \in listed
      /\ dls[s].state = "NOT_RUNNING"
      /\ LaunchApp(s, dls[s]) /\ listed' = listed \cup {s}
      /\ SocketsKept
  BY DEF ServerFdReadable, SocketsKept, sockVars
<1>2. TypeOK /\ dls[s] \in DlsInfo /\ From(s, dls[s])
  BY <1>1 DEF ConnectionInv, TypeOK, From, Same
<1> QED
  BY <1>1, <1>2, LaunchAddress DEF Down, CollectPcs

(* A connection is accepted: the launch message is signed with the eid of  *)
(* the process, which is the key of the record with its pid, if there is   *)
(* such a record.                                                          *)
LEMMA AcceptAddress ==
  ASSUME ConnectionInv, AddressInv, ~EarlyFailures, Accept \/ AcceptFails
  PROVE  AddressInv'
<1> USE DEF ConnectionInv
<1> DEFINE p == Head(backlog)
           a == Head(toSched[p]).src
<1>1. /\ pc = "select" /\ pc \notin Down \cup CollectPcs /\ backlog # << >>
      /\ pc' \notin CollectPcs \cup {"stopped"} /\ UNCHANGED proc
  BY DEF Accept, LaunchConfirmation, AcceptFails, Down, CollectPcs
<1>2. p \in Pids /\ conn[p] = "pending"
  <2>1. backlog \in Seq(Pids) /\ 1 \in 1..Len(backlog) /\ p = backlog[1]
    BY <1>1 DEF TypeOK
  <2> QED
    BY <2>1 DEF SocketsOK
<1>3. \A t \in listed : \A q \in Pids : dls[t].pid = q =>
         proc[q].eid = dls[t].eid /\ Underway(q)
  BY <1>1 DEF AddressInv, PidInUse, Collecting, CollectPcs
<1>4. toSched[p] # << >> => a = OwnAddr(p, proc[p].eid)
  BY <1>2 DEF SocketsOK
<1>5. ASSUME toSched[p] # << >>, NEW t \in listed, dls[t].pid = p
      PROVE  t \in GetExistingDlsInfo(a)
  <2>1. proc[p].eid = dls[t].eid
    BY <1>2, <1>3, <1>5
  <2>2. KeyOf(dls[t]) = OwnAddr(p, dls[t].eid)
    BY <1>2, <1>5, InvalidIsNoPid
       DEF KeyOf, OwnAddr, AddressInv, SpecificIsPid
  <2> QED
    BY <1>4, <1>5, <2>1, <2>2 DEF GetExistingDlsInfo
<1>6. ASSUME CloseFd(p), UNCHANGED <<listed, dls>>, \A t \in listed : dls[t].pid # p
      PROVE  AddressInv'
  <2>1. \A q \in Pids \ {p} : conn'[q] = conn[q] /\ toSched'[q] = toSched[q]
    BY <1>6 DEF CloseFd, TypeOK
  <2>2. SpecificIsPid' /\ PidsDistinct'
    BY <1>6 DEF AddressInv, SpecificIsPid, PidsDistinct
  <2>3. InstanceHasItsFd'
    BY <1>6, <2>1 DEF AddressInv, InstanceHasItsFd
  <2>4. PidInUse'
    <3>1. \A q \in Pids \ {p} : Underway(q) => Underway(q)'
      BY <1>1, <2>1 DEF Underway
    <3>2. \A t \in listed : \A q \in Pids : dls[t].pid = q =>
             proc'[q].eid = dls[t].eid /\ Underway(q)'
      BY <1>1, <1>3, <1>6, <3>1
    <3> QED
      BY <1>6, <3>2 DEF PidInUse, Underway
  <2>5. ChildHasRecord'
    BY <1>1, <1>6 DEF AddressInv, ChildHasRecord
  <2> QED
    BY <1>1, <2>2, <2>3, <2>4, <2>5
       DEF AddressInv, CollectedIsFreed, StoppedIsClosed, CollectPcs
<1>7. CASE AcceptFails
  <2>1. /\ toSched[p] = << >> /\ PeerGone(p) /\ CloseFd(p) /\ UNCHANGED <<listed, dls>>
    BY <1>7 DEF AcceptFails, listVars
  <2>2. ~Underway(p)
    BY <1>2, <2>1 DEF Underway, PeerGone, Alive
  <2> QED
    BY <1>2, <1>3, <1>6, <2>1, <2>2
<1>8. ASSUME toSched[p] # << >>, GetDlsInfo(a) = {}, CloseFd(p), UNCHANGED <<listed, dls>>
      PROVE  AddressInv'
  <2>1. GetExistingDlsInfo(a) = {}
    BY <1>8 DEF GetDlsInfo
  <2> QED
    BY <1>5, <1>6, <1>8, <2>1
<1>9. ASSUME toSched[p] # << >>, NEW s \in GetDlsInfo(a),
             LaunchConfirmation(s, DlsInfoAt(s, a), p)
      PROVE  AddressInv'
  <2> DEFINE d == DlsInfoAt(s, a)
  <2>1. a \in Addr
    <3>1. toSched[p] \in Seq(Msgs)
      BY <1>2 DEF TypeOK
    <3>2. Head(toSched[p]) \in Msgs
      BY <1>9, <3>1
    <3> QED
      BY <3>2 DEF Msgs
  <2>2. s \in Slots /\ d \in DlsInfo /\ From(s, d)
    BY <2>1, <1>9, GetDlsInfoType, DlsInfoFrom
  <2> HIDE DEF a
  <2> HIDE DEF d
  <2>3. /\ listed' = listed \cup {s}
        /\ dls' = [dls EXCEPT ![s] = [d EXCEPT !.commFd = p, !.state = "RUNNING",
                                               !.msgQueue = << >>]]
        /\ conn' = [conn EXCEPT ![p] = "open"]
        /\ toSched' = [toSched EXCEPT ![p] = Tail(@)]
    BY <1>9 DEF LaunchConfirmation, d
  <2>4. /\ dls'[s].eid = d.eid /\ dls'[s].pid = d.pid /\ dls'[s].state = "RUNNING"
        /\ dls'[s].specificEid = d.specificEid /\ dls'[s].commFd = p
    BY <2>2, <2>3 DEF TypeOK, DlsInfo
  <2>5. \A t \in listed \ {s} : t \in listed' /\ dls'[t] = dls[t]
    BY <2>3 DEF TypeOK
  <2>6. /\ conn'[p] = "open"
        /\ \A q \in Pids \ {p} : conn'[q] = conn[q] /\ toSched'[q] = toSched[q]
    BY <1>2, <2>3 DEF TypeOK
  <2>7. /\ s \in listed => /\ d.eid = dls[s].eid /\ d.pid = dls[s].pid
                           /\ d.specificEid = dls[s].specificEid
        /\ s \notin listed => d.pid = InvalidPid /\ d.specificEid = NoEid
    BY <2>2 DEF From, Same, Idle
  <2>8. \A t \in listed : dls[t].pid = p /\ Multi(dls[t].eid) => s \in listed /\ s = t
    <3> SUFFICES ASSUME NEW t \in listed, dls[t].pid = p, Multi(dls[t].eid)
                 PROVE  s \in listed /\ s = t
      OBVIOUS
    <3>1. t \in GetExistingDlsInfo(a)
      BY <1>5, <1>9
    <3>2. s \in listed /\ KeyOf(dls[s]) = KeyOf(dls[t])
      BY <1>9, <3>1 DEF GetDlsInfo, GetExistingDlsInfo
    <3>3. KeyOf(dls[t]) = <<p, dls[t].eid>>
      BY <1>2, InvalidIsNoPid DEF AddressInv, SpecificIsPid, KeyOf, MakeSpecificEid
    <3>4. Multi(dls[s].eid) /\ dls[s].specificEid = <<p, dls[t].eid>>
      BY <1>2, <3>2, <3>3, InvalidIsNoPid DEF KeyOf, Generic
    <3>5. dls[s].pid = p
      <4>1. <<p, dls[t].eid>> = IF dls[s].pid = InvalidPid THEN <<InvalidPid, UnknownId>>
                                ELSE <<dls[s].pid, dls[s].eid>>
        BY <3>2, <3>4 DEF AddressInv, SpecificIsPid, NoEid, Generic, MakeSpecificEid
      <4>2. p # InvalidPid
        BY <1>2, InvalidIsNoPid
      <4> HIDE DEF p
      <4> QED
        BY <4>1, <4>2
    <3> QED
      BY <1>2, <3>2, <3>5 DEF AddressInv, PidsDistinct
  <2>9. SpecificIsPid'
    BY <2>3, <2>4, <2>5, <2>7 DEF AddressInv, SpecificIsPid
  <2>10. PidsDistinct'
    BY <2>3, <2>4, <2>5, <2>7, InvalidIsNoPid DEF AddressInv, PidsDistinct
  <2>11. InstanceHasItsFd'
    <3> SUFFICES ASSUME NEW t \in listed', NEW q \in Pids, Multi(dls'[t].eid),
                        dls'[t].pid = q, conn'[q] = "open"
                 PROVE  dls'[t].commFd = q
      BY DEF InstanceHasItsFd
    <3>1. t \in listed /\ dls[t].pid = q /\ Multi(dls[t].eid)
      BY <2>3, <2>4, <2>5, <2>7, InvalidIsNoPid
    <3>2. CASE q = p
      BY <2>4, <2>8, <3>1, <3>2
    <3>3. CASE q # p
      <4>1. dls[t].commFd = q
        BY <2>6, <3>1, <3>3 DEF AddressInv, InstanceHasItsFd
      <4>2. t # s
        <5>1. ASSUME t = s PROVE FALSE
          <6>1. Multi(dls[s].eid) /\ KeyOf(dls[s]) = a
            BY <1>9, <3>1, <5>1 DEF GetDlsInfo, GetExistingDlsInfo, GetNewDlsInfo
          <6>2. a = OwnAddr(p, proc[p].eid)
            BY <1>4, <1>9
          <6>3. dls[s].specificEid = <<q, dls[s].eid>>
            BY <3>1, <5>1, InvalidIsNoPid DEF AddressInv, SpecificIsPid, MakeSpecificEid
          <6> QED
            BY <3>3, <6>1, <6>2, <6>3, InvalidIsNoPid
               DEF KeyOf, OwnAddr, MakeSpecificEid, Generic
        <5> QED
          BY <5>1
      <4> QED
        BY <2>5, <3>1, <4>1, <4>2
    <3> QED
      BY <3>2, <3>3
  <2>12. PidInUse'
    <3>1. \A q \in Pids : Underway(q) => Underway(q)'
      BY <1>1, <2>6 DEF Underway
    <3>2. ASSUME NEW t \in listed', NEW q \in Pids, dls'[t].pid = q
          PROVE  proc'[q].eid = dls'[t].eid /\ Underway(q)'
      <4>1. t \in listed /\ dls[t].pid = q /\ dls'[t].eid = dls[t].eid
        BY <2>3, <2>4, <2>5, <2>7, <3>2, InvalidIsNoPid
      <4>2. proc[q].eid = dls[t].eid /\ Underway(q)
        BY <1>3, <4>1
      <4> QED
        BY <1>1, <3>1, <4>1, <4>2
    <3> QED
      BY <3>2 DEF PidInUse, Underway
  <2>13. ChildHasRecord'
    <3>1. \A t \in listed : /\ t \in listed' /\ dls'[t].pid = dls[t].pid
                            /\ dls'[t].eid = dls[t].eid
                            /\ dls[t].state # "NOT_RUNNING" => dls'[t].state # "NOT_RUNNING"
      BY <2>4, <2>5, <2>7, <2>3
    <3> QED
      BY <1>1, <3>1 DEF AddressInv, ChildHasRecord
  <2> QED
    BY <1>1, <2>9, <2>10, <2>11, <2>12, <2>13
       DEF AddressInv, CollectedIsFreed, StoppedIsClosed, CollectPcs
<1> QED
  BY <1>7, <1>8, <1>9 DEF Accept

(* prctl_collectProcess.  waitpid(-1) for a record of a failed fork may    *)
(* take a dead child of another record, but not its connection.            *)
LEMMA CollectAddress ==
  ASSUME ConnectionInv, AddressInv, ~StuckProcesses,
         (\E p \in Pids : Collect(p)) \/ CollectNothing \/ CollectTimeout
         \/ CollectGiveUp
  PROVE  AddressInv'
<1> USE DEF ConnectionInv
<1> DEFINE s == job.target
<1>1. /\ pc \in {"collect", "kill"} /\ pc' \in {"kill", "finish"}
      /\ UNCHANGED <<listed, dls, conn, toSched>> /\ job'.target = s
      /\ s \in listed
  BY DEF Collect, CollectNothing, CollectTimeout, CollectGiveUp, listVars, sockVars,
         TypeOK, Jobs, HandlerOK
<1>2. dls[s].pid \in PidValue
  BY <1>1 DEF TypeOK, DlsInfo
<1> HIDE DEF s
<1>3. SpecificIsPid' /\ PidsDistinct' /\ InstanceHasItsFd'
  BY <1>1 DEF AddressInv, SpecificIsPid, PidsDistinct, InstanceHasItsFd
<1>4. \A t \in listed : Collecting(t) <=> t = s
  BY <1>1 DEF Collecting, s
<1>5. \A t \in listed : Collecting(t)' <=> t = s
  BY <1>1 DEF Collecting
<1>6. ASSUME NEW p \in Pids, proc'[p].eid = proc[p].eid, proc'[p].st = proc[p].st
      PROVE  Underway(p) => Underway(p)'
  BY <1>1, <1>6 DEF Underway
<1>7. ASSUME \A p \in Pids :
               \/ proc'[p] = proc[p]
               \/ /\ proc'[p].eid = proc[p].eid
                  /\ proc'[p].child => proc[p].child /\ proc'[p].st # "free"
                  /\ dls[s].pid = p \/ proc[p].st \in Dead,
             pc' = "kill" => \A p \in Pids : dls[s].pid = p => ~LiveChild(p)',
             pc' = "finish" => \A p \in Pids : dls[s].pid = p => ~proc'[p].child
      PROVE  AddressInv'
  <2>1. PidInUse'
    <3>1. ASSUME NEW t \in listed, NEW p \in Pids, dls[t].pid = p, t # s
          PROVE  proc'[p].eid = dls[t].eid /\ Underway(p)'
      <4>1. proc[p].eid = dls[t].eid /\ Underway(p)
        BY <1>1, <1>4, <3>1 DEF AddressInv, PidInUse, Down
      <4>2. dls[s].pid # p
        BY <1>1, <3>1 DEF AddressInv, PidsDistinct
      <4>3. proc[p].st \in Dead => Underway(p)'
        BY <1>1, <4>1 DEF Underway, Dead
      <4> QED
        BY <1>6, <1>7, <4>1, <4>2, <4>3
    <3> QED
      BY <1>1, <1>5, <3>1 DEF PidInUse, Underway, Collecting
  <2>2. ChildHasRecord'
    <3>1. \A p \in Pids : proc'[p].child =>
             proc[p].child /\ proc'[p].eid = proc[p].eid
             /\ (proc'[p].st # "free" \/ proc'[p] = proc[p])
      BY <1>7
    <3> QED
      BY <1>1, <3>1 DEF AddressInv, ChildHasRecord
  <2>3. CollectedIsFreed'
    BY <1>1, <1>7 DEF CollectedIsFreed, LiveChild
  <2> QED
    BY <1>1, <1>3, <2>1, <2>2, <2>3 DEF AddressInv, StoppedIsClosed
<1>8. ASSUME NEW p \in Pids, Collect(p)
      PROVE  AddressInv'
  <2>1. /\ p \in Collectable(dls[s].pid) /\ pc' = "finish"
        /\ proc' = [proc EXCEPT ![p].st = "free", ![p].child = FALSE]
    BY <1>8 DEF Collect, s
  <2>2. /\ \A q \in Pids \ {p} : proc'[q] = proc[q]
        /\ proc'[p].child = FALSE /\ proc'[p].eid = proc[p].eid
    BY <2>1 DEF TypeOK, Processes
  <2>3. proc[p].st \in Dead /\ \A q \in Pids : dls[s].pid = q => q = p
    BY <2>1, InvalidIsNoPid DEF Collectable
  <2> QED
    BY <1>7, <2>1, <2>2, <2>3
<1>9. CASE CollectNothing
  <2>1. UNCHANGED proc /\ \A q \in Pids : dls[s].pid # q
    BY <1>9, InvalidIsNoPid DEF CollectNothing, s
  <2> QED
    BY <1>7, <2>1
<1>10. CASE CollectTimeout
  <2>1. pc' = "kill"
    BY <1>10 DEF CollectTimeout
  <2>2. ASSUME NEW p \in Pids, p = dls[s].pid, proc[p].st \in Alive,
               proc' = [proc EXCEPT ![p].st = "exited"]
        PROVE  AddressInv'
    <3>1. /\ \A q \in Pids \ {p} : proc'[q] = proc[q]
          /\ proc'[p].st = "exited" /\ proc'[p].eid = proc[p].eid
          /\ proc'[p].child = proc[p].child
      BY <2>2 DEF TypeOK, Processes
    <3>2. \A q \in Pids : dls[s].pid = q => ~LiveChild(q)'
      BY <2>2, <3>1 DEF LiveChild, Alive
    <3> QED
      BY <1>7, <2>1, <2>2, <3>1, <3>2
  <2>3. CASE ~(dls[s].pid \in Pids /\ proc[dls[s].pid].st \in Alive) /\ UNCHANGED proc
    <3>1. \A q \in Pids : dls[s].pid = q => ~LiveChild(q)'
      BY <2>3 DEF LiveChild
    <3> QED
      BY <1>7, <2>1, <2>3, <3>1
  <2> QED
    BY <1>10, <2>2, <2>3 DEF CollectTimeout, s
<1>11. CASE CollectGiveUp
  <2>1. /\ pc = "kill" /\ pc' = "finish" /\ UNCHANGED proc
        /\ Collectable(dls[s].pid) = {}
    BY <1>11 DEF CollectGiveUp, s
  <2>2. ASSUME NEW p \in Pids, dls[s].pid = p, proc[p].child
        PROVE  FALSE
    <3>1. proc[p].st \notin Alive
      BY <2>1, <2>2 DEF AddressInv, CollectedIsFreed, LiveChild, s
    <3>2. proc[p].st # "free"
      BY <2>1, <2>2 DEF AddressInv, ChildHasRecord
    <3>3. proc[p].st \in Dead
      BY <3>1, <3>2 DEF TypeOK, Processes
    <3> QED
      BY <2>1, <2>2, <3>3 DEF Collectable
  <2> QED
    BY <1>7, <2>1, <2>2
<1> QED
  BY <1>8, <1>9, <1>10, <1>11

(* The rest of collectApp: the process of the record is no child any more. *)
LEMMA FinishAddress ==
  ASSUME ConnectionInv, LocalsOK, AddressInv, ~EarlyFailures, FinishCollect
  PROVE  AddressInv'
<1> USE DEF ConnectionInv
<1> DEFINE s == job.target
           d == dls[s]
<1>1. pc = "finish" /\ s \in listed /\ s \in Slots /\ d \in DlsInfo
  BY DEF FinishCollect, HandlerOK, TypeOK
<1>2. /\ pc' \notin CollectPcs \cup {"stopped"} /\ pc \notin Down \cup {"collect", "kill"}
      /\ SocketsKept
  BY <1>1 DEF FinishCollect, Return, CollectPcs, SocketsKept, sockVars, Down
<1>3. ASSUME job.fatal, LaunchApp(s, d), UNCHANGED listed
      PROVE  AddressInv'
  <2>1. "EXE" \in Flags[d.eid] /\ From(s, d) /\ listed' = listed \cup {s}
    BY <1>1, <1>3 DEF LocalsOK, From, Same
  <2> QED
    BY <1>1, <1>2, <1>3, <2>1, LaunchAddress
<1>4. \A t \in listed \ {s} : ~Collecting(t)
  BY DEF Collecting
<1>5. ASSUME UNCHANGED proc, listed \ {s} \subseteq listed', listed' \subseteq listed,
             \A t \in listed \ {s} : dls'[t] = dls[t],
             s \in listed' => Idle(dls'[s]) \/ (pc' \in Down /\ dls'[s] = dls[s])
      PROVE  AddressInv'
  <2>1. SpecificIsPid' /\ PidsDistinct'
    BY <1>1, <1>5, InvalidIsNoPid DEF AddressInv, SpecificIsPid, PidsDistinct, Idle
  <2>2. InstanceHasItsFd'
    BY <1>1, <1>2, <1>5, InvalidIsNoPid DEF AddressInv, InstanceHasItsFd, Idle, SocketsKept
  <2>3. PidInUse'
    <3>1. \A p \in Pids : Underway(p) => Underway(p)'
      BY <1>2, <1>5 DEF Underway, SocketsKept
    <3>2. ASSUME pc' \notin Down, NEW t \in listed', NEW p \in Pids, dls'[t].pid = p
          PROVE  proc'[p].eid = dls'[t].eid /\ Underway(p)'
      <4>1. t \in listed \ {s} /\ dls'[t] = dls[t]
        BY <1>5, <3>2, InvalidIsNoPid DEF Idle
      <4>2. proc[p].eid = dls[t].eid /\ Underway(p)
        BY <1>2, <1>4, <3>2, <4>1 DEF AddressInv, PidInUse
      <4> QED
        BY <1>5, <3>1, <4>1, <4>2
    <3> QED
      BY <3>2 DEF PidInUse, Underway
  <2>4. ChildHasRecord'
    <3>1. ASSUME NEW p \in Pids, proc[p].child
          PROVE  /\ proc[p].st # "free"
                 /\ \E t \in listed \ {s} : /\ dls[t].pid = p /\ dls[t].eid = proc[p].eid
                                            /\ dls[t].state # "NOT_RUNNING"
      BY <1>1, <3>1 DEF AddressInv, ChildHasRecord, CollectedIsFreed
    <3> QED
      BY <1>5, <3>1 DEF ChildHasRecord
  <2> QED
    BY <1>2, <2>1, <2>2, <2>3, <2>4 DEF AddressInv, CollectedIsFreed, StoppedIsClosed, CollectPcs
<1>6. ASSUME UNCHANGED proc, listed' = listed \ {s}, dls' = [dls EXCEPT ![s] = Blank]
      PROVE  AddressInv'
  <2>1. \A t \in listed \ {s} : dls'[t] = dls[t]
    BY <1>6 DEF TypeOK
  <2> QED
    BY <1>5, <1>6, <2>1
<1>7. ASSUME UNCHANGED <<proc, listed>>, dls' = [dls EXCEPT ![s] = Cleared(d)]
      PROVE  AddressInv'
  <2>1. \A t \in listed \ {s} : dls'[t] = dls[t]
    BY <1>7 DEF TypeOK
  <2>2. Idle(dls'[s])
    BY <1>1, <1>7 DEF TypeOK, Cleared, DlsInfo, Idle
  <2>3. /\ listed \ {s} \subseteq listed' /\ listed' \subseteq listed
        /\ s \in listed' => Idle(dls'[s]) \/ (pc' \in Down /\ dls'[s] = dls[s])
    BY <1>7, <2>2
  <2> HIDE DEF s
  <2> QED
    BY <1>5, <1>7, <2>1, <2>3
<1>8. ASSUME UNCHANGED <<proc, listed, dls>>, pc' = "segv"
      PROVE  AddressInv'
  BY <1>5, <1>8 DEF Down
<1> QED
  BY <1>3, <1>6, <1>7, <1>8 DEF FinishCollect

LEMMA HandlerAddress ==
  ASSUME ConnectionInv, RegistrationsOK, LocalsOK, SingleRecord, AddressInv,
         ~EarlyFailures, ~StuckProcesses, SchedHandler
  PROVE  AddressInv'
<1> USE DEF ConnectionInv
<1>1. ASSUME NEW i \in job.todo, Distribute(i)
      PROVE  AddressInv'
  <2>1. /\ pc \notin Down \cup CollectPcs /\ pc' \notin CollectPcs \cup {"stopped"}
        /\ SocketsKept
    BY <1>1 DEF Distribute, SendMessageByAppState, Send, Down, CollectPcs, SocketsKept
  <2>2. i.eid \in Addr
    <3>1. \A j \in interests \cup job.todo :
            \E p \in Pids : \E x \in Entities : j.eid = OwnAddr(p, x)
      BY DEF RegistrationsOK
    <3>2. PICK p \in Pids, x \in Entities : i.eid = OwnAddr(p, x)
      BY <3>1
    <3> QED
      BY <3>2, OwnAddrProper
  <2>3. CASE UNCHANGED <<listed, dls, proc>>
    BY <2>1, <2>3, QuietAddress DEF InstancesKept, Same
  <2>4. ASSUME NEW s \in GetDlsInfo(i.eid), listed' = listed \cup {s},
               \/ dls' = [dls EXCEPT ![s] = DlsInfoAt(s, i.eid)] /\ UNCHANGED proc
               \/ SendMessageByAppState(s, DlsInfoAt(s, i.eid),
                    [job.msg EXCEPT !.dst = KeyOf(DlsInfoAt(s, i.eid))], pc)
        PROVE  AddressInv'
    <3> DEFINE d == DlsInfoAt(s, i.eid)
    <3>1. s \in Slots /\ d \in DlsInfo /\ From(s, d)
      BY <2>2, GetDlsInfoType, DlsInfoFrom
    <3>2. [job.msg EXCEPT !.dst = KeyOf(d)] \in Msgs
      BY <3>1, KeyOfType DEF TypeOK, Jobs, Msgs
    <3>3. CASE dls' = [dls EXCEPT ![s] = d] /\ UNCHANGED proc
      <4>1. InstancesKept
        BY <2>4, <3>1, <3>3 DEF InstancesKept, From, Same, Idle, TypeOK
      <4> QED
        BY <2>1, <3>3, <4>1, QuietAddress
    <3>4. CASE SendMessageByAppState(s, d, [job.msg EXCEPT !.dst = KeyOf(d)], pc)
      BY <2>1, <2>4, <3>1, <3>2, <3>4, SendAddress
    <3> QED
      BY <2>4, <3>3, <3>4
  <2> QED
    BY <1>1, <2>3, <2>4 DEF Distribute
<1>2. CASE DistributeDone \/ Reply
  <2>1. /\ pc \notin Down \cup CollectPcs /\ pc' \notin CollectPcs \cup {"stopped"}
        /\ UNCHANGED <<listed, dls, proc, conn, toSched>>
    BY <1>2 DEF DistributeDone, Reply, Send, listVars, sockVars, Down, CollectPcs
  <2> QED
    BY <2>1, QuietAddress DEF InstancesKept, Same, SocketsKept
<1>3. CASE StopApp
  <2>1. pc = "stop" /\ pc \notin Down \cup CollectPcs /\ UNCHANGED <<listed, proc>>
    BY <1>3 DEF StopApp, Down, CollectPcs
  <2>2. ASSUME pc' = Return, UNCHANGED <<dls, conn, toSched>>
        PROVE  AddressInv'
    BY <2>1, <2>2, QuietAddress DEF InstancesKept, Same, SocketsKept, Return, CollectPcs
  <2>3. ASSUME NEW s \in listed, NEW x, pc' = "collect", CloseFd(dls[s].commFd),
               job' = [job EXCEPT !.target = s, !.ret = "SUCCESS", !.term = x],
               dls' = [dls EXCEPT ![s] = Closed(dls[s])]
        PROVE  AddressInv'
    <3>1. job'.target = s
      BY <2>3 DEF TypeOK, Jobs
    <3> QED
      BY <2>1, <2>3, <3>1, CloseAddress
  <2> QED
    BY <1>3, <2>2, <2>3 DEF StopApp, GetExistingDlsInfo
<1>4. CASE (\E p \in Pids : Collect(p)) \/ CollectNothing \/ CollectTimeout
           \/ CollectGiveUp
  BY <1>4, CollectAddress
<1>5. CASE FinishCollect
  BY <1>5, FinishAddress
<1>6. CASE StartApp
  <2>1. /\ pc \notin Down \cup CollectPcs /\ pc' \notin CollectPcs \cup {"stopped"}
        /\ SocketsKept
    BY <1>6 DEF StartApp, SocketsKept, sockVars, Down, CollectPcs
  <2>2. CASE UNCHANGED <<listed, dls, proc>>
    BY <2>1, <2>2, QuietAddress DEF InstancesKept, Same
  <2>3. ASSUME NEW s \in StartSlots(StartTarget),
               DlsInfoAt(s, StartTarget).state = "NOT_RUNNING",
               listed' = listed \cup {s}, LaunchApp(s, DlsInfoAt(s, StartTarget))
        PROVE  AddressInv'
    <3> DEFINE d == DlsInfoAt(s, StartTarget)
    <3>1. StartTarget \in Addr
      BY DEF StartSlots, Generic, Addr, PidValue
    <3>2. s \in Slots /\ d \in DlsInfo /\ From(s, d)
      BY <3>1, GetDlsInfoType, GetNewDlsInfoType, DlsInfoFrom DEF StartSlots
    <3> QED
      BY <2>1, <2>3, <3>2, LaunchAddress DEF CollectPcs
  <2> QED
    BY <1>6, <2>2, <2>3 DEF StartApp
<1> QED
  BY <1>1, <1>2, <1>3, <1>4, <1>5, <1>6 DEF SchedHandler

(* A step of an application.  One whose connection is closed, or that has  *)
(* ended, has no record any more unless collectApp is at it.               *)
LEMMA AppAddress ==
  ASSUME ConnectionInv, AddressInv, ~EarlyFailures, NEW p \in Pids, AppStep(p)
  PROVE  AddressInv'
<1> USE DEF ConnectionInv
<1>1. UNCHANGED <<pc, job, listed, dls>>
  BY AppFrame
<1>2. SpecificIsPid' /\ PidsDistinct'
  BY <1>1 DEF AddressInv, SpecificIsPid, PidsDistinct
<1>3. \A q \in Pids : \/ conn'[q] = conn[q]
                      \/ conn[q] = "none" /\ conn'[q] = "pending" /\ pc \notin Down
  BY DEF AppStep, AppInit, AppConnect, AppSendLaunched, AppSend, AppReceive, AppRequeue,
         AppDies, AppTerminated, AppSeesClose, AppEnds, SelfStart, sockVars, SocketsOK, TypeOK
<1>4. InstanceHasItsFd' /\ StoppedIsClosed'
  BY <1>1, <1>3 DEF AddressInv, InstanceHasItsFd, StoppedIsClosed, Down
<1>5. ASSUME NEW q \in Pids
      PROVE  \/ /\ proc'[q].eid = proc[q].eid /\ proc'[q].child = proc[q].child
                /\ proc'[q].st \in Alive => proc[q].st \in Alive
                /\ proc'[q].st = "free" => proc[q].st = "free"
             \/ ~proc'[q].child
  <2>1. CASE SelfStart(p)
    <3>1. PICK e \in SelfStarters : proc' = [proc EXCEPT ![p] = NewProcess(e, FALSE)]
      BY <2>1 DEF SelfStart
    <3>2. IF q = p THEN proc'[q] = NewProcess(e, FALSE) ELSE proc'[q] = proc[q]
      BY <3>1 DEF TypeOK
    <3>3. NewProcess(e, FALSE).child = FALSE
      BY DEF NewProcess
    <3>4. CASE q = p
      BY <3>2, <3>3, <3>4
    <3>5. CASE q # p
      BY <3>2, <3>5
    <3> QED
      BY <3>4, <3>5
  <2>2. ASSUME NEW st, proc' = [proc EXCEPT ![p].st = st], st # "free",
               st \in Alive => proc[p].st \in Alive
        PROVE  <1>5!2
    BY <2>2 DEF TypeOK, Processes
  <2>3. \/ SelfStart(p) \/ UNCHANGED proc
        \/ \E st : /\ proc' = [proc EXCEPT ![p].st = st] /\ st # "free"
                   /\ st \in Alive => proc[p].st \in Alive
    <3>1. \A how \in Deaths : how \notin Alive /\ how # "free"
      BY SchedAssumption DEF Alive
    <3> QED
      BY <1>1, <3>1, AppStep(p)
         DEF AppStep, AppInit, AppConnect, AppSendLaunched, AppSend, AppReceive,
             AppRequeue, AppDies, AppTerminated, AppSeesClose, AppEnds, Alive
  <2>4. CASE UNCHANGED proc
    BY <2>4
  <2> QED
    BY <2>1, <2>2, <2>3, <2>4
<1>6. ChildHasRecord'
  BY <1>1, <1>5 DEF AddressInv, ChildHasRecord
<1>7. CollectedIsFreed'
  BY <1>1, <1>5 DEF AddressInv, CollectedIsFreed, LiveChild
<1>8. ASSUME pc \notin Down, NEW t \in listed, NEW q \in Pids, dls[t].pid = q, ~Collecting(t)
      PROVE  proc'[q].eid = dls[t].eid /\ Underway(q)'
  <2>1. proc[q].eid = dls[t].eid /\ Underway(q)
    BY <1>8 DEF AddressInv, PidInUse
  <2>2. ASSUME p # q
        PROVE  proc'[q] = proc[q] /\ conn'[q] = conn[q] /\ toSched'[q] = toSched[q]
    BY <2>2 DEF AppStep, AppInit, AppConnect, AppSendLaunched, AppSend, AppReceive,
                AppRequeue, AppDies, AppTerminated, AppSeesClose, AppEnds, SelfStart,
                sockVars, TypeOK
  <2>3. CASE p # q
    BY <2>1, <2>2, <2>3 DEF Underway
  <2>4. CASE p = q
    <3> SUFFICES proc'[p].eid = proc[p].eid /\ Underway(p)'
      BY <2>1, <2>4
    <3>0. proc \in [Pids -> Processes] /\ proc[p] \in Processes
      BY DEF TypeOK
    <3>1. CASE AppConnect(p)
      <4>1. /\ proc' = [proc EXCEPT ![p].st = "linking"]
            /\ conn' = [conn EXCEPT ![p] = "pending"]
        BY <1>8, <3>1 DEF AppConnect
      <4> QED
        BY <3>0, <4>1 DEF TypeOK, Underway, Processes
    <3>2. CASE AppSendLaunched(p)
      <4>1. /\ proc' = [proc EXCEPT ![p].st = "up"] /\ UNCHANGED conn /\ conn[p] # "none"
            /\ \E m : toSched' = [toSched EXCEPT ![p] = Append(@, m)]
        BY <3>2 DEF AppSendLaunched
      <4>2. proc'[p].eid = proc[p].eid
        BY <3>0, <4>1 DEF Processes
      <4>3. toSched'[p] # << >>
        BY <4>1, AppendNotEmpty DEF TypeOK
      <4>4. conn[p] \in {"pending", "open"}
        BY <4>1 DEF TypeOK
      <4> QED
        BY <4>1, <4>2, <4>3, <4>4 DEF Underway
    <3>3. CASE AppSend(p) \/ AppRequeue(p)
      <4>1. /\ UNCHANGED <<proc, conn>> /\ proc[p].st = "up"
            /\ \E m : toSched' = [toSched EXCEPT ![p] = Append(@, m)]
        BY <3>3 DEF AppSend, AppRequeue
      <4>2. toSched'[p] # << >>
        <5>1. PICK m : toSched' = [toSched EXCEPT ![p] = Append(@, m)]
          BY <4>1
        <5>2. toSched'[p] = Append(toSched[p], m) /\ toSched[p] \in Seq(Msgs)
          BY <5>1 DEF TypeOK
        <5> QED
          BY <5>2, AppendNotEmpty
      <4> QED
        BY <2>1, <2>4, <4>1, <4>2 DEF Underway
    <3>4. CASE AppReceive(p)
      BY <2>1, <2>4, <3>4 DEF AppReceive, Underway
    <3>5. ASSUME NEW how \in Dead, AppEnds(p, how), proc[p].st = "up"
          PROVE  proc'[p].eid = proc[p].eid /\ Underway(p)'
      <4>1. /\ proc' = [proc EXCEPT ![p].st = how] /\ UNCHANGED <<conn, toSched>>
        BY <3>5 DEF AppEnds
      <4>2. proc'[p].eid = proc[p].eid
        BY <3>0, <4>1 DEF Processes
      <4> QED
        BY <2>1, <2>4, <3>5, <4>1, <4>2 DEF Underway
    <3>6. CASE AppDies(p)
      BY <3>5, <3>6, SchedAssumption DEF AppDies, Dead
    <3>7. CASE AppTerminated(p)
      <4>1. pc = "collect" /\ dls[job.target].pid = p /\ job.target \in listed
        BY <3>7 DEF AppTerminated, HandlerOK
      <4>2. t = job.target
        BY <1>8, <2>4, <4>1 DEF AddressInv, PidsDistinct
      <4> QED
        BY <1>8, <4>1, <4>2 DEF Collecting
    <3>8. CASE AppSeesClose(p)
      BY <2>1, <2>4, <3>8 DEF AppSeesClose, Underway
    <3>9. CASE SelfStart(p)
      BY <2>1, <2>4, <3>9 DEF SelfStart, FreePids, Underway, Dead
    <3> QED
      BY <3>1, <3>2, <3>3, <3>4, <3>6, <3>7, <3>8, <3>9 DEF AppStep, AppInit
  <2> QED
    BY <2>3, <2>4
<1>9. PidInUse'
  BY <1>1, <1>8 DEF PidInUse, Underway, Collecting
<1> QED
  BY <1>2, <1>4, <1>6, <1>7, <1>9 DEF AddressInv

-----------------------------------------------------------------------------
LEMMA AddressStep ==
  ASSUME ConnectionInv, RecordInv, AddressInv, ~EarlyFailures, ~StuckProcesses, Next
  PROVE  AddressInv'
<1>1. SingleRecord /\ RegistrationsOK /\ LocalsOK
  BY DEF RecordInv
<1>2. CASE SchedStep
  BY <1>1, <1>2, BootAddress, ReceiveAddress, HandlerAddress, AcceptAddress DEF SchedStep
<1>3. CASE Sigterm
  BY <1>3, CleanSchedAddress DEF Sigterm
<1>4. CASE \E s \in Slots : ServerFdReadable(s)
  BY <1>4, ServerFdAddress
<1>5. CASE \E p \in Pids : AppStep(p)
  BY <1>5, AppAddress
<1> QED
  BY <1>2, <1>3, <1>4, <1>5 DEF Next

LEMMA AddressStutter ==
  ASSUME AddressInv, UNCHANGED vars
  PROVE  AddressInv'
<1>1. UNCHANGED <<pc, job, listed, dls, proc, conn, toSched>>
  BY DEF vars, listVars, sockVars
<1> QED
  BY <1>1 DEF AddressInv, SpecificIsPid, PidsDistinct, InstanceHasItsFd, PidInUse,
              Collecting, Underway, ChildHasRecord, CollectedIsFreed, LiveChild, StoppedIsClosed

LEMMA InitAddress == Init => AddressInv
<1> SUFFICES ASSUME Init PROVE AddressInv
  OBVIOUS
<1>1. pc = "launch1" /\ \A p \in Pids : ~proc[p].child
  BY DEF Init
<1>2. PICK f \in Placement(WithFlag("STAGE_1"), Slots) :
        /\ listed = { f[e] : e \in WithFlag("STAGE_1") }
        /\ dls = Placed([s \in Slots |-> Blank], WithFlag("STAGE_1"), f)
  BY DEF Init
<1>3. \A s \in listed : s \in Slots
  BY <1>2 DEF Placement
<1>4. \A s \in listed : \E a : dls[s] = NewDlsInfo(a)
  BY <1>2, <1>3 DEF Placed
<1>5. \A s \in listed : Idle(dls[s])
  BY <1>4, NewIsIdle
<1> QED
  BY <1>1, <1>5, InvalidIsNoPid
     DEF AddressInv, SpecificIsPid, PidsDistinct, InstanceHasItsFd, PidInUse, ChildHasRecord,
         CollectedIsFreed, StoppedIsClosed, Idle

LEMMA AddressableFromInv ==
  ASSUME TypeOK, AddressInv
  PROVE  InstanceIsAddressable
<1> SUFFICES ASSUME NEW p \in Pids, conn[p] = "open", proc[p].child, Multi(proc[p].eid)
             PROVE  \E s \in Slots :
                      /\ GetExistingDlsInfo(MakeSpecificEid(p, proc[p].eid)) = {s}
                      /\ dls[s].commFd = p /\ dls[s].pid = p
  BY DEF InstanceIsAddressable
<1>1. pc # "stopped"
  BY DEF AddressInv, StoppedIsClosed
<1>2. PICK s \in listed : dls[s].pid = p /\ dls[s].eid = proc[p].eid
  BY <1>1 DEF AddressInv, ChildHasRecord
<1>3. dls[s].commFd = p
  BY <1>2 DEF AddressInv, InstanceHasItsFd
<1>4. KeyOf(dls[s]) = <<p, proc[p].eid>>
  BY <1>2, InvalidIsNoPid DEF AddressInv, SpecificIsPid, KeyOf, MakeSpecificEid
<1>5. ASSUME NEW t \in listed, KeyOf(dls[t]) = <<p, proc[p].eid>>
      PROVE  t = s
  <2>1. Multi(dls[t].eid) /\ dls[t].specificEid = <<p, proc[p].eid>>
    BY <1>5, InvalidIsNoPid DEF KeyOf, Generic
  <2>2. dls[t].pid = p
    <3>1. <<p, proc[p].eid>> = IF dls[t].pid = InvalidPid THEN <<InvalidPid, UnknownId>>
                               ELSE <<dls[t].pid, dls[t].eid>>
      BY <2>1 DEF AddressInv, SpecificIsPid, NoEid, Generic, MakeSpecificEid
    <3> QED
      BY <3>1, InvalidIsNoPid
  <2> QED
    BY <1>2, <2>2 DEF AddressInv, PidsDistinct
<1> QED
  BY <1>2, <1>3, <1>4, <1>5 DEF GetExistingDlsInfo, MakeSpecificEid, TypeOK

LEMMA WatchedFromInv ==
  ASSUME ConnectionInv, RecordInv, EarlyFailures \/ StuckProcesses \/ AddressInv
  PROVE  ServerIsWatched
<1> SUFFICES ASSUME NEW s \in listed, Serves(dls[s].eid)
             PROVE  /\ dls[s].state = "NOT_RUNNING" => dls[s].monitored
                    /\ dls[s].state = "LAUNCHED" =>
                         /\ ~dls[s].monitored
                         /\ \/ EarlyFailures \/ StuckProcesses \/ dls[s].pid = ForkError
                            \/ Collecting(s) \/ pc \in Down
                            \/ ~LaunchFailed(s)
  BY DEF ServerIsWatched
<1>1. s \in Slots /\ dls[s] \in DlsInfo /\ Sane(dls[s])
  BY DEF ConnectionInv, TypeOK, RecordInv, RecordsSane
<1>2. ASSUME dls[s].state = "LAUNCHED", ~EarlyFailures, ~StuckProcesses,
             dls[s].pid # ForkError, ~Collecting(s), pc \notin Down
      PROVE  ~LaunchFailed(s)
  <2>1. dls[s].pid \in Pids
    BY <1>1, <1>2 DEF Sane, DlsInfo, PidValue
  <2>2. Underway(dls[s].pid)
    BY <1>2, <2>1 DEF AddressInv, PidInUse
  <2> QED
    BY <2>1, <2>2 DEF LaunchFailed
<1> QED
  BY <1>1, <1>2 DEF Sane, Watched

(* What the theorems of this module follow from.                           *)
LEMMA AddressInvariant ==
  Spec => [](/\ ConnectionInv /\ RecordInv
             /\ EarlyFailures \/ StuckProcesses \/ AddressInv)
<1> DEFINE Inv == /\ ConnectionInv /\ RecordInv
                  /\ EarlyFailures \/ StuckProcesses \/ AddressInv
<1>1. Init => Inv
  BY InitConn, InitRecords, InitAddress
<1>2. Inv /\ [Next]_vars => Inv'
  BY ConnectionStep, ConnectionStutter, RecordStep, RecordStutter, AddressStep,
     AddressStutter
<1> QED
  BY <1>1, <1>2, PTL DEF Spec

(* An instance of a multiple-instance application that sched has launched  *)
(* can be addressed as soon as its connection is accepted: exactly one     *)
(* record answers to its eid in getExistingDlsInfo, with its pid and its   *)
(* connection.  Both conditions are needed.  A process that survives       *)
(* SIGKILL outlives its record and connects to one without pid.  When      *)
(* launches fail, the waitpid(-1) that collects the record of a failed     *)
(* fork() can take an instance that died before it connected, whose record *)
(* stays; the next instance may get that pid, and two records answer.      *)
THEOREM InstancesAddressable ==
  Spec => [](~EarlyFailures /\ ~StuckProcesses => InstanceIsAddressable)
<1>1. ConnectionInv /\ RecordInv /\ (EarlyFailures \/ StuckProcesses \/ AddressInv)
        => (~EarlyFailures /\ ~StuckProcesses => InstanceIsAddressable)
  BY AddressableFromInv DEF ConnectionInv
<1> QED
  BY <1>1, AddressInvariant, PTL

(* The server fd of a NOT_RUNNING application is watched; that of a        *)
(* LAUNCHED one is not, and where launches do not fail and no process      *)
(* survives SIGKILL its process is on its way to sched, connected or       *)
(* connecting, unless fork() found no pid: no server stays unwatched       *)
(* without somebody to answer its clients.                                 *)
THEOREM ServersWatched == Spec => []ServerIsWatched
<1>1. ConnectionInv /\ RecordInv /\ (EarlyFailures \/ StuckProcesses \/ AddressInv)
        => ServerIsWatched
  BY WatchedFromInv
<1> QED
  BY <1>1, AddressInvariant, PTL
=============================================================================
