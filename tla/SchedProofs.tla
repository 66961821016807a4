---------------------------- MODULE SchedProofs ----------------------------
(***************************************************************************)
(* What holds of the sched process for every entity table, every set of    *)
(* requests and any number of processes and records.                       *)
(***************************************************************************)
EXTENDS SchedProps, SequenceTheorems, TLAPS

-----------------------------------------------------------------------------
(* The types of what the operations on DlsInfo records and messages build. *)

(* Blank, the content of a free slot, is a record of the table.            *)
LEMMA AnyEntityType == AnyEntity \in Entities
BY DlsAssumption DEF AnyEntity

(* insertDlsInfoEntry builds a record, for any eid the table has.          *)
LEMMA NewDlsInfoType ==
  ASSUME NEW a \in Addr, a[2] \in Entities
  PROVE  NewDlsInfo(a) \in DlsInfo
BY DEF NewDlsInfo, DlsInfo, States, InvalidPid, ForkError, PidValue, PidInEid,
       NoEid, Generic, Addr, InvalidFd

LEMMA BlankType == Blank \in DlsInfo
BY AnyEntityType, NewDlsInfoType, Generic(AnyEntity) \in Addr,
   Generic(AnyEntity)[2] = AnyEntity
   DEF Blank, Generic, Addr, PidValue

(* launchApp, queuemsg and collectApp keep a record a record.              *)
LEMMA LaunchedType ==
  ASSUME NEW d \in DlsInfo, NEW p \in PidValue
  PROVE  Launched(d, p) \in DlsInfo
BY DEF Launched, DlsInfo, States, MakeSpecificEid, Addr

LEMMA QueueMsgType ==
  ASSUME NEW d \in DlsInfo, NEW m \in Msgs
  PROVE  QueueMsg(d, m) \in DlsInfo
<1>1. <<m>> \o d.msgQueue \in Seq(Msgs)
  BY DEF DlsInfo
<1> QED
  BY <1>1 DEF QueueMsg, DlsInfo

LEMMA ClosedType ==
  ASSUME NEW d \in DlsInfo
  PROVE  Closed(d) \in DlsInfo
<1>1. << >> \in Seq(Msgs)
  BY EmptySeq
<1> QED
  BY <1>1 DEF Closed, DlsInfo

LEMMA ClearedType ==
  ASSUME NEW d \in DlsInfo
  PROVE  Cleared(d) \in DlsInfo
BY DEF Cleared, DlsInfo, States, PidValue, NoEid, Generic, Addr

LEMMA KeyOfType ==
  ASSUME NEW d \in DlsInfo
  PROVE  KeyOf(d) \in Addr
BY DEF KeyOf, DlsInfo, Generic, Addr, PidValue

LEMMA SchedAddrType == SchedAddr \in Addr
BY DEF SchedAddr, Generic, Addr, PidValue

LEMMA EmptyMsgHeaderType == EmptyMsgHeader \in Msgs
<1>1. "APP_LAUNCHED" \in MsgTypes
  BY DEF MsgTypes, SchedMsgTypes
<1>2. "NONE" \in Rets
  BY DEF Rets
<1> QED
  BY <1>1, <1>2, SchedAddrType DEF EmptyMsgHeader, Msgs

(* processMsgSimpleFooter turns a message into a message.                  *)
LEMMA SimpleReplyType ==
  ASSUME NEW m \in Msgs, NEW rv \in Rets
  PROVE  SimpleReply(m, rv) \in Msgs
<1>1. m.flags \cup {"response"} \in SUBSET MsgFlags
  BY DEF Msgs, MsgFlags
<1> QED
  BY <1>1 DEF SimpleReply, Msgs

-----------------------------------------------------------------------------
(* The types of what the parts of the actions assign.                      *)

LEMMA SendType ==
  ASSUME TypeOK, NEW fd, NEW m \in Msgs, NEW next \in PcValues,
         Send(fd, m, next)
  PROVE  pc' \in PcValues /\ toApp' \in [Pids -> Seq(Msgs)]
BY DEF TypeOK, Send, PcValues, Down

LEMMA CloseFdType ==
  ASSUME TypeOK, NEW fd, CloseFd(fd)
  PROVE  /\ conn' \in [Pids -> {"none", "pending", "open"}]
         /\ toSched' \in [Pids -> Seq(Msgs)]
         /\ toApp' \in [Pids -> Seq(Msgs)]
<1>1. << >> \in Seq(Msgs)
  BY EmptySeq
<1> QED
  BY <1>1 DEF TypeOK, CloseFd

LEMMA LaunchAppType ==
  ASSUME TypeOK, NEW s \in Slots, NEW d \in DlsInfo, LaunchApp(s, d)
  PROVE  /\ dls' \in [Slots -> DlsInfo]
         /\ proc' \in [Pids -> Processes]
<1>1. d.eid \in Entities
  BY DEF DlsInfo
<1>2. \A p \in SpawnResults : p \in PidValue
  BY DEF SpawnResults, FreePids, PidValue
<1>3. NewProcess(d.eid, TRUE) \in Processes
  BY <1>1 DEF NewProcess, Processes, Alive
<1>4. CASE "EXE" \in Flags[d.eid]
  <2>1. PICK p \in SpawnResults :
          /\ dls' = [dls EXCEPT ![s] = Launched(d, p)]
          /\ proc' = IF p \in Pids
                       THEN [proc EXCEPT ![p] = NewProcess(d.eid, TRUE)]
                       ELSE proc
    BY <1>4 DEF LaunchApp
  <2>2. Launched(d, p) \in DlsInfo
    BY <1>2, LaunchedType
  <2> QED
    BY <1>3, <2>1, <2>2 DEF TypeOK
<1>5. CASE "EXE" \notin Flags[d.eid]
  BY <1>5 DEF LaunchApp, TypeOK
<1> QED
  BY <1>4, <1>5

LEMMA SendMessageByAppStateType ==
  ASSUME TypeOK, NEW s \in Slots, NEW d \in DlsInfo, NEW m \in Msgs,
         NEW next \in PcValues, SendMessageByAppState(s, d, m, next)
  PROVE  /\ dls' \in [Slots -> DlsInfo]
         /\ proc' \in [Pids -> Processes]
         /\ pc' \in PcValues
         /\ toApp' \in [Pids -> Seq(Msgs)]
<1>1. QueueMsg(d, m) \in DlsInfo
  BY QueueMsgType
<1>2. CASE d.state = "NOT_RUNNING" /\ LaunchApp(s, QueueMsg(d, m))
           /\ pc' = next /\ UNCHANGED toApp
  BY <1>1, <1>2, LaunchAppType DEF TypeOK
<1>3. CASE dls' = [dls EXCEPT ![s] = QueueMsg(d, m)]
           /\ pc' = next /\ UNCHANGED <<proc, toApp>>
  BY <1>1, <1>3 DEF TypeOK
<1>4. CASE dls' = [dls EXCEPT ![s] = d]
           /\ Send(d.commFd, m, next) /\ UNCHANGED proc
  BY <1>4, SendType DEF TypeOK
<1> QED
  BY <1>2, <1>3, <1>4 DEF SendMessageByAppState

(* getDlsInfo returns a slot with a record, for any address.               *)
LEMMA GetDlsInfoType ==
  ASSUME TypeOK, NEW a \in Addr, NEW s \in GetDlsInfo(a)
  PROVE  s \in Slots /\ DlsInfoAt(s, a) \in DlsInfo
<1>1. CASE s \in listed
  BY <1>1 DEF TypeOK, DlsInfoAt
<1>2. CASE s \notin listed
  <2>1. s \in GetNewDlsInfo(a)
    BY <1>2 DEF GetDlsInfo, GetExistingDlsInfo
  <2>2. a[2] \in Entities /\ s \in Slots
    BY <2>1 DEF GetNewDlsInfo, CanInsert
  <2> QED
    BY <1>2, <2>2, NewDlsInfoType DEF DlsInfoAt
<1> QED
  BY <1>1, <1>2

LEMMA GetNewDlsInfoType ==
  ASSUME TypeOK, NEW a \in Addr, NEW s \in GetNewDlsInfo(a)
  PROVE  s \in Slots /\ DlsInfoAt(s, a) \in DlsInfo
<1>1. a[2] \in Entities /\ s \in Slots /\ s \notin listed
  BY DEF GetNewDlsInfo, CanInsert
<1> QED
  BY <1>1, NewDlsInfoType DEF DlsInfoAt

(* interest_register, _unregister and _unregisterAll leave registrations.  *)
LEMMA InterestTypes ==
  ASSUME NEW ints \in SUBSET Registrations, NEW t \in MsgTypes,
         NEW a \in Addr, NEW md \in Data \cup {NoData}
  PROVE  /\ \A o \in InterestRegister(ints, t, a, md) :
              o.ints \in SUBSET Registrations
         /\ \A o \in InterestUnregister(ints, t, a) :
              o.ints \in SUBSET Registrations
         /\ \A o \in InterestUnregisterAll(ints, a) :
              o.ints \in SUBSET Registrations
<1>1. ints \cup {[type |-> t, eid |-> a, matchData |-> md]} \in SUBSET Registrations
  BY DEF Registrations
<1>2. \A o \in InterestRegister(ints, t, a, md) :
        o.ints \in {ints, ints \cup {[type |-> t, eid |-> a, matchData |-> md]}}
  BY DEF InterestRegister, Miss, Outcome
<1>3. \A o \in InterestUnregister(ints, t, a) :
        o.ints \in {ints, ints \ FindInfo(ints, t, a)}
  BY DEF InterestUnregister, Miss, Outcome
<1>4. \A o \in InterestUnregisterAll(ints, a) :
        o.ints \in {ints, { i \in ints : i.eid # a }}
  BY DEF InterestUnregisterAll, Miss, Outcome
<1> QED
  BY <1>1, <1>2, <1>3, <1>4

-----------------------------------------------------------------------------
(* Every step keeps the types.                                             *)

LEMMA NoJobType == NoJob \in Jobs
BY EmptyMsgHeaderType DEF NoJob, Jobs, Rets

LEMMA IncomingType ==
  ASSUME TypeOK, NEW s \in Slots, Readable(s)
  PROVE  /\ dls[s].commFd \in Pids
         /\ Incoming(s) \in Msgs
         /\ Consume(s) => toSched' \in [Pids -> Seq(Msgs)]
<1>1. dls[s].commFd \in Pids
  BY DEF TypeOK, Readable, DlsInfo
<1>2. toSched[dls[s].commFd] \in Seq(Msgs) /\ toSched[dls[s].commFd] # << >>
  BY <1>1 DEF TypeOK, Readable
<1>3. /\ Head(toSched[dls[s].commFd]) \in Msgs
      /\ Tail(toSched[dls[s].commFd]) \in Seq(Msgs)
  BY <1>2, HeadTailProperties
<1> QED
  BY <1>1, <1>3 DEF TypeOK, Incoming, Consume

LEMMA CleanSchedType ==
  ASSUME TypeOK, CleanSched
  PROVE  TypeOK'
<1>1. << >> \in Seq(Msgs) /\ << >> \in Seq(Pids)
  BY EmptySeq
<1> QED
  BY <1>1, NoJobType, BlankType DEF TypeOK, CleanSched, PcValues, Down

LEMMA PlacedType ==
  ASSUME TypeOK, NEW es \in SUBSET Entities, NEW free \in SUBSET Slots,
         NEW f \in Placement(es, free)
  PROVE  /\ { f[e] : e \in es } \subseteq Slots
         /\ Placed(dls, es, f) \in [Slots -> DlsInfo]
<1>1. f \in [es -> free]
  BY DEF Placement
<1>2. \A e \in Entities : NewDlsInfo(Generic(e)) \in DlsInfo
  BY NewDlsInfoType DEF Generic, Addr, PidValue
<1>3. \A s \in Slots : (\E e \in es : f[e] = s) =>
                        (CHOOSE e \in es : f[e] = s) \in Entities
  OBVIOUS
<1> QED
  BY <1>1, <1>2, <1>3 DEF Placed, TypeOK

LEMMA BootType ==
  ASSUME TypeOK, SchedBoot
  PROVE  TypeOK'
<1>1. ASSUME NEW s \in Slots, AppLauncher(s)
      PROVE  TypeOK'
  <2>1. s \in Slots /\ dls[s] \in DlsInfo /\ pc \in PcValues
    BY <1>1 DEF TypeOK, AppLauncher
  <2>2. BootMsg(dls[s].eid) \in Msgs
    <3>1. Generic(dls[s].eid) \in Addr
      BY <2>1 DEF DlsInfo, Generic, Addr, PidValue
    <3>2. "SYSTEM_BOOT" \in MsgTypes /\ {"event"} \in SUBSET MsgFlags
      BY DEF MsgTypes, SchedMsgTypes, MsgFlags
    <3> QED
      BY <3>1, <3>2, EmptyMsgHeaderType DEF BootMsg, Msgs
  <2>3. /\ dls' \in [Slots -> DlsInfo]
        /\ proc' \in [Pids -> Processes]
        /\ pc' \in PcValues
        /\ toApp' \in [Pids -> Seq(Msgs)]
    <3>1. CASE SendMessageByAppState(s, dls[s], BootMsg(dls[s].eid), pc)
      BY <2>1, <2>2, <3>1, SendMessageByAppStateType
    <3>2. CASE LaunchApp(s, dls[s]) /\ UNCHANGED <<pc, toApp>>
      BY <2>1, <3>2, LaunchAppType DEF TypeOK
    <3>3. CASE UNCHANGED <<pc, dls, proc, toApp>>
      BY <3>3 DEF TypeOK
    <3> QED
      BY <1>1, <3>1, <3>2, <3>3 DEF AppLauncher
  <2>4. job' \in Jobs
    BY <1>1 DEF AppLauncher, TypeOK, Jobs
  <2> QED
    BY <1>1, <2>3, <2>4 DEF AppLauncher, TypeOK
<1>2. ASSUME InitDls2
      PROVE  TypeOK'
  <2>1. PICK f \in Placement(Stage2, Slots \ listed) :
          /\ listed' = listed \cup { f[e] : e \in Stage2 }
          /\ dls' = Placed(dls, Stage2, f)
    BY <1>2 DEF InitDls2
  <2>2. Stage2 \in SUBSET Entities
    BY DEF Stage2
  <2>3. listed' \subseteq Slots /\ dls' \in [Slots -> DlsInfo]
    <3>1. Slots \ listed \in SUBSET Slots
      OBVIOUS
    <3>2. /\ { f[e] : e \in Stage2 } \subseteq Slots
          /\ Placed(dls, Stage2, f) \in [Slots -> DlsInfo]
      BY <2>2, <3>1, PlacedType
    <3> QED
      BY <2>1, <3>2 DEF TypeOK
  <2>4. job' \in Jobs
    BY <1>2, <2>3 DEF InitDls2, TypeOK, Jobs, SlotsWithFlag
  <2> QED
    BY <1>2, <2>3, <2>4 DEF InitDls2, TypeOK, PcValues, sockVars
<1>3. ASSUME InitDls2Fails
      PROVE  TypeOK'
  BY <1>3, CleanSchedType DEF InitDls2Fails
<1>4. ASSUME BootDone
      PROVE  TypeOK'
  BY <1>4 DEF BootDone, TypeOK, PcValues, listVars, sockVars
<1> QED
  BY <1>1, <1>2, <1>3, <1>4 DEF SchedBoot

LEMMA SelectType ==
  ASSUME TypeOK, NEW s \in Slots, SchedReceive(s)
  PROVE  TypeOK'
<1>1. ASSUME RecvRequeue(s)
      PROVE  TypeOK'
  <2>1. [Incoming(s) EXCEPT !.flags = @ \ {"requeue"}] \in Msgs
    BY <1>1, IncomingType DEF RecvRequeue, Msgs
  <2>2. pc' \in PcValues /\ toApp' \in [Pids -> Seq(Msgs)]
    BY <1>1, <2>1, SendType, "select" \in PcValues DEF RecvRequeue, PcValues
  <2> QED
    BY <1>1, <2>2, IncomingType DEF RecvRequeue, TypeOK, listVars
<1>2. ASSUME RecvEvent(s)
      PROVE  TypeOK'
  <2>1. FindByType(interests, Incoming(s).type) \in SUBSET Registrations
    BY DEF FindByType, TypeOK
  <2>2. job' \in Jobs
    <3>1. [NoJob EXCEPT !.caller = s, !.msg = Incoming(s),
                        !.todo = FindByType(interests, Incoming(s).type)] \in Jobs
      BY <1>2, <2>1, IncomingType, NoJobType DEF RecvEvent, Jobs
    <3> QED
      BY <1>2, <3>1 DEF RecvEvent, TypeOK
  <2>3. pc' \in PcValues
    BY <1>2 DEF RecvEvent, TypeOK, PcValues, Down
  <2> QED
    BY <1>2, <2>2, <2>3, IncomingType DEF RecvEvent, TypeOK, listVars
<1>3. ASSUME RecvRegister(s)
      PROVE  TypeOK'
  <2>1. Incoming(s) \in Msgs
    BY <1>3, IncomingType DEF RecvRegister
  <2>2. PICK o \in RegisterOutcomes(Incoming(s)) :
         \/ /\ o.res = "segv"
            /\ pc' = "segv"
            /\ UNCHANGED <<interests, dls, toApp>>
         \/ /\ o.res # "segv"
            /\ interests' = o.ints
            /\ dls' = [dls EXCEPT ![s].numEventInterestRequested =
                                     @ + Delta(Incoming(s), o.res)]
            /\ Send(dls[s].commFd, SimpleReply(Incoming(s), "SUCCESS"), "select")
    BY <1>3 DEF RecvRegister
  <2>3. o.ints \in SUBSET Registrations
    BY <2>1, InterestTypes DEF RegisterOutcomes, Msgs, TypeOK
  <2>4. interests' \subseteq Registrations
    BY <2>2, <2>3 DEF TypeOK
  <2>5. dls' \in [Slots -> DlsInfo]
    <3>1. Delta(Incoming(s), o.res) \in Int
      BY DEF Delta
    <3>2. [dls EXCEPT ![s].numEventInterestRequested =
             @ + Delta(Incoming(s), o.res)] \in [Slots -> DlsInfo]
      <4>1. dls[s] \in DlsInfo
        BY DEF TypeOK
      <4>2. [dls[s] EXCEPT !.numEventInterestRequested =
               @ + Delta(Incoming(s), o.res)] \in DlsInfo
        BY <3>1, <4>1 DEF DlsInfo
      <4> QED
        BY <4>2 DEF TypeOK
    <3> QED
      BY <2>2, <3>2 DEF TypeOK
  <2>6. pc' \in PcValues /\ toApp' \in [Pids -> Seq(Msgs)]
    <3>1. SimpleReply(Incoming(s), "SUCCESS") \in Msgs
      BY <2>1, SimpleReplyType DEF Rets
    <3> QED
      BY <2>2, <3>1, SendType DEF TypeOK, PcValues, Down
  <2> QED
    BY <1>3, <2>4, <2>5, <2>6, IncomingType DEF RecvRegister, TypeOK
<1>4. ASSUME RecvIsAppRunning(s)
      PROVE  TypeOK'
  <2>1. \A rv \in Rets : SimpleReply(Incoming(s), rv) \in Msgs
    BY <1>4, IncomingType, SimpleReplyType DEF RecvIsAppRunning
  <2>2. PICK rv \in Rets : Send(dls[s].commFd, SimpleReply(Incoming(s), rv), "select")
    BY <1>4 DEF RecvIsAppRunning, Rets
  <2>3. pc' \in PcValues /\ toApp' \in [Pids -> Seq(Msgs)]
    BY <2>1, <2>2, SendType DEF PcValues
  <2> QED
    BY <1>4, <2>3, IncomingType DEF RecvIsAppRunning, TypeOK, listVars
<1>5. ASSUME RecvAppControl(s)
      PROVE  TypeOK'
  <2>1. job' \in Jobs
    BY <1>5, IncomingType, NoJobType DEF RecvAppControl, Jobs
  <2>2. pc' \in PcValues
    BY <1>5 DEF RecvAppControl, PcValues
  <2> QED
    BY <1>5, <2>1, <2>2, IncomingType DEF RecvAppControl, TypeOK, listVars
<1>6. ASSUME RecvOther(s)
      PROVE  TypeOK'
  BY <1>6, IncomingType DEF RecvOther, TypeOK, listVars
<1>7. ASSUME RouteMessage(s)
      PROVE  TypeOK'
  <2>1. Incoming(s) \in Msgs /\ Incoming(s).dst \in Addr
    BY <1>7, IncomingType DEF RouteMessage, Msgs
  <2>2. "select" \in PcValues /\ "segv" \in PcValues
    BY DEF PcValues, Down
  <2>3. /\ listed' \subseteq Slots
        /\ dls' \in [Slots -> DlsInfo]
        /\ proc' \in [Pids -> Processes]
        /\ pc' \in PcValues
        /\ toApp' \in [Pids -> Seq(Msgs)]
    <3>1. CASE Bounce(Incoming(s))
      <4>1. SimpleReply(Incoming(s), "BOUNCED") \in Msgs
        BY <2>1, SimpleReplyType DEF Rets
      <4> QED
        BY <2>2, <3>1, <4>1, SendType DEF Bounce, TypeOK
    <3>2. CASE Forward(Incoming(s))
      <4>1. CASE UNCHANGED <<pc, listed, dls, proc, toApp>>
        BY <4>1 DEF TypeOK
      <4>2. ASSUME NEW t \in GetDlsInfo(Incoming(s).dst),
                   listed' = listed \cup {t},
                   SendMessageByAppState(t, DlsInfoAt(t, Incoming(s).dst),
                                         Incoming(s), "select")
            PROVE  /\ listed' \subseteq Slots
                   /\ dls' \in [Slots -> DlsInfo]
                   /\ proc' \in [Pids -> Processes]
                   /\ pc' \in PcValues
                   /\ toApp' \in [Pids -> Seq(Msgs)]
        BY <2>1, <2>2, <4>2, GetDlsInfoType, SendMessageByAppStateType DEF TypeOK
      <4> QED
        BY <3>2, <4>1, <4>2 DEF Forward
    <3> QED
      BY <1>7, <3>1, <3>2 DEF RouteMessage
  <2> QED
    BY <1>7, <2>3, IncomingType DEF RouteMessage, TypeOK
<1>8. ASSUME Disconnected(s)
      PROVE  TypeOK'
  <2>1. dls' \in [Slots -> DlsInfo]
    BY <1>8, ClosedType DEF Disconnected, TypeOK
  <2>2. job' \in Jobs
    BY <1>8, NoJobType DEF Disconnected, Jobs
  <2> QED
    BY <1>8, <2>1, <2>2, CloseFdType DEF Disconnected, TypeOK, PcValues
<1> QED
  BY <1>1, <1>2, <1>3, <1>4, <1>5, <1>6, <1>7, <1>8 DEF SchedReceive

LEMMA HandlerType ==
  ASSUME TypeOK, HandlerOK, SchedHandler
  PROVE  TypeOK'
<1>0. "select" \in PcValues /\ "start" \in PcValues /\ "reply" \in PcValues
  BY DEF PcValues
<1>1. ASSUME NEW i \in job.todo, Distribute(i)
      PROVE  TypeOK'
  <2>1. i.eid \in Addr /\ job.msg \in Msgs /\ pc \in PcValues
    BY <1>1 DEF TypeOK, Jobs, Registrations
  <2>2. job' \in Jobs
    BY <1>1 DEF Distribute, TypeOK, Jobs
  <2>3. /\ listed' \subseteq Slots
        /\ dls' \in [Slots -> DlsInfo]
        /\ proc' \in [Pids -> Processes]
        /\ pc' \in PcValues
        /\ toApp' \in [Pids -> Seq(Msgs)]
    <3>1. CASE UNCHANGED <<pc, listed, dls, proc, toApp>>
      BY <3>1 DEF TypeOK
    <3>2. ASSUME NEW s \in GetDlsInfo(i.eid), listed' = listed \cup {s},
                 dls' = [dls EXCEPT ![s] = DlsInfoAt(s, i.eid)],
                 UNCHANGED <<pc, proc, toApp>>
          PROVE  /\ listed' \subseteq Slots
                 /\ dls' \in [Slots -> DlsInfo]
                 /\ proc' \in [Pids -> Processes]
                 /\ pc' \in PcValues
                 /\ toApp' \in [Pids -> Seq(Msgs)]
      BY <2>1, <3>2, GetDlsInfoType DEF TypeOK
    <3>3. ASSUME NEW s \in GetDlsInfo(i.eid), listed' = listed \cup {s},
                 SendMessageByAppState(s, DlsInfoAt(s, i.eid),
                   [job.msg EXCEPT !.dst = KeyOf(DlsInfoAt(s, i.eid))], pc)
          PROVE  /\ listed' \subseteq Slots
                 /\ dls' \in [Slots -> DlsInfo]
                 /\ proc' \in [Pids -> Processes]
                 /\ pc' \in PcValues
                 /\ toApp' \in [Pids -> Seq(Msgs)]
      <4>1. s \in Slots /\ DlsInfoAt(s, i.eid) \in DlsInfo
        BY <2>1, GetDlsInfoType
      <4>2. [job.msg EXCEPT !.dst = KeyOf(DlsInfoAt(s, i.eid))] \in Msgs
        BY <2>1, <4>1, KeyOfType DEF Msgs
      <4> QED
        BY <2>1, <3>3, <4>1, <4>2, SendMessageByAppStateType DEF TypeOK
    <3> QED
      BY <1>1, <3>1, <3>2, <3>3 DEF Distribute
  <2> QED
    BY <1>1, <2>2, <2>3 DEF Distribute, TypeOK
<1>2. ASSUME DistributeDone
      PROVE  TypeOK'
  BY <1>0, <1>2, NoJobType DEF DistributeDone, TypeOK, listVars, sockVars
<1>3. Return \in PcValues
  BY <1>0 DEF Return
<1>4. ASSUME StopApp
      PROVE  TypeOK'
  <2>1. CASE pc' = Return /\ job' = [job EXCEPT !.ret = "SUCCESS"]
             /\ UNCHANGED <<dls, conn, toSched, toApp>>
    BY <1>3, <1>4, <2>1 DEF StopApp, TypeOK, Jobs, Rets
  <2>2. ASSUME NEW s \in GetExistingDlsInfo(job.msg.app),
               job' = [job EXCEPT !.target = s, !.ret = "SUCCESS",
                         !.term = "CONSOLE" \notin Flags[dls[s].eid]],
               dls' = [dls EXCEPT ![s] = Closed(@)],
               CloseFd(dls[s].commFd), pc' = "collect"
        PROVE  TypeOK'
    <3>1. s \in Slots
      BY DEF GetExistingDlsInfo, TypeOK
    <3>2. dls' \in [Slots -> DlsInfo]
      BY <2>2, <3>1, ClosedType DEF TypeOK
    <3>3. job' \in Jobs
      BY <2>2, <3>1 DEF TypeOK, Jobs, Rets
    <3> QED
      BY <1>4, <2>2, <3>2, <3>3, CloseFdType DEF StopApp, TypeOK, PcValues
  <2> QED
    BY <1>4, <2>1, <2>2 DEF StopApp
<1>5. ASSUME NEW p \in Pids, Collect(p)
      PROVE  TypeOK'
  <2>1. job' \in Jobs
    BY <1>5 DEF Collect, TypeOK, Jobs
  <2>2. proc' \in [Pids -> Processes]
    BY <1>5 DEF Collect, TypeOK, Processes
  <2> QED
    BY <1>5, <2>1, <2>2 DEF Collect, TypeOK, PcValues, listVars, sockVars
<1>6. ASSUME CollectNothing
      PROVE  TypeOK'
  BY <1>6 DEF CollectNothing, TypeOK, PcValues, Jobs, listVars, sockVars
<1>7. ASSUME CollectTimeout
      PROVE  TypeOK'
  <2>1. job' \in Jobs
    BY <1>7 DEF CollectTimeout, TypeOK, Jobs
  <2>2. proc' \in [Pids -> Processes]
    <3>1. ASSUME NEW p \in Pids
          PROVE  [proc EXCEPT ![p].st = "exited"] \in [Pids -> Processes]
      BY DEF TypeOK, Processes, Dead
    <3> QED
      BY <1>7, <3>1 DEF CollectTimeout, TypeOK
  <2> QED
    BY <1>7, <2>1, <2>2 DEF CollectTimeout, TypeOK, PcValues, listVars, sockVars
<1>8. ASSUME CollectGiveUp
      PROVE  TypeOK'
  BY <1>8 DEF CollectGiveUp, TypeOK, PcValues, listVars, sockVars
<1>9. ASSUME FinishCollect
      PROVE  TypeOK'
  <2> DEFINE s == job.target
             d == dls[s]
             back == [job EXCEPT !.target = NoSlot, !.fatal = FALSE]
  <2>1. s \in Slots /\ d \in DlsInfo
    BY <1>9 DEF FinishCollect, HandlerOK, TypeOK
  <2>2. back \in Jobs /\ [back EXCEPT !.caller = IF @ = s THEN FreedSlot ELSE @] \in Jobs
    BY DEF TypeOK, Jobs
  <2>3. job' \in Jobs
    BY <1>9, <2>2, NoJobType DEF FinishCollect
  <2>4. pc' \in PcValues
    BY <1>3, <1>9 DEF FinishCollect, PcValues, Down
  <2>5. leaked' \in Nat /\ listed' \subseteq Slots
    BY <1>9 DEF FinishCollect, TypeOK
  <2>6. dls' \in [Slots -> DlsInfo] /\ proc' \in [Pids -> Processes]
    <3>1. Cleared(d) \in DlsInfo
      BY <2>1, ClearedType
    <3>2. CASE LaunchApp(s, d)
      BY <2>1, <3>2, LaunchAppType
    <3>3. CASE UNCHANGED proc
               /\ (UNCHANGED dls \/ dls' = [dls EXCEPT ![s] = Blank]
                                \/ dls' = [dls EXCEPT ![s] = Cleared(d)])
      BY <2>1, <3>1, <3>3, BlankType DEF TypeOK
    <3> QED
      BY <1>9, <3>2, <3>3 DEF FinishCollect
  <2>7. interests' \subseteq Registrations
    <3>1. \A o \in InterestUnregisterAll(interests, KeyOf(d)) :
            o.ints \in SUBSET Registrations
      BY <2>1, KeyOfType, InterestTypes, "APP_LAUNCHED" \in MsgTypes
         DEF TypeOK, MsgTypes, SchedMsgTypes
    <3> QED
      BY <1>9, <3>1 DEF FinishCollect, TypeOK
  <2> QED
    BY <1>9, <2>3, <2>4, <2>5, <2>6, <2>7 DEF FinishCollect, TypeOK, sockVars
<1>10. ASSUME StartApp
       PROVE  TypeOK'
  <2>1. CASE job' = [job EXCEPT !.ret = InvalidPid] /\ UNCHANGED <<listed, dls, proc>>
    BY <1>0, <1>10, <2>1 DEF StartApp, TypeOK, Jobs, Rets, PidValue, sockVars
  <2>2. ASSUME NEW s \in StartSlots(StartTarget), listed' = listed \cup {s},
               LaunchApp(s, DlsInfoAt(s, StartTarget)),
               job' = [job EXCEPT !.ret = dls'[s].pid]
        PROVE  TypeOK'
    <3>1. StartTarget \in Addr
      BY DEF StartSlots, Generic, Addr, PidValue
    <3>2. s \in Slots /\ DlsInfoAt(s, StartTarget) \in DlsInfo
      BY <3>1, GetDlsInfoType, GetNewDlsInfoType DEF StartSlots
    <3>3. dls' \in [Slots -> DlsInfo] /\ proc' \in [Pids -> Processes]
      BY <2>2, <3>2, LaunchAppType
    <3>4. dls'[s].pid \in Rets
      BY <3>2, <3>3 DEF DlsInfo, Rets
    <3>5. job' \in Jobs
      BY <2>2, <3>4 DEF TypeOK, Jobs
    <3> QED
      BY <1>0, <1>10, <2>2, <3>2, <3>3, <3>5 DEF StartApp, TypeOK, sockVars
  <2> QED
    BY <1>10, <2>1, <2>2 DEF StartApp
<1>11. ASSUME Reply
       PROVE  TypeOK'
  <2>1. SimpleReply(job.msg, job.ret) \in Msgs
    BY SimpleReplyType DEF TypeOK, Jobs
  <2>2. pc' \in PcValues /\ toApp' \in [Pids -> Seq(Msgs)]
    BY <1>0, <1>11, <2>1, SendType DEF Reply, TypeOK, PcValues, Down
  <2> QED
    BY <1>11, <2>2, NoJobType DEF Reply, TypeOK, listVars
<1> QED
  BY <1>1, <1>2, <1>4, <1>5, <1>6, <1>7, <1>8, <1>9, <1>10, <1>11 DEF SchedHandler

LEMMA AcceptType ==
  ASSUME TypeOK, Accept \/ AcceptFails
  PROVE  TypeOK'
<1>1. Head(backlog) \in Pids /\ Tail(backlog) \in Seq(Pids)
  BY HeadTailProperties DEF Accept, AcceptFails, TypeOK
<1>2. ASSUME Accept
      PROVE  TypeOK'
  <2> DEFINE p == Head(backlog)
             a == Head(toSched[p]).src
  <2>1. toSched[p] \in Seq(Msgs) /\ toSched[p] # << >>
    BY <1>1, <1>2 DEF Accept, TypeOK
  <2>2. a \in Addr /\ Tail(toSched[p]) \in Seq(Msgs)
    <3>1. Head(toSched[p]) \in Msgs /\ Tail(toSched[p]) \in Seq(Msgs)
      BY <2>1, HeadTailProperties
    <3> QED
      BY <3>1 DEF Msgs
  <2>3. ASSUME NEW s \in GetDlsInfo(a), LaunchConfirmation(s, DlsInfoAt(s, a), p)
        PROVE  TypeOK'
    <3> DEFINE d == DlsInfoAt(s, a)
    <3>1. s \in Slots /\ d \in DlsInfo
      BY <2>2, GetDlsInfoType
    <3>2. << >> \in Seq(Msgs)
      BY EmptySeq
    <3>3. [d EXCEPT !.commFd = p, !.state = "RUNNING", !.msgQueue = << >>] \in DlsInfo
      BY <1>1, <3>1, <3>2 DEF DlsInfo, States
    <3>4. dls' \in [Slots -> DlsInfo] /\ listed' \subseteq Slots
      BY <2>3, <3>1, <3>3 DEF LaunchConfirmation, TypeOK
    <3>5. toApp[p] \o d.msgQueue \in Seq(Msgs)
      BY <1>1, <3>1, ConcatProperties DEF TypeOK, DlsInfo
    <3>6. toApp' \in [Pids -> Seq(Msgs)] /\ toSched' \in [Pids -> Seq(Msgs)]
      BY <2>2, <2>3, <3>5 DEF LaunchConfirmation, TypeOK
    <3>7. /\ conn' \in [Pids -> {"none", "pending", "open"}]
          /\ pc' \in PcValues
      BY <2>3 DEF LaunchConfirmation, TypeOK, PcValues, Down
    <3> QED
      BY <1>1, <1>2, <3>4, <3>6, <3>7 DEF Accept, TypeOK
  <2>4. CASE CloseFd(p) /\ UNCHANGED <<pc, listed, dls>>
    BY <1>1, <1>2, <2>4, CloseFdType DEF Accept, TypeOK
  <2> QED
    BY <1>2, <2>3, <2>4 DEF Accept
<1>3. ASSUME AcceptFails
      PROVE  TypeOK'
  BY <1>1, <1>3, CloseFdType DEF AcceptFails, TypeOK, listVars
<1> QED
  BY <1>2, <1>3

LEMMA AppType ==
  ASSUME TypeOK, NEW p \in Pids, AppStep(p)
  PROVE  TypeOK'
<1>1. proc[p] \in Processes /\ proc[p].eid \in Entities
  BY DEF TypeOK, Processes
<1>2. OwnAddr(p, proc[p].eid) \in Addr
  BY <1>1 DEF OwnAddr, MakeSpecificEid, Generic, Addr, PidValue
<1>3. ASSUME NEW how \in Dead, AppEnds(p, how)
      PROVE  TypeOK'
  <2>1. << >> \in Seq(Msgs)
    BY EmptySeq
  <2>2. [proc EXCEPT ![p].st = how] \in [Pids -> Processes]
    BY DEF TypeOK, Processes, Dead
  <2> QED
    BY <1>3, <2>1, <2>2 DEF AppEnds, TypeOK, listVars
<1>4. ASSUME AppConnect(p)
      PROVE  TypeOK'
  <2>1. Append(backlog, p) \in Seq(Pids)
    BY DEF TypeOK
  <2>2. proc' \in [Pids -> Processes]
    <3>1. [proc EXCEPT ![p].st = "linking"] \in [Pids -> Processes]
      BY DEF TypeOK, Processes, Alive
    <3>2. [proc EXCEPT ![p].st = "exited"] \in [Pids -> Processes]
      BY DEF TypeOK, Processes, Dead
    <3> QED
      BY <1>4, <3>1, <3>2 DEF AppConnect
  <2> QED
    BY <1>4, <2>1, <2>2 DEF AppConnect, TypeOK, listVars
<1>5. ASSUME AppSendLaunched(p)
      PROVE  TypeOK'
  <2>1. [EmptyMsgHeader EXCEPT !.src = OwnAddr(p, proc[p].eid), !.flags = {"event"}] \in Msgs
    BY <1>2, EmptyMsgHeaderType DEF Msgs, MsgFlags
  <2>2. toSched' \in [Pids -> Seq(Msgs)]
    BY <1>5, <2>1 DEF AppSendLaunched, TypeOK
  <2>3. proc' \in [Pids -> Processes]
    BY <1>5 DEF AppSendLaunched, TypeOK, Processes, Alive
  <2> QED
    BY <1>5, <2>2, <2>3 DEF AppSendLaunched, TypeOK, listVars
<1>6. ASSUME AppSend(p)
      PROVE  TypeOK'
  <2>1. \A r \in Requests : [r EXCEPT !.src = OwnAddr(p, proc[p].eid)] \in Msgs
    BY <1>2, SchedAssumption DEF Msgs
  <2>2. toSched' \in [Pids -> Seq(Msgs)]
    BY <1>6, <2>1 DEF AppSend, TypeOK
  <2> QED
    BY <1>6, <2>2, SchedAssumption DEF AppSend, TypeOK, listVars
<1>7. ASSUME AppReceive(p) \/ AppRequeue(p)
      PROVE  TypeOK'
  <2>1. Head(toApp[p]) \in Msgs /\ Tail(toApp[p]) \in Seq(Msgs)
    BY <1>7, HeadTailProperties DEF AppReceive, AppRequeue, TypeOK
  <2>2. [Head(toApp[p]) EXCEPT !.flags = @ \cup {"requeue"}] \in Msgs
    BY <2>1 DEF Msgs, MsgFlags
  <2>3. toApp' \in [Pids -> Seq(Msgs)]
    BY <1>7, <2>1 DEF AppReceive, AppRequeue, TypeOK
  <2>4. toSched' \in [Pids -> Seq(Msgs)]
    <3>1. CASE AppReceive(p)
      BY <3>1 DEF AppReceive, TypeOK
    <3>2. CASE AppRequeue(p)
      BY <2>2, <3>2 DEF AppRequeue, TypeOK
    <3> QED
      BY <1>7, <3>1, <3>2
  <2> QED
    BY <1>7, <2>3, <2>4, SchedAssumption DEF AppReceive, AppRequeue, TypeOK, listVars
<1>8. ASSUME AppDies(p)
      PROVE  TypeOK'
  BY <1>3, <1>8, SchedAssumption DEF AppDies, Dead
<1>9. ASSUME AppTerminated(p) \/ AppSeesClose(p)
      PROVE  TypeOK'
  BY <1>3, <1>9 DEF AppTerminated, AppSeesClose, Dead
<1>10. ASSUME SelfStart(p)
       PROVE  TypeOK'
  <2>1. \A e \in SelfStarters : NewProcess(e, FALSE) \in Processes
    BY SchedAssumption DEF NewProcess, Processes, Alive
  <2> QED
    BY <1>10, <2>1 DEF SelfStart, TypeOK, listVars, sockVars
<1> QED
  BY <1>4, <1>5, <1>6, <1>7, <1>8, <1>9, <1>10 DEF AppStep, AppInit

LEMMA ServerFdType ==
  ASSUME TypeOK, NEW s \in Slots, ServerFdReadable(s)
  PROVE  TypeOK'
<1>1. dls[s] \in DlsInfo
  BY DEF TypeOK
<1> QED
  BY <1>1, LaunchAppType DEF ServerFdReadable, TypeOK, sockVars

LEMMA InitType == Init => TypeOK /\ HandlerOK
<1> SUFFICES ASSUME Init PROVE TypeOK /\ HandlerOK
  OBVIOUS
<1>1. /\ << >> \in Seq(Msgs) /\ << >> \in Seq(Pids)
      /\ WithFlag("STAGE_1") \in SUBSET Entities
  BY EmptySeq DEF WithFlag
<1>2. \A e \in Entities : NewDlsInfo(Generic(e)) \in DlsInfo
  BY NewDlsInfoType DEF Generic, Addr, PidValue
<1>3. listed \subseteq Slots /\ dls \in [Slots -> DlsInfo]
  <2>1. PICK f \in Placement(WithFlag("STAGE_1"), Slots) :
          /\ listed = { f[e] : e \in WithFlag("STAGE_1") }
          /\ dls = Placed([s \in Slots |-> Blank], WithFlag("STAGE_1"), f)
    BY DEF Init
  <2>2. f \in [WithFlag("STAGE_1") -> Slots]
    BY DEF Placement
  <2>3. \A s \in Slots : (\E e \in WithFlag("STAGE_1") : f[e] = s) =>
                          (CHOOSE e \in WithFlag("STAGE_1") : f[e] = s) \in Entities
    BY <1>1
  <2> QED
    BY <1>2, <2>1, <2>2, <2>3, BlankType DEF Placed
<1>4. job \in Jobs
  BY <1>3, NoJobType DEF Init, Jobs
<1>5. [st |-> "free", eid |-> AnyEntity, child |-> FALSE] \in Processes
  BY AnyEntityType DEF Processes
<1>6. TypeOK
  BY <1>1, <1>3, <1>4, <1>5, SchedAssumption DEF Init, TypeOK, PcValues
<1>7. HandlerOK
  BY DEF Init, HandlerOK
<1> QED
  BY <1>6, <1>7

(* The locals of the handlers stay what the rest of the handler needs.     *)
LEMMA HandlerStep ==
  ASSUME TypeOK, HandlerOK, Next
  PROVE  HandlerOK'
<1> USE DEF HandlerOK, Return
<1>1. CASE \E p \in Pids : AppStep(p)
  <2>1. UNCHANGED <<pc, job, listed, dls>>
    BY <1>1 DEF AppStep, AppInit, AppConnect, AppSendLaunched, AppSend, AppReceive,
                AppRequeue, AppDies, AppTerminated, AppSeesClose, AppEnds,
                SelfStart, listVars
  <2> QED
    BY <2>1
<1>2. CASE SchedBoot \/ Sigterm \/ Accept \/ AcceptFails
           \/ \E s \in Slots : ServerFdReadable(s)
  <2>1. pc' \in Down \cup {"launch1", "launch2", "select"}
    BY <1>2 DEF SchedBoot, AppLauncher, InitDls2, InitDls2Fails, BootDone, Sigterm,
                CleanSched, Accept, LaunchConfirmation, AcceptFails,
                ServerFdReadable, SendMessageByAppState, Send, Down
  <2> QED
    BY <2>1 DEF Down
<1>3. ASSUME NEW s \in Slots, SchedReceive(s)
      PROVE  HandlerOK'
  <2>1. CASE RecvAppControl(s)
    BY <2>1, SchedAssumption DEF RecvAppControl, NoJob
  <2>2. CASE Disconnected(s)
    <3>1. dls'[s].commFd = InvalidFd /\ job' = [NoJob EXCEPT !.target = s]
          /\ listed' = listed /\ s \in listed /\ pc' = "collect"
      BY <2>2 DEF Disconnected, Closed, TypeOK, DlsInfo
    <3>2. job'.target = s /\ job'.msg.type = "APP_LAUNCHED"
      BY <3>1 DEF NoJob, EmptyMsgHeader
    <3> QED
      BY <3>1, <3>2
  <2>3. CASE RecvRequeue(s) \/ RecvEvent(s) \/ RecvRegister(s)
             \/ RecvIsAppRunning(s) \/ RecvOther(s) \/ RouteMessage(s)
    <3>1. pc' \in Down \cup {"select", "distribute"}
      BY <2>3 DEF RecvRequeue, RecvEvent, RecvRegister, RecvIsAppRunning, RecvOther,
                  RouteMessage, Bounce, Forward, SendMessageByAppState, Send,
                  Readable, Down
    <3> QED
      BY <3>1 DEF Down
  <2> QED
    BY <1>3, <2>1, <2>2, <2>3 DEF SchedReceive
<1>4. CASE SchedHandler
  <2>1. ASSUME NEW i \in job.todo, Distribute(i)
        PROVE  HandlerOK'
    <3>1. pc' \in Down \cup {"distribute"}
      BY <2>1 DEF Distribute, SendMessageByAppState, Send, Down
    <3> QED
      BY <3>1 DEF Down
  <2>2. CASE DistributeDone \/ Reply
    <3>1. pc' \in Down \cup {"select"}
      BY <2>2 DEF DistributeDone, Reply, Send, Down
    <3> QED
      BY <3>1 DEF Down
  <2>3. CASE StopApp
    <3>1. CASE pc' = Return /\ job' = [job EXCEPT !.ret = "SUCCESS"]
      BY <2>3, <3>1 DEF StopApp, TypeOK, Jobs
    <3>2. ASSUME NEW s \in GetExistingDlsInfo(job.msg.app),
                 job' = [job EXCEPT !.target = s, !.ret = "SUCCESS",
                           !.term = "CONSOLE" \notin Flags[dls[s].eid]],
                 dls' = [dls EXCEPT ![s] = Closed(@)], pc' = "collect"
          PROVE  HandlerOK'
      <4>1. s \in listed /\ s \in Slots /\ listed' = listed
        BY <2>3 DEF GetExistingDlsInfo, StopApp, TypeOK
      <4>2. job'.target = s /\ job'.caller = job.caller
        BY <3>2 DEF TypeOK, Jobs
      <4>3. dls'[s].commFd = InvalidFd
        BY <3>2, <4>1 DEF Closed, TypeOK, DlsInfo
      <4> QED
        BY <2>3, <3>2, <4>1, <4>2, <4>3 DEF StopApp
    <3> QED
      BY <2>3, <3>1, <3>2 DEF StopApp
  <2>4. CASE (\E p \in Pids : Collect(p)) \/ CollectNothing \/ CollectTimeout
             \/ CollectGiveUp
    <3>1. /\ pc \in {"collect", "kill"} /\ pc' \in {"kill", "finish"}
          /\ UNCHANGED <<listed, dls>>
          /\ job'.target = job.target /\ job'.caller = job.caller
          /\ job'.msg = job.msg
      BY <2>4 DEF Collect, CollectNothing, CollectTimeout, CollectGiveUp, listVars,
                  TypeOK, Jobs
    <3> QED
      BY <3>1
  <2>5. CASE FinishCollect
    <3>1. pc' \in {Return, "segv"}
      BY <2>5 DEF FinishCollect
    <3>2. pc' # "select" /\ pc' # "segv" =>
            job'.caller \in {job.caller, FreedSlot}
      BY <2>5 DEF FinishCollect, TypeOK, Jobs
    <3>3. pc' # "select" /\ pc' # "segv" => job.caller # NoSlot
      BY <2>5, <3>1 DEF FinishCollect
    <3> QED
      BY <3>1, <3>2, <3>3 DEF NoSlot, FreedSlot
  <2>6. CASE StartApp
    <3>1. pc = "start" /\ pc' = "reply"
      BY <2>6 DEF StartApp
    <3>2. job'.caller = job.caller
      BY <2>6 DEF StartApp, TypeOK, Jobs
    <3> QED
      BY <3>1, <3>2
  <2> QED
    BY <1>4, <2>1, <2>2, <2>3, <2>4, <2>5, <2>6 DEF SchedHandler
<1> QED
  BY <1>1, <1>2, <1>3, <1>4 DEF Next, SchedStep

LEMMA HandlerStutter ==
  ASSUME TypeOK, HandlerOK, UNCHANGED vars
  PROVE  TypeOK' /\ HandlerOK'
BY DEF TypeOK, HandlerOK, Return, vars, listVars, sockVars

LEMMA TypeStep ==
  ASSUME TypeOK, HandlerOK, Next
  PROVE  TypeOK'
<1>1. CASE SchedStep
  BY <1>1, BootType, SelectType, HandlerType, AcceptType DEF SchedStep
<1>2. CASE Sigterm
  BY <1>2, CleanSchedType DEF Sigterm
<1>3. CASE \E s \in Slots : ServerFdReadable(s)
  BY <1>3, ServerFdType
<1>4. CASE \E p \in Pids : AppStep(p)
  BY <1>4, AppType
<1> QED
  BY <1>1, <1>2, <1>3, <1>4 DEF Next

LEMMA HandlerInvariant == Spec => [](TypeOK /\ HandlerOK)
<1>1. Init => TypeOK /\ HandlerOK
  BY InitType
<1>2. (TypeOK /\ HandlerOK) /\ [Next]_vars => (TypeOK /\ HandlerOK)'
  BY TypeStep, HandlerStep, HandlerStutter
<1> QED
  BY <1>1, <1>2, PTL DEF Spec

(* Whatever the table, the requests and the number of processes, the state *)
(* of sched and of the sockets keeps its type; in particular collectApp is *)
(* never entered without a record, and every write carries a message.      *)
THEOREM TypeCorrect == Spec => []TypeOK
<1>1. TypeOK /\ HandlerOK => TypeOK
  OBVIOUS
<1> QED
  BY <1>1, HandlerInvariant, PTL

-----------------------------------------------------------------------------
(* Connections and records.  What a step does not disturb:                 *)

(* The process at the end of a connection stays one of the same entity.    *)
SameEntities ==
    \A q \in Pids : conn[q] # "none" =>
       /\ proc'[q].eid = proc[q].eid
       /\ proc'[q].st = "init" => proc[q].st = "init"

(* sched writes to, and reads from, accepted connections only.             *)
OnlyOpenUsed ==
    \A q \in Pids : conn[q] # "open" =>
       toSched'[q] = toSched[q] /\ toApp'[q] = toApp[q]

LEMMA SocketsFrame ==
  ASSUME TypeOK, SocketsOK, UNCHANGED <<conn, backlog>>, SameEntities, OnlyOpenUsed
  PROVE  SocketsOK'
<1>1. ASSUME NEW p \in Pids
      PROVE  /\ conn'[p] = "none" => toSched'[p] = << >> /\ toApp'[p] = << >>
             /\ conn'[p] = "pending" =>
                  /\ toApp'[p] = << >>
                  /\ toSched'[p] # << >> =>
                       Head(toSched'[p]).src = OwnAddr(p, proc'[p].eid)
             /\ proc'[p].st = "init" => conn'[p] = "none"
  BY DEF SocketsOK, SameEntities, OnlyOpenUsed
<1>2. /\ \A i \in 1..Len(backlog') : conn'[backlog'[i]] = "pending"
      /\ \A i, j \in 1..Len(backlog') : backlog'[i] = backlog'[j] => i = j
  BY DEF SocketsOK
<1> QED
  BY <1>1, <1>2 DEF SocketsOK

(* One record changes: it has no connection, or only what is not about its *)
(* connection changes.                                                     *)
SameConnection(d, e) ==
    \/ d.commFd = InvalidFd
    \/ /\ d.commFd = e.commFd /\ d.eid = e.eid
       /\ d.state = e.state /\ d.msgQueue = e.msgQueue

OwnSpecificEid(d) == d.specificEid # NoEid => d.specificEid[2] = d.eid

LEMMA RecordFrame ==
  ASSUME TypeOK, RecordsOK, ConnectedIsRunning,
         NEW s \in Slots, NEW d \in DlsInfo,
         dls' = [dls EXCEPT ![s] = d],
         listed \subseteq listed', listed' \subseteq Slots,
         SameConnection(d, dls[s]), OwnSpecificEid(d),
         UNCHANGED conn, SameEntities
  PROVE  RecordsOK' /\ ConnectedIsRunning'
<1>1. ASSUME NEW t \in Slots
      PROVE  /\ dls'[t].commFd # InvalidFd =>
                  /\ t \in listed
                  /\ dls'[t].commFd = dls[t].commFd /\ dls'[t].eid = dls[t].eid
                  /\ dls'[t].state = dls[t].state
                  /\ dls'[t].msgQueue = dls[t].msgQueue
             /\ OwnSpecificEid(dls'[t])
  BY DEF TypeOK, RecordsOK, SameConnection, OwnSpecificEid
<1>2. RecordsOK'
  BY <1>1 DEF RecordsOK, OwnSpecificEid
<1>3. ASSUME NEW t \in listed', dls'[t].commFd # InvalidFd
      PROVE  /\ dls'[t].state = "RUNNING" /\ dls'[t].msgQueue = << >>
             /\ conn'[dls'[t].commFd] = "open"
             /\ proc'[dls'[t].commFd].eid = dls'[t].eid
  <2>1. t \in listed /\ t \in Slots /\ dls[t].commFd # InvalidFd
    BY <1>1, <1>3
  <2>2. dls[t].commFd \in Pids
    BY <2>1 DEF TypeOK, DlsInfo
  <2>3. /\ dls[t].state = "RUNNING" /\ dls[t].msgQueue = << >>
        /\ conn[dls[t].commFd] = "open"
        /\ proc[dls[t].commFd].eid = dls[t].eid
    BY <2>1 DEF ConnectedIsRunning
  <2>4. proc'[dls[t].commFd].eid = proc[dls[t].commFd].eid
    BY <2>2, <2>3 DEF SameEntities
  <2> QED
    BY <1>1, <1>3, <2>1, <2>3, <2>4
<1>4. ASSUME NEW t \in listed', NEW u \in listed', dls'[t].commFd # InvalidFd,
             dls'[u].commFd = dls'[t].commFd
      PROVE  t = u
  BY <1>1, <1>4 DEF ConnectedIsRunning
<1> QED
  BY <1>2, <1>3, <1>4 DEF ConnectedIsRunning

(* A record that is not RUNNING has no connection.                         *)
LEMMA IdleIsUnconnected ==
  ASSUME TypeOK, RecordsOK, ConnectedIsRunning, NEW s \in Slots,
         dls[s].state # "RUNNING"
  PROVE  dls[s].commFd = InvalidFd
BY DEF RecordsOK, ConnectedIsRunning

(* A write to the connection of a record goes to an accepted connection.   *)
LEMMA RecordIsOpen ==
  ASSUME TypeOK, RecordsOK, ConnectedIsRunning, NEW s \in Slots,
         dls[s].commFd \in Pids
  PROVE  conn[dls[s].commFd] = "open"
<1>1. dls[s].commFd # InvalidFd
  BY DlsAssumption
<1> QED
  BY <1>1 DEF RecordsOK, ConnectedIsRunning

LEMMA LaunchAppFrame ==
  ASSUME TypeOK, RecordsOK, ConnectedIsRunning,
         NEW s \in Slots, NEW d \in DlsInfo, LaunchApp(s, d),
         d.commFd = InvalidFd, OwnSpecificEid(d),
         listed \subseteq listed', listed' \subseteq Slots, UNCHANGED conn
  PROVE  RecordsOK' /\ ConnectedIsRunning' /\ SameEntities
<1>1. SameEntities
  <2>1. ASSUME NEW p \in SpawnResults, p \in Pids
        PROVE  conn[p] = "none"
    BY <2>1, DlsAssumption DEF SpawnResults, FreePids
  <2>2. UNCHANGED proc \/ \E p \in SpawnResults :
          p \in Pids /\ proc' = [proc EXCEPT ![p] = NewProcess(d.eid, TRUE)]
    BY DEF LaunchApp
  <2> QED
    BY <2>1, <2>2 DEF SameEntities, TypeOK
<1>2. CASE "EXE" \in Flags[d.eid]
  <2>1. PICK p \in SpawnResults : dls' = [dls EXCEPT ![s] = Launched(d, p)]
    BY <1>2 DEF LaunchApp
  <2>2. p \in PidValue
    BY DEF SpawnResults, FreePids, PidValue
  <2>3. Launched(d, p) \in DlsInfo
    BY <2>2, LaunchedType
  <2>4. Launched(d, p).commFd = InvalidFd /\ OwnSpecificEid(Launched(d, p))
    BY DEF Launched, DlsInfo, OwnSpecificEid, MakeSpecificEid
  <2> QED
    BY <1>1, <2>1, <2>3, <2>4, RecordFrame DEF SameConnection
<1>3. CASE "EXE" \notin Flags[d.eid]
  <2>1. dls' = [dls EXCEPT ![s] = d]
    BY <1>3 DEF LaunchApp
  <2> QED
    BY <1>1, <2>1, RecordFrame DEF SameConnection
<1> QED
  BY <1>2, <1>3

(* A record found by getDlsInfo is the one in the list, or a new one.      *)
LEMMA SendMessageFrame ==
  ASSUME TypeOK, RecordsOK, ConnectedIsRunning,
         NEW s \in Slots, NEW d \in DlsInfo, NEW m \in Msgs, NEW next,
         SendMessageByAppState(s, d, m, next),
         \/ d = dls[s]
         \/ d.commFd = InvalidFd /\ d.specificEid = NoEid,
         listed \subseteq listed', listed' \subseteq Slots, UNCHANGED conn
  PROVE  /\ RecordsOK' /\ ConnectedIsRunning' /\ SameEntities
         /\ \A q \in Pids : conn[q] # "open" => toApp'[q] = toApp[q]
<1>1. OwnSpecificEid(d)
  BY DEF RecordsOK, OwnSpecificEid
<1>2. QueueMsg(d, m) \in DlsInfo
  BY QueueMsgType
<1>3. d.state # "RUNNING" => d.commFd = InvalidFd
  BY IdleIsUnconnected
<1>4. /\ QueueMsg(d, m).commFd = d.commFd
      /\ OwnSpecificEid(QueueMsg(d, m))
  BY <1>1 DEF QueueMsg, DlsInfo, OwnSpecificEid
<1>5. CASE d.state = "NOT_RUNNING" /\ LaunchApp(s, QueueMsg(d, m))
           /\ UNCHANGED toApp
  BY <1>2, <1>3, <1>4, <1>5, LaunchAppFrame
<1>6. CASE d.state = "LAUNCHED" /\ dls' = [dls EXCEPT ![s] = QueueMsg(d, m)]
           /\ UNCHANGED <<proc, toApp>>
  <2>1. SameEntities
    BY <1>6 DEF SameEntities
  <2>2. SameConnection(QueueMsg(d, m), dls[s])
    BY <1>3, <1>4, <1>6 DEF SameConnection
  <2> QED
    BY <1>2, <1>4, <1>6, <2>1, <2>2, RecordFrame
<1>7. CASE d.state = "RUNNING" /\ dls' = [dls EXCEPT ![s] = d]
           /\ Send(d.commFd, m, next) /\ UNCHANGED proc
  <2>1. SameEntities
    BY <1>7 DEF SameEntities
  <2>2. SameConnection(d, dls[s])
    BY DEF SameConnection
  <2>3. d.commFd \in Pids => conn[d.commFd] = "open"
    BY RecordIsOpen, DlsAssumption
  <2>4. \A q \in Pids : conn[q] # "open" => toApp'[q] = toApp[q]
    BY <1>7, <2>3 DEF Send, TypeOK
  <2> QED
    BY <1>1, <1>7, <2>1, <2>2, <2>4, RecordFrame
<1> QED
  BY <1>5, <1>6, <1>7 DEF SendMessageByAppState

(* No record changes, and no accepted connection.                          *)
LEMMA SameRecords ==
  ASSUME TypeOK, RecordsOK, ConnectedIsRunning, UNCHANGED <<listed, dls>>,
         \A q \in Pids : conn[q] = "open" =>
            conn'[q] = "open" /\ proc'[q].eid = proc[q].eid
  PROVE  RecordsOK' /\ ConnectedIsRunning'
<1>1. RecordsOK'
  BY DEF RecordsOK
<1>2. ASSUME NEW t \in listed, dls[t].commFd # InvalidFd
      PROVE  /\ dls[t].state = "RUNNING" /\ dls[t].msgQueue = << >>
             /\ conn'[dls[t].commFd] = "open"
             /\ proc'[dls[t].commFd].eid = dls[t].eid
             /\ \A u \in listed : dls[u].commFd = dls[t].commFd => t = u
  <2>1. dls[t].commFd \in Pids
    BY <1>2 DEF TypeOK, DlsInfo
  <2> QED
    BY <1>2, <2>1 DEF ConnectedIsRunning
<1> QED
  BY <1>1, <1>2 DEF ConnectedIsRunning

(* collectApp closes the connection of its record.                         *)
LEMMA CloseRecord ==
  ASSUME TypeOK, SocketsOK, RecordsOK, ConnectedIsRunning,
         NEW s \in Slots, dls' = [dls EXCEPT ![s] = Closed(dls[s])],
         CloseFd(dls[s].commFd), UNCHANGED <<listed, proc, backlog>>
  PROVE  SocketsOK' /\ RecordsOK' /\ ConnectedIsRunning'
<1> DEFINE fd == dls[s].commFd
<1>1. /\ Closed(dls[s]) \in DlsInfo /\ Closed(dls[s]).commFd = InvalidFd
      /\ OwnSpecificEid(Closed(dls[s]))
  BY ClosedType DEF TypeOK, Closed, DlsInfo, OwnSpecificEid, RecordsOK
<1>2. CASE fd \notin Pids
  <2>1. UNCHANGED <<conn, toSched, toApp>>
    BY <1>2 DEF CloseFd
  <2>2. SameEntities /\ OnlyOpenUsed
    BY <2>1 DEF SameEntities, OnlyOpenUsed
  <2>3. RecordsOK' /\ ConnectedIsRunning'
    <3>1. SameConnection(Closed(dls[s]), dls[s])
      BY <1>1 DEF SameConnection
    <3>2. listed \subseteq listed' /\ listed' \subseteq Slots
      BY DEF TypeOK
    <3> QED
      BY <1>1, <2>1, <2>2, <3>1, <3>2, RecordFrame
  <2> QED
    BY <2>1, <2>2, <2>3, SocketsFrame
<1>3. CASE fd \in Pids
  <2>1. conn[fd] = "open" /\ fd # InvalidFd /\ s \in listed
    BY <1>3, RecordIsOpen, DlsAssumption DEF RecordsOK
  <2>2. /\ conn' = [conn EXCEPT ![fd] = "none"]
        /\ toSched' = [toSched EXCEPT ![fd] = << >>]
        /\ toApp' = [toApp EXCEPT ![fd] = << >>]
    BY <1>3 DEF CloseFd
  <2>3. SocketsOK'
    <3>1. \A i \in 1..Len(backlog) : backlog[i] \in Pids /\ backlog[i] # fd
      BY <2>1 DEF SocketsOK, TypeOK
    <3>2. \A i \in 1..Len(backlog) : conn'[backlog[i]] = "pending"
      BY <2>2, <3>1 DEF SocketsOK, TypeOK
    <3>3. \A p \in Pids :
            /\ conn'[p] = "none" => toSched'[p] = << >> /\ toApp'[p] = << >>
            /\ conn'[p] = "pending" =>
                 /\ toApp'[p] = << >>
                 /\ toSched'[p] # << >> =>
                      Head(toSched'[p]).src = OwnAddr(p, proc'[p].eid)
            /\ proc'[p].st = "init" => conn'[p] = "none"
      BY <2>2 DEF SocketsOK, TypeOK
    <3> QED
      BY <3>2, <3>3 DEF SocketsOK
  <2>4. ASSUME NEW t \in Slots, dls'[t].commFd # InvalidFd
        PROVE  dls'[t] = dls[t] /\ t # s /\ t \in listed
    BY <1>1, <2>4 DEF TypeOK, RecordsOK
  <2>5. RecordsOK'
    BY <1>1, <2>4 DEF RecordsOK, OwnSpecificEid, TypeOK
  <2>6. ASSUME NEW t \in listed, dls'[t].commFd # InvalidFd
        PROVE  /\ dls'[t].state = "RUNNING" /\ dls'[t].msgQueue = << >>
               /\ conn'[dls'[t].commFd] = "open"
               /\ proc'[dls'[t].commFd].eid = dls'[t].eid
               /\ \A u \in listed : dls'[u].commFd = dls'[t].commFd => t = u
    <3>1. t \in Slots /\ dls'[t] = dls[t] /\ t # s
      BY <2>4, <2>6 DEF TypeOK
    <3>2. /\ dls[t].commFd # fd /\ dls[t].commFd \in Pids
          /\ conn[dls[t].commFd] = "open"
      BY <2>1, <2>6, <3>1 DEF ConnectedIsRunning, TypeOK, DlsInfo
    <3>3. conn'[dls[t].commFd] = "open"
      BY <2>2, <3>2 DEF TypeOK
    <3>4. \A u \in listed : dls'[u].commFd = dls'[t].commFd => t = u
      BY <2>4, <2>6, <3>1 DEF ConnectedIsRunning, TypeOK
    <3> QED
      BY <2>6, <3>1, <3>3, <3>4 DEF ConnectedIsRunning
  <2> QED
    BY <2>3, <2>5, <2>6 DEF ConnectedIsRunning
<1> QED
  BY <1>2, <1>3

LEMMA CleanSchedConn ==
  ASSUME TypeOK, CleanSched
  PROVE  SocketsOK' /\ RecordsOK' /\ ConnectedIsRunning'
<1>1. Blank.commFd = InvalidFd /\ Blank.specificEid = NoEid
  BY DEF Blank, NewDlsInfo, PidInEid
<1>2. SocketsOK'
  BY EmptySeq DEF CleanSched, SocketsOK
<1>3. RecordsOK' /\ ConnectedIsRunning'
  BY <1>1 DEF CleanSched, RecordsOK, ConnectedIsRunning
<1> QED
  BY <1>2, <1>3

(* accept takes the oldest connection; the others go on waiting.           *)
LEMMA BacklogTail ==
  ASSUME TypeOK, SocketsOK, backlog # << >>, backlog' = Tail(backlog),
         \A q \in Pids : q # Head(backlog) => conn'[q] = conn[q]
  PROVE  /\ Head(backlog) \in Pids /\ conn[Head(backlog)] = "pending"
         /\ \A i \in 1..Len(backlog') : conn'[backlog'[i]] = "pending"
         /\ \A i, j \in 1..Len(backlog') : backlog'[i] = backlog'[j] => i = j
<1>1. /\ backlog \in Seq(Pids) /\ Len(backlog) \in Nat /\ Len(backlog) > 0
      /\ Len(Tail(backlog)) = Len(backlog) - 1
      /\ \A i \in 1..Len(Tail(backlog)) : Tail(backlog)[i] = backlog[i + 1]
      /\ Head(backlog) = backlog[1] /\ Head(backlog) \in Pids
  BY HeadTailProperties, EmptySeq, LenProperties DEF TypeOK
<1>2. \A i \in 1..Len(backlog') : /\ i + 1 \in 1..Len(backlog)
                                   /\ backlog'[i] = backlog[i + 1]
                                   /\ backlog[i + 1] \in Pids
  BY <1>1, ElementOfSeq
<1>3. conn[Head(backlog)] = "pending"
  BY <1>1 DEF SocketsOK
<1>4. \A i \in 1..Len(backlog') : backlog'[i] # Head(backlog)
  BY <1>1, <1>2 DEF SocketsOK
<1>5. \A i \in 1..Len(backlog') : conn'[backlog'[i]] = "pending"
  BY <1>2, <1>4 DEF SocketsOK
<1>6. \A i, j \in 1..Len(backlog') : backlog'[i] = backlog'[j] => i = j
  <2>1. Len(backlog') \in Nat
    BY <1>1
  <2> QED
    BY <1>2, <2>1 DEF SocketsOK
<1> QED
  BY <1>1, <1>3, <1>5, <1>6

LEMMA RefusedConn ==
  ASSUME TypeOK, SocketsOK, RecordsOK, ConnectedIsRunning, backlog # << >>,
         CloseFd(Head(backlog)), backlog' = Tail(backlog),
         UNCHANGED <<listed, dls, proc>>
  PROVE  SocketsOK' /\ RecordsOK' /\ ConnectedIsRunning'
<1> DEFINE p == Head(backlog)
<1>1. p \in Pids
  BY HeadTailProperties DEF TypeOK
<1>2. /\ conn' = [conn EXCEPT ![p] = "none"]
      /\ toSched' = [toSched EXCEPT ![p] = << >>]
      /\ toApp' = [toApp EXCEPT ![p] = << >>]
  BY <1>1 DEF CloseFd
<1>3. /\ conn[p] = "pending"
      /\ \A i \in 1..Len(backlog') : conn'[backlog'[i]] = "pending"
      /\ \A i, j \in 1..Len(backlog') : backlog'[i] = backlog'[j] => i = j
  BY <1>2, BacklogTail DEF TypeOK
<1>4. \A q \in Pids :
        /\ conn'[q] = "none" => toSched'[q] = << >> /\ toApp'[q] = << >>
        /\ conn'[q] = "pending" =>
             /\ toApp'[q] = << >>
             /\ toSched'[q] # << >> =>
                  Head(toSched'[q]).src = OwnAddr(q, proc'[q].eid)
        /\ proc'[q].st = "init" => conn'[q] = "none"
  BY <1>2 DEF SocketsOK, TypeOK
<1>5. SocketsOK'
  BY <1>3, <1>4 DEF SocketsOK
<1>6. RecordsOK' /\ ConnectedIsRunning'
  BY <1>2, <1>3, SameRecords DEF TypeOK
<1> QED
  BY <1>5, <1>6

(* processLaunchConfirmation gives the connection to the record of the     *)
(* entity that signed the launch message, and to no other.                 *)
LEMMA AcceptConn ==
  ASSUME TypeOK, SocketsOK, RecordsOK, ConnectedIsRunning, Accept \/ AcceptFails
  PROVE  SocketsOK' /\ RecordsOK' /\ ConnectedIsRunning'
<1>1. CASE AcceptFails
  BY <1>1, RefusedConn DEF AcceptFails, listVars
<1>2. CASE Accept
  <2> DEFINE p == Head(backlog)
             a == Head(toSched[p]).src
  <2>1. backlog # << >> /\ backlog' = Tail(backlog) /\ UNCHANGED proc
        /\ p \in Pids /\ toSched[p] # << >>
    BY <1>2, HeadTailProperties DEF Accept, TypeOK
  <2>2. ASSUME NEW s \in GetDlsInfo(a), LaunchConfirmation(s, DlsInfoAt(s, a), p)
        PROVE  SocketsOK' /\ RecordsOK' /\ ConnectedIsRunning'
    <3> DEFINE d == DlsInfoAt(s, a)
               n == [d EXCEPT !.commFd = p, !.state = "RUNNING", !.msgQueue = << >>]
    <3>1. a \in Addr
      <4>1. Head(toSched[p]) \in Msgs
        BY <2>1, HeadTailProperties DEF TypeOK
      <4> QED
        BY <4>1 DEF Msgs
    <3>2. s \in Slots /\ d \in DlsInfo
      BY <3>1, GetDlsInfoType
    <3>3. /\ conn' = [conn EXCEPT ![p] = "open"]
          /\ toSched' = [toSched EXCEPT ![p] = Tail(@)]
          /\ \A q \in Pids : q # p => toApp'[q] = toApp[q]
          /\ listed' = listed \cup {s}
          /\ dls' = [dls EXCEPT ![s] = n]
      BY <2>2 DEF LaunchConfirmation, TypeOK
    <3>4. /\ conn[p] = "pending"
          /\ \A i \in 1..Len(backlog') : conn'[backlog'[i]] = "pending"
          /\ \A i, j \in 1..Len(backlog') : backlog'[i] = backlog'[j] => i = j
      BY <2>1, <3>3, BacklogTail DEF TypeOK
    <3>5. SocketsOK'
      <4>1. \A q \in Pids :
              /\ conn'[q] = "none" => toSched'[q] = << >> /\ toApp'[q] = << >>
              /\ conn'[q] = "pending" =>
                   /\ toApp'[q] = << >>
                   /\ toSched'[q] # << >> =>
                        Head(toSched'[q]).src = OwnAddr(q, proc'[q].eid)
              /\ proc'[q].st = "init" => conn'[q] = "none"
        <5> TAKE q \in Pids
        <5>1. CASE q = p
          BY <2>1, <3>3, <3>4, <5>1 DEF SocketsOK, TypeOK
        <5>2. CASE q # p
          <6>1. conn'[q] = conn[q] /\ toSched'[q] = toSched[q] /\ toApp'[q] = toApp[q]
            BY <3>3, <5>2 DEF TypeOK
          <6> QED
            BY <2>1, <6>1 DEF SocketsOK
        <5> QED
          BY <5>1, <5>2
      <4> QED
        BY <3>4, <4>1 DEF SocketsOK
    <3>6. a = OwnAddr(p, proc[p].eid) /\ proc[p].eid \in Entities
      BY <2>1, <3>4 DEF SocketsOK, TypeOK, Processes
    <3>7. a[2] = proc[p].eid
      BY <3>6 DEF OwnAddr, MakeSpecificEid, Generic
    <3>8. d.eid = proc[p].eid /\ OwnSpecificEid(d)
      <4>1. CASE s \in listed
        <5>1. d = dls[s] /\ KeyOf(d) = a
          BY <4>1, <2>2 DEF DlsInfoAt, GetDlsInfo, GetNewDlsInfo, GetExistingDlsInfo
        <5>2. OwnSpecificEid(d)
          BY <3>2, <5>1 DEF RecordsOK, OwnSpecificEid
        <5>3. a # NoEid
          BY <3>6, <3>7, DlsAssumption DEF NoEid, Generic
        <5> QED
          BY <3>7, <5>1, <5>2, <5>3 DEF KeyOf, OwnSpecificEid, Generic
      <4>2. CASE s \notin listed
        BY <3>7, <4>2 DEF DlsInfoAt, NewDlsInfo, PidInEid, OwnSpecificEid
      <4> QED
        BY <4>1, <4>2
    <3>9. /\ n.commFd = p /\ n.state = "RUNNING" /\ n.msgQueue = << >>
          /\ n.eid = d.eid /\ n.specificEid = d.specificEid
      BY <3>2 DEF DlsInfo
    <3>10. \A t \in Slots : t # s => dls'[t] = dls[t] /\ dls[t].commFd # p
      <4>1. p # InvalidFd
        BY <2>1, DlsAssumption
      <4>2. \A t \in Slots : dls[t].commFd # p
        BY <2>1, <3>4, RecordIsOpen
      <4> QED
        BY <3>3, <4>2 DEF TypeOK
    <3>11. dls'[s] = n
      BY <3>2, <3>3 DEF TypeOK
    <3>12. RecordsOK'
      BY <3>3, <3>8, <3>9, <3>10, <3>11 DEF RecordsOK, OwnSpecificEid
    <3>13. ASSUME NEW t \in listed', dls'[t].commFd # InvalidFd
           PROVE  /\ dls'[t].state = "RUNNING" /\ dls'[t].msgQueue = << >>
                  /\ conn'[dls'[t].commFd] = "open"
                  /\ proc'[dls'[t].commFd].eid = dls'[t].eid
                  /\ \A u \in listed' : dls'[u].commFd = dls'[t].commFd => t = u
      <4>1. t \in Slots /\ listed' \subseteq Slots
        BY <3>2, <3>3 DEF TypeOK
      <4>2. CASE t = s
        BY <2>1, <3>3, <3>8, <3>9, <3>10, <3>11, <4>1, <4>2 DEF TypeOK
      <4>3. CASE t # s
        <5>1. t \in listed /\ dls'[t] = dls[t] /\ dls[t].commFd # p
          BY <3>3, <3>10, <4>1, <4>3
        <5>2. dls[t].commFd \in Pids
          BY <3>13, <4>1, <5>1 DEF TypeOK, DlsInfo
        <5>3. conn'[dls[t].commFd] = "open"
          BY <3>3, <3>13, <5>1, <5>2 DEF ConnectedIsRunning, TypeOK
        <5>4. \A u \in listed' : dls'[u].commFd = dls'[t].commFd => t = u
          <6> SUFFICES ASSUME NEW u \in listed', dls'[u].commFd = dls'[t].commFd
                       PROVE  t = u
            OBVIOUS
          <6>1. u # s
            BY <3>9, <3>11, <5>1
          <6>2. u \in listed /\ dls'[u] = dls[u]
            BY <3>3, <3>10, <4>1, <6>1
          <6>3. dls[u].commFd = dls[t].commFd /\ dls[t].commFd # InvalidFd
            BY <3>13, <5>1, <6>2
          <6> QED
            BY <5>1, <6>2, <6>3 DEF ConnectedIsRunning
        <5> QED
          BY <2>1, <3>13, <5>1, <5>3, <5>4 DEF ConnectedIsRunning
      <4> QED
        BY <4>2, <4>3
    <3> QED
      BY <3>5, <3>12, <3>13 DEF ConnectedIsRunning
  <2>3. CASE CloseFd(p) /\ UNCHANGED <<pc, listed, dls>>
    BY <2>1, <2>3, RefusedConn
  <2> QED
    BY <1>2, <2>2, <2>3 DEF Accept
<1> QED
  BY <1>1, <1>2

LEMMA AppConn ==
  ASSUME TypeOK, SocketsOK, RecordsOK, ConnectedIsRunning,
         NEW p \in Pids, AppStep(p)
  PROVE  SocketsOK' /\ RecordsOK' /\ ConnectedIsRunning'
<1>1. UNCHANGED <<listed, dls>>
  BY DEF AppStep, AppInit, AppConnect, AppSendLaunched, AppSend, AppReceive,
         AppRequeue, AppDies, AppTerminated, AppSeesClose, AppEnds, SelfStart, listVars
<1>2. \A q \in Pids : proc'[q].eid = proc[q].eid \/ conn[q] = "none"
  <2>1. ASSUME NEW st, proc' = [proc EXCEPT ![p].st = st]
        PROVE  \A q \in Pids : proc'[q].eid = proc[q].eid
    BY <2>1 DEF TypeOK, Processes
  <2>2. CASE AppConnect(p) \/ AppSendLaunched(p) \/ AppDies(p) \/ AppTerminated(p)
             \/ AppSeesClose(p)
    BY <2>1, <2>2 DEF AppConnect, AppSendLaunched, AppDies, AppTerminated,
                      AppSeesClose, AppEnds
  <2>3. CASE AppSend(p) \/ AppReceive(p) \/ AppRequeue(p)
    BY <2>3 DEF AppSend, AppReceive, AppRequeue
  <2>4. CASE SelfStart(p)
    BY <2>4 DEF SelfStart, FreePids, TypeOK
  <2> QED
    BY <2>2, <2>3, <2>4 DEF AppStep, AppInit
<1>3. CASE AppConnect(p) /\ conn' = [conn EXCEPT ![p] = "pending"]
  <2>1. proc[p].st = "init" /\ conn[p] = "none" /\ toSched[p] = << >> /\ toApp[p] = << >>
    BY <1>3 DEF AppConnect, SocketsOK
  <2>2. proc' = [proc EXCEPT ![p].st = "linking"] /\ backlog' = Append(backlog, p)
        /\ UNCHANGED <<toSched, toApp>>
    <3>1. conn' # conn
      BY <1>3, <2>1 DEF TypeOK
    <3> QED
      BY <1>3, <3>1 DEF AppConnect
  <2>3. \A q \in Pids :
          /\ conn'[q] = "none" => toSched'[q] = << >> /\ toApp'[q] = << >>
          /\ conn'[q] = "pending" =>
               /\ toApp'[q] = << >>
               /\ toSched'[q] # << >> =>
                    Head(toSched'[q]).src = OwnAddr(q, proc'[q].eid)
          /\ proc'[q].st = "init" => conn'[q] = "none"
    BY <1>3, <2>1, <2>2 DEF SocketsOK, TypeOK, Processes
  <2>4. /\ Len(backlog') = Len(backlog) + 1 /\ Len(backlog) \in Nat
        /\ backlog'[Len(backlog) + 1] = p
        /\ \A i \in 1..Len(backlog) : backlog'[i] = backlog[i] /\ backlog[i] \in Pids
    BY <2>2, LenProperties DEF TypeOK
  <2>5. \A i \in 1..Len(backlog) : backlog[i] # p /\ conn'[backlog[i]] = "pending"
    BY <1>3, <2>1, <2>4 DEF SocketsOK, TypeOK
  <2>6. \A i \in 1..Len(backlog') : i = Len(backlog) + 1 \/ i \in 1..Len(backlog)
    BY <2>4
  <2>7. /\ \A i \in 1..Len(backlog') : conn'[backlog'[i]] = "pending"
        /\ \A i, j \in 1..Len(backlog') : backlog'[i] = backlog'[j] => i = j
    <3>1. conn'[p] = "pending"
      BY <1>3 DEF TypeOK
    <3>2. \A i \in 1..Len(backlog') : conn'[backlog'[i]] = "pending"
      BY <2>4, <2>5, <2>6, <3>1
    <3>3. ASSUME NEW i \in 1..Len(backlog'), NEW j \in 1..Len(backlog'),
                 backlog'[i] = backlog'[j]
          PROVE  i = j
      BY <2>4, <2>5, <2>6, <3>3 DEF SocketsOK
    <3> QED
      BY <3>2, <3>3
  <2>8. RecordsOK' /\ ConnectedIsRunning'
    BY <1>1, <1>2, <1>3, <2>1, SameRecords DEF TypeOK
  <2> QED
    BY <2>3, <2>7, <2>8 DEF SocketsOK
<1>4. CASE UNCHANGED <<conn, backlog>>
  <2>1. RecordsOK' /\ ConnectedIsRunning'
    BY <1>1, <1>2, <1>4, SameRecords
  <2>2. ASSUME NEW q \in Pids
        PROVE  /\ conn[q] = "none" => toSched'[q] = << >> /\ toApp'[q] = << >>
               /\ conn[q] = "pending" =>
                    /\ toApp'[q] = << >>
                    /\ toSched'[q] # << >> =>
                         Head(toSched'[q]).src = OwnAddr(q, proc'[q].eid)
               /\ proc'[q].st = "init" => conn[q] = "none"
    <3>1. CASE q # p
      <4>1. /\ toSched'[q] = toSched[q] /\ toApp'[q] = toApp[q]
            /\ proc'[q] = proc[q]
        BY <3>1 DEF AppStep, AppInit, AppConnect, AppSendLaunched, AppSend, AppReceive,
             AppRequeue, AppDies, AppTerminated, AppSeesClose, AppEnds, SelfStart,
             sockVars, TypeOK
      <4> QED
        BY <4>1 DEF SocketsOK
    <3>2. CASE q = p
      <4>1. CASE AppConnect(p)
        <5>1. /\ proc' = [proc EXCEPT ![p].st = "exited"]
              /\ conn[p] = "none" /\ UNCHANGED <<toSched, toApp>>
          BY <1>4, <4>1 DEF AppConnect, SocketsOK, TypeOK
        <5> QED
          BY <3>2, <5>1 DEF SocketsOK
      <4>2. ASSUME NEW m \in Msgs, m.src = OwnAddr(p, proc[p].eid),
                   toSched' = [toSched EXCEPT ![p] = Append(@, m)], UNCHANGED toApp,
                   conn[p] # "none", proc'[p].eid = proc[p].eid, proc'[p].st # "init"
            PROVE  /\ conn[q] = "none" => toSched'[q] = << >> /\ toApp'[q] = << >>
                   /\ conn[q] = "pending" =>
                        /\ toApp'[q] = << >>
                        /\ toSched'[q] # << >> =>
                             Head(toSched'[q]).src = OwnAddr(q, proc'[q].eid)
                   /\ proc'[q].st = "init" => conn[q] = "none"
        <5>1. toSched[p] \in Seq(Msgs) /\ toSched'[p] = Append(toSched[p], m)
          BY <4>2 DEF TypeOK
        <5>2. Head(toSched'[p]) = IF toSched[p] = << >> THEN m ELSE Head(toSched[p])
          BY <5>1, EmptySeq
        <5> QED
          BY <3>2, <4>2, <5>2 DEF SocketsOK
      <4>3. CASE AppSendLaunched(p)
        <5> DEFINE m == [EmptyMsgHeader EXCEPT !.src = OwnAddr(p, proc[p].eid),
                                               !.flags = {"event"}]
        <5>1. m \in Msgs /\ m.src = OwnAddr(p, proc[p].eid)
          <6>1. OwnAddr(p, proc[p].eid) \in Addr
            BY DEF OwnAddr, MakeSpecificEid, Generic, Addr, PidValue, TypeOK, Processes
          <6> QED
            BY <6>1, EmptyMsgHeaderType DEF Msgs, MsgFlags, EmptyMsgHeader
        <5>2. proc'[p].eid = proc[p].eid /\ proc'[p].st # "init"
          BY <4>3 DEF AppSendLaunched, TypeOK, Processes
        <5> QED
          BY <4>2, <4>3, <5>1, <5>2 DEF AppSendLaunched
      <4>4. CASE AppSend(p)
        <5>1. PICK r \in Requests : toSched' = [toSched EXCEPT ![p] =
                Append(@, [r EXCEPT !.src = OwnAddr(p, proc[p].eid)])]
          BY <4>4 DEF AppSend
        <5> DEFINE m == [r EXCEPT !.src = OwnAddr(p, proc[p].eid)]
        <5>2. m \in Msgs /\ m.src = OwnAddr(p, proc[p].eid)
          <6>1. OwnAddr(p, proc[p].eid) \in Addr
            BY DEF OwnAddr, MakeSpecificEid, Generic, Addr, PidValue, TypeOK, Processes
          <6> QED
            BY <6>1, SchedAssumption DEF Msgs
        <5>3. proc'[p].eid = proc[p].eid /\ proc'[p].st # "init" /\ conn[p] # "none"
              /\ UNCHANGED toApp
          BY <4>4 DEF AppSend
        <5> QED
          BY <4>2, <5>1, <5>2, <5>3
      <4>5. CASE AppReceive(p) \/ AppRequeue(p)
        <5>1. conn[p] = "open" /\ proc' = proc
          BY <4>5 DEF AppReceive, AppRequeue, SocketsOK, TypeOK
        <5> QED
          BY <3>2, <4>5, <5>1 DEF SocketsOK
      <4>6. CASE AppDies(p) \/ AppTerminated(p) \/ AppSeesClose(p)
        <5>1. PICK how \in Dead : AppEnds(p, how)
          BY <4>6, SchedAssumption DEF AppDies, AppTerminated, AppSeesClose, Dead
        <5>2. /\ toSched' = toSched /\ toApp'[p] = << >> /\ proc'[p].st # "init"
              /\ proc'[p].eid = proc[p].eid
          BY <5>1 DEF AppEnds, TypeOK, Processes, Dead
        <5> QED
          BY <3>2, <5>2 DEF SocketsOK
      <4>7. CASE SelfStart(p)
        BY <3>2, <4>7 DEF SelfStart, FreePids, SocketsOK, sockVars
      <4> QED
        BY <4>1, <4>3, <4>4, <4>5, <4>6, <4>7 DEF AppStep, AppInit
    <3> QED
      BY <3>1, <3>2
  <2> QED
    BY <1>4, <2>1, <2>2 DEF SocketsOK
<1> QED
  BY <1>3, <1>4 DEF AppStep, AppInit, AppConnect, AppSendLaunched, AppSend, AppReceive,
         AppRequeue, AppDies, AppTerminated, AppSeesClose, AppEnds, SelfStart, sockVars

LEMMA BootConn ==
  ASSUME TypeOK, TypeOK', SocketsOK, RecordsOK, ConnectedIsRunning, SchedBoot
  PROVE  SocketsOK' /\ RecordsOK' /\ ConnectedIsRunning'
<1>1. ASSUME NEW s \in Slots, AppLauncher(s)
      PROVE  SocketsOK' /\ RecordsOK' /\ ConnectedIsRunning'
  <2>1. dls[s] \in DlsInfo /\ BootMsg(dls[s].eid) \in Msgs
    <3>1. dls[s] \in DlsInfo /\ Generic(dls[s].eid) \in Addr
      BY DEF TypeOK, DlsInfo, Generic, Addr, PidValue
    <3>2. "SYSTEM_BOOT" \in MsgTypes /\ {"event"} \in SUBSET MsgFlags
      BY DEF MsgTypes, SchedMsgTypes, MsgFlags
    <3> QED
      BY <3>1, <3>2, EmptyMsgHeaderType DEF BootMsg, Msgs
  <2>2. listed \subseteq listed' /\ listed' \subseteq Slots
        /\ UNCHANGED <<conn, backlog, toSched>>
    BY <1>1 DEF AppLauncher, TypeOK
  <2>3. /\ RecordsOK' /\ ConnectedIsRunning' /\ SameEntities
        /\ \A q \in Pids : conn[q] # "open" => toApp'[q] = toApp[q]
    <3>1. CASE SendMessageByAppState(s, dls[s], BootMsg(dls[s].eid), pc)
      BY <2>1, <2>2, <3>1, SendMessageFrame
    <3>2. CASE dls[s].state = "NOT_RUNNING" /\ LaunchApp(s, dls[s]) /\ UNCHANGED toApp
      <4>1. dls[s].commFd = InvalidFd /\ OwnSpecificEid(dls[s])
        BY <3>2, IdleIsUnconnected DEF RecordsOK, OwnSpecificEid
      <4> QED
        BY <2>1, <2>2, <3>2, <4>1, LaunchAppFrame
    <3>3. CASE UNCHANGED <<dls, proc, toApp>>
      <4>1. UNCHANGED listed
        BY <1>1 DEF AppLauncher
      <4> QED
        BY <2>2, <3>3, <4>1, SameRecords DEF SameEntities
    <3> QED
      BY <1>1, <3>1, <3>2, <3>3 DEF AppLauncher
  <2> QED
    BY <2>2, <2>3, SocketsFrame DEF OnlyOpenUsed
<1>2. ASSUME InitDls2
      PROVE  SocketsOK' /\ RecordsOK' /\ ConnectedIsRunning'
  <2>1. PICK f \in Placement(Stage2, Slots \ listed) :
          /\ listed' = listed \cup { f[e] : e \in Stage2 }
          /\ dls' = Placed(dls, Stage2, f)
    BY <1>2 DEF InitDls2
  <2>2. \A a : NewDlsInfo(a).commFd = InvalidFd /\ NewDlsInfo(a).specificEid = NoEid
    BY DEF NewDlsInfo, PidInEid
  <2>3. \A t \in Slots : \/ dls'[t] = dls[t]
                         \/ dls'[t].commFd = InvalidFd /\ dls'[t].specificEid = NoEid
    BY <2>1, <2>2 DEF Placed
  <2>4. UNCHANGED <<conn, backlog, toSched, toApp, proc>>
    BY <1>2 DEF InitDls2, sockVars
  <2>5. SocketsOK'
    BY <2>4, SocketsFrame DEF SameEntities, OnlyOpenUsed
  <2>6. \A t \in Slots : dls'[t].commFd # InvalidFd => dls'[t] = dls[t] /\ t \in listed
    BY <2>3 DEF RecordsOK
  <2>7. RecordsOK'
    BY <2>1, <2>3, <2>6 DEF RecordsOK
  <2>8. ASSUME NEW t \in listed', dls'[t].commFd # InvalidFd
        PROVE  /\ dls'[t].state = "RUNNING" /\ dls'[t].msgQueue = << >>
               /\ conn'[dls'[t].commFd] = "open"
               /\ proc'[dls'[t].commFd].eid = dls'[t].eid
               /\ \A u \in listed' : dls'[u].commFd = dls'[t].commFd => t = u
    <3>1. listed' \subseteq Slots
      BY DEF TypeOK
    <3>2. t \in listed /\ dls'[t] = dls[t]
      BY <2>6, <2>8, <3>1
    <3>3. \A u \in listed' : dls'[u].commFd = dls'[t].commFd =>
                               u \in listed /\ dls'[u] = dls[u]
      BY <2>6, <2>8, <3>1
    <3> QED
      BY <2>4, <2>8, <3>2, <3>3 DEF ConnectedIsRunning
  <2> QED
    BY <2>5, <2>7, <2>8 DEF ConnectedIsRunning
<1>3. ASSUME InitDls2Fails
      PROVE  SocketsOK' /\ RecordsOK' /\ ConnectedIsRunning'
  BY <1>3, CleanSchedConn DEF InitDls2Fails
<1>4. ASSUME BootDone
      PROVE  SocketsOK' /\ RecordsOK' /\ ConnectedIsRunning'
  <2>1. UNCHANGED <<conn, backlog, toSched, toApp, proc, listed, dls>>
    BY <1>4 DEF BootDone, listVars, sockVars
  <2> QED
    BY <2>1, SocketsFrame, SameRecords DEF SameEntities, OnlyOpenUsed
<1> QED
  BY <1>1, <1>2, <1>3, <1>4 DEF SchedBoot

(* A record found or made by getDlsInfo can be sent a message.             *)
LEMMA DlsInfoAtFresh ==
  ASSUME NEW a, NEW s
  PROVE  \/ DlsInfoAt(s, a) = dls[s]
         \/ DlsInfoAt(s, a).commFd = InvalidFd /\ DlsInfoAt(s, a).specificEid = NoEid
BY DEF DlsInfoAt, NewDlsInfo, PidInEid

LEMMA ReceiveConn ==
  ASSUME TypeOK, TypeOK', SocketsOK, RecordsOK, ConnectedIsRunning,
         NEW s \in Slots, SchedReceive(s)
  PROVE  SocketsOK' /\ RecordsOK' /\ ConnectedIsRunning'
<1>1. CASE Disconnected(s)
  BY <1>1, CloseRecord DEF Disconnected
<1>2. CASE Readable(s) /\ Consume(s) /\ UNCHANGED <<conn, backlog>>
  <2>1. dls[s].commFd \in Pids /\ conn[dls[s].commFd] = "open"
    BY <1>2, IncomingType, RecordIsOpen
  <2>2. \A q \in Pids : conn[q] # "open" => toSched'[q] = toSched[q]
    BY <1>2, <2>1 DEF Consume, TypeOK
  <2>3. ASSUME NEW m, NEW next, Send(dls[s].commFd, m, next)
        PROVE  \A q \in Pids : conn[q] # "open" => toApp'[q] = toApp[q]
    BY <2>1, <2>3 DEF Send, TypeOK
  <2>4. ASSUME UNCHANGED <<listed, dls, proc>>
        PROVE  RecordsOK' /\ ConnectedIsRunning' /\ SameEntities
    BY <1>2, <2>4, SameRecords DEF SameEntities
  <2>5. /\ RecordsOK' /\ ConnectedIsRunning' /\ SameEntities
        /\ \A q \in Pids : conn[q] # "open" => toApp'[q] = toApp[q]
    <3>1. CASE RecvRequeue(s)
      BY <2>3, <2>4, <3>1 DEF RecvRequeue, listVars
    <3>2. CASE RecvEvent(s) \/ RecvAppControl(s) \/ RecvOther(s)
      <4>1. UNCHANGED <<listed, dls, proc, toApp>>
        BY <3>2 DEF RecvEvent, RecvAppControl, RecvOther, listVars
      <4> QED
        BY <2>4, <4>1
    <3>3. CASE RecvIsAppRunning(s)
      BY <2>3, <2>4, <3>3 DEF RecvIsAppRunning, listVars
    <3>4. CASE RecvRegister(s)
      <4>1. UNCHANGED <<listed, proc>>
        BY <3>4 DEF RecvRegister
      <4>2. CASE UNCHANGED <<dls, toApp>>
        BY <2>4, <4>1, <4>2
      <4>3. ASSUME NEW n, dls' = [dls EXCEPT ![s].numEventInterestRequested = n],
                   Send(dls[s].commFd, SimpleReply(Incoming(s), "SUCCESS"), "select")
            PROVE  /\ RecordsOK' /\ ConnectedIsRunning' /\ SameEntities
                   /\ \A q \in Pids : conn[q] # "open" => toApp'[q] = toApp[q]
        <5> DEFINE d == [dls[s] EXCEPT !.numEventInterestRequested = n]
        <5>1. dls' = [dls EXCEPT ![s] = d] /\ d = dls'[s]
          BY <4>3 DEF TypeOK
        <5>2. d \in DlsInfo
          BY <5>1 DEF TypeOK
        <5>3. SameConnection(d, dls[s]) /\ OwnSpecificEid(d)
          BY DEF SameConnection, OwnSpecificEid, RecordsOK, TypeOK, DlsInfo
        <5>4. SameEntities /\ listed \subseteq listed' /\ listed' \subseteq Slots
          BY <4>1 DEF SameEntities, TypeOK
        <5> QED
          BY <1>2, <2>3, <4>3, <5>1, <5>2, <5>3, <5>4, RecordFrame
      <4> QED
        BY <3>4, <4>2, <4>3 DEF RecvRegister
    <3>5. CASE RouteMessage(s)
      <4>1. Incoming(s) \in Msgs /\ Incoming(s).dst \in Addr
        BY <1>2, IncomingType DEF Msgs
      <4>2. CASE Bounce(Incoming(s))
        <5>1. UNCHANGED <<listed, dls, proc>>
          BY <4>2 DEF Bounce
        <5>2. ASSUME NEW t \in GetExistingDlsInfo(Incoming(s).src), NEW m,
                     Send(dls[t].commFd, m, "select")
              PROVE  \A q \in Pids : conn[q] # "open" => toApp'[q] = toApp[q]
          <6>1. t \in Slots
            BY DEF GetExistingDlsInfo, TypeOK
          <6>2. dls[t].commFd \in Pids => conn[dls[t].commFd] = "open"
            BY <6>1, RecordIsOpen
          <6> QED
            BY <5>2, <6>2 DEF Send, TypeOK
        <5> QED
          BY <2>4, <4>2, <5>1, <5>2 DEF Bounce
      <4>3. CASE Forward(Incoming(s))
        <5>1. CASE UNCHANGED <<listed, dls, proc, toApp>>
          BY <2>4, <5>1
        <5>2. ASSUME NEW t \in GetDlsInfo(Incoming(s).dst), listed' = listed \cup {t},
                     SendMessageByAppState(t, DlsInfoAt(t, Incoming(s).dst),
                                           Incoming(s), "select")
              PROVE  /\ RecordsOK' /\ ConnectedIsRunning' /\ SameEntities
                     /\ \A q \in Pids : conn[q] # "open" => toApp'[q] = toApp[q]
          <6>1. t \in Slots /\ DlsInfoAt(t, Incoming(s).dst) \in DlsInfo
            BY <4>1, GetDlsInfoType
          <6>2. listed \subseteq listed' /\ listed' \subseteq Slots
            BY <5>2 DEF TypeOK
          <6> QED
            BY <1>2, <4>1, <5>2, <6>1, <6>2, DlsInfoAtFresh, SendMessageFrame
        <5> QED
          BY <4>3, <5>1, <5>2 DEF Forward
      <4> QED
        BY <3>5, <4>2, <4>3 DEF RouteMessage
    <3> QED
      BY <1>2, <3>1, <3>2, <3>3, <3>4, <3>5 DEF SchedReceive, Readable, Disconnected
  <2> QED
    BY <1>2, <2>2, <2>5, SocketsFrame DEF OnlyOpenUsed
<1> QED
  BY <1>1, <1>2 DEF SchedReceive, RecvRequeue, RecvEvent, RecvRegister,
     RecvIsAppRunning, RecvAppControl, RecvOther, RouteMessage

LEMMA HandlerConn ==
  ASSUME TypeOK, TypeOK', HandlerOK, SocketsOK, RecordsOK, ConnectedIsRunning,
         SchedHandler
  PROVE  SocketsOK' /\ RecordsOK' /\ ConnectedIsRunning'
<1>1. ASSUME UNCHANGED <<conn, backlog, toSched>>, SameEntities,
             \A q \in Pids : conn[q] # "open" => toApp'[q] = toApp[q]
      PROVE  SocketsOK'
  BY <1>1, SocketsFrame DEF OnlyOpenUsed
<1>2. ASSUME UNCHANGED <<conn, backlog, toSched, listed, dls>>, SameEntities,
             \A q \in Pids : conn[q] # "open" => toApp'[q] = toApp[q]
      PROVE  SocketsOK' /\ RecordsOK' /\ ConnectedIsRunning'
  BY <1>1, <1>2, SameRecords DEF SameEntities
<1>3. ASSUME NEW i \in job.todo, Distribute(i)
      PROVE  SocketsOK' /\ RecordsOK' /\ ConnectedIsRunning'
  <2>1. i.eid \in Addr /\ job.msg \in Msgs /\ UNCHANGED <<conn, backlog, toSched>>
    BY <1>3 DEF TypeOK, Jobs, Registrations, Distribute
  <2>2. CASE UNCHANGED <<listed, dls, proc, toApp>>
    BY <1>2, <2>1, <2>2 DEF SameEntities
  <2>3. ASSUME NEW s \in GetDlsInfo(i.eid), listed' = listed \cup {s},
               \/ /\ dls' = [dls EXCEPT ![s] = DlsInfoAt(s, i.eid)]
                  /\ UNCHANGED <<proc, toApp>>
               \/ SendMessageByAppState(s, DlsInfoAt(s, i.eid),
                     [job.msg EXCEPT !.dst = KeyOf(DlsInfoAt(s, i.eid))], pc)
        PROVE  SocketsOK' /\ RecordsOK' /\ ConnectedIsRunning'
    <3> DEFINE d == DlsInfoAt(s, i.eid)
    <3>1. s \in Slots /\ d \in DlsInfo
      BY <2>1, GetDlsInfoType
    <3>2. listed \subseteq listed' /\ listed' \subseteq Slots
      BY <2>3 DEF TypeOK
    <3>3. CASE dls' = [dls EXCEPT ![s] = d] /\ UNCHANGED <<proc, toApp>>
      <4>1. SameConnection(d, dls[s]) /\ OwnSpecificEid(d)
        BY <3>1, DlsInfoAtFresh DEF SameConnection, OwnSpecificEid, RecordsOK
      <4>2. SameEntities
        BY <3>3 DEF SameEntities
      <4> QED
        BY <1>1, <2>1, <3>1, <3>2, <3>3, <4>1, <4>2, RecordFrame
    <3>4. CASE SendMessageByAppState(s, d, [job.msg EXCEPT !.dst = KeyOf(d)], pc)
      <4>1. [job.msg EXCEPT !.dst = KeyOf(d)] \in Msgs
        BY <2>1, <3>1, KeyOfType DEF Msgs
      <4> QED
        BY <1>1, <2>1, <3>1, <3>2, <3>4, <4>1, DlsInfoAtFresh, SendMessageFrame
    <3> QED
      BY <2>3, <3>3, <3>4
  <2> QED
    BY <1>3, <2>2, <2>3 DEF Distribute
<1>4. CASE DistributeDone \/ CollectNothing \/ CollectGiveUp
  BY <1>2, <1>4 DEF DistributeDone, CollectNothing, CollectGiveUp, listVars,
                    sockVars, SameEntities
<1>5. CASE StopApp
  <2>1. CASE UNCHANGED <<dls, conn, toSched, toApp>>
    BY <1>2, <1>5, <2>1 DEF StopApp, SameEntities
  <2>2. ASSUME NEW s \in GetExistingDlsInfo(job.msg.app),
               dls' = [dls EXCEPT ![s] = Closed(@)], CloseFd(dls[s].commFd)
        PROVE  SocketsOK' /\ RecordsOK' /\ ConnectedIsRunning'
    <3>1. s \in Slots /\ UNCHANGED <<listed, proc, backlog>>
      BY <1>5 DEF GetExistingDlsInfo, TypeOK, StopApp
    <3> QED
      BY <2>2, <3>1, CloseRecord
  <2> QED
    BY <1>5, <2>1, <2>2 DEF StopApp
<1>6. CASE (\E p \in Pids : Collect(p)) \/ CollectTimeout
  <2>1. UNCHANGED <<conn, backlog, toSched, toApp, listed, dls>>
    BY <1>6 DEF Collect, CollectTimeout, listVars, sockVars
  <2>2. SameEntities
    <3>1. CASE CollectTimeout
      <4>1. UNCHANGED proc \/ \E p \in Pids : proc' = [proc EXCEPT ![p].st = "exited"]
        BY <3>1 DEF CollectTimeout
      <4>2. ASSUME NEW p \in Pids, proc' = [proc EXCEPT ![p].st = "exited"]
            PROVE  SameEntities
        BY <4>2 DEF SameEntities, TypeOK, Processes
      <4>3. CASE UNCHANGED proc
        BY <4>3 DEF SameEntities
      <4> QED
        BY <4>1, <4>2, <4>3
    <3>2. ASSUME NEW p \in Pids, Collect(p)
          PROVE  SameEntities
      BY <3>2 DEF Collect, SameEntities, TypeOK, Processes
    <3> QED
      BY <1>6, <3>1, <3>2
  <2> QED
    BY <1>2, <2>1, <2>2
<1>7. CASE FinishCollect
  <2> DEFINE s == job.target
             d == dls[s]
  <2>1. /\ s \in Slots /\ d \in DlsInfo /\ d.commFd = InvalidFd
        /\ OwnSpecificEid(d) /\ UNCHANGED <<conn, backlog, toSched, toApp>>
    BY <1>7 DEF FinishCollect, HandlerOK, TypeOK, RecordsOK, OwnSpecificEid, sockVars
  <2>2. CASE LaunchApp(s, d) /\ UNCHANGED listed
    <3>1. listed \subseteq listed' /\ listed' \subseteq Slots
      BY <2>2 DEF TypeOK
    <3> QED
      BY <1>1, <2>1, <2>2, <3>1, LaunchAppFrame
  <2>3. CASE UNCHANGED <<listed, dls, proc>>
    BY <1>2, <2>1, <2>3 DEF SameEntities
  <2>4. CASE listed' = listed \ {s} /\ dls' = [dls EXCEPT ![s] = Blank]
             /\ UNCHANGED proc
    <3>1. SocketsOK'
      BY <1>1, <2>1, <2>4 DEF SameEntities
    <3>2. /\ dls'[s].commFd = InvalidFd /\ dls'[s].specificEid = NoEid
          /\ \A t \in Slots : t # s => dls'[t] = dls[t]
      BY <2>1, <2>4 DEF Blank, NewDlsInfo, PidInEid, TypeOK
    <3>3. RecordsOK'
      BY <2>4, <3>2 DEF RecordsOK
    <3>4. ASSUME NEW t \in listed', dls'[t].commFd # InvalidFd
          PROVE  /\ dls'[t].state = "RUNNING" /\ dls'[t].msgQueue = << >>
                 /\ conn'[dls'[t].commFd] = "open"
                 /\ proc'[dls'[t].commFd].eid = dls'[t].eid
                 /\ \A u \in listed' : dls'[u].commFd = dls'[t].commFd => t = u
      <4>1. \A u \in listed' : u \in listed /\ dls'[u] = dls[u]
        BY <2>4, <3>2 DEF TypeOK
      <4> QED
        BY <2>1, <2>4, <3>4, <4>1 DEF ConnectedIsRunning
    <3> QED
      BY <3>1, <3>3, <3>4 DEF ConnectedIsRunning
  <2>5. CASE dls' = [dls EXCEPT ![s] = Cleared(d)] /\ UNCHANGED <<listed, proc>>
    <3>1. Cleared(d) \in DlsInfo
      BY <2>1, ClearedType
    <3>2. Cleared(d).commFd = InvalidFd /\ OwnSpecificEid(Cleared(d))
      BY <2>1 DEF Cleared, DlsInfo, OwnSpecificEid
    <3>3. SameEntities /\ listed \subseteq listed' /\ listed' \subseteq Slots
      BY <2>5 DEF SameEntities, TypeOK
    <3> QED
      BY <1>1, <2>1, <2>5, <3>1, <3>2, <3>3, RecordFrame DEF SameConnection
  <2> QED
    BY <1>7, <2>2, <2>3, <2>4, <2>5 DEF FinishCollect
<1>8. CASE StartApp
  <2>1. UNCHANGED <<conn, backlog, toSched, toApp>>
    BY <1>8 DEF StartApp, sockVars
  <2>2. CASE UNCHANGED <<listed, dls, proc>>
    BY <1>2, <2>1, <2>2 DEF SameEntities
  <2>3. ASSUME NEW s \in StartSlots(StartTarget), listed' = listed \cup {s},
               DlsInfoAt(s, StartTarget).state = "NOT_RUNNING",
               LaunchApp(s, DlsInfoAt(s, StartTarget))
        PROVE  SocketsOK' /\ RecordsOK' /\ ConnectedIsRunning'
    <3> DEFINE d == DlsInfoAt(s, StartTarget)
    <3>1. StartTarget \in Addr
      BY DEF StartSlots, Generic, Addr, PidValue
    <3>2. s \in Slots /\ d \in DlsInfo
      BY <3>1, GetDlsInfoType, GetNewDlsInfoType DEF StartSlots
    <3>3. d.commFd = InvalidFd /\ OwnSpecificEid(d)
      BY <2>3, <3>2, DlsInfoAtFresh, IdleIsUnconnected DEF RecordsOK, OwnSpecificEid
    <3>4. listed \subseteq listed' /\ listed' \subseteq Slots
      BY <2>3 DEF TypeOK
    <3> QED
      BY <1>1, <2>1, <2>3, <3>2, <3>3, <3>4, LaunchAppFrame
  <2> QED
    BY <1>8, <2>2, <2>3 DEF StartApp
<1>9. CASE Reply
  <2>1. UNCHANGED <<conn, backlog, toSched, listed, dls, proc>>
    BY <1>9 DEF Reply, listVars
  <2>2. \A q \in Pids : conn[q] # "open" => toApp'[q] = toApp[q]
    <3>1. CASE UNCHANGED toApp
      BY <3>1
    <3>2. CASE job.caller # FreedSlot
               /\ Send(dls[job.caller].commFd, SimpleReply(job.msg, job.ret), "select")
      <4>1. job.caller \in Slots
        BY <1>9, <3>2 DEF Reply, HandlerOK, TypeOK, Jobs
      <4>2. dls[job.caller].commFd \in Pids => conn[dls[job.caller].commFd] = "open"
        BY <4>1, RecordIsOpen
      <4> QED
        BY <3>2, <4>2 DEF Send, TypeOK
    <3> QED
      BY <1>9, <3>1, <3>2 DEF Reply
  <2> QED
    BY <1>2, <2>1, <2>2 DEF SameEntities
<1> QED
  BY <1>3, <1>4, <1>5, <1>6, <1>7, <1>8, <1>9 DEF SchedHandler

LEMMA ServerFdConn ==
  ASSUME TypeOK, SocketsOK, RecordsOK, ConnectedIsRunning,
         NEW s \in Slots, ServerFdReadable(s)
  PROVE  SocketsOK' /\ RecordsOK' /\ ConnectedIsRunning'
<1>1. /\ dls[s] \in DlsInfo /\ dls[s].commFd = InvalidFd /\ OwnSpecificEid(dls[s])
      /\ listed \subseteq listed' /\ listed' \subseteq Slots
      /\ UNCHANGED <<conn, backlog, toSched, toApp>>
  BY IdleIsUnconnected DEF ServerFdReadable, TypeOK, RecordsOK, OwnSpecificEid, sockVars
<1>2. RecordsOK' /\ ConnectedIsRunning' /\ SameEntities
  BY <1>1, LaunchAppFrame DEF ServerFdReadable
<1> QED
  BY <1>1, <1>2, SocketsFrame DEF OnlyOpenUsed

LEMMA InitConn == Init => ConnectionInv
<1> SUFFICES ASSUME Init PROVE ConnectionInv
  OBVIOUS
<1>1. TypeOK /\ HandlerOK
  BY InitType
<1>2. \A s \in Slots : dls[s].commFd = InvalidFd /\ dls[s].specificEid = NoEid
  BY DEF Init, Placed, Blank, NewDlsInfo, PidInEid
<1>3. SocketsOK
  BY EmptySeq DEF Init, SocketsOK
<1>4. RecordsOK /\ ConnectedIsRunning
  BY <1>1, <1>2 DEF RecordsOK, ConnectedIsRunning, TypeOK
<1> QED
  BY <1>1, <1>3, <1>4 DEF ConnectionInv

LEMMA ConnectionStep ==
  ASSUME ConnectionInv, Next
  PROVE  ConnectionInv'
<1> USE DEF ConnectionInv
<1>1. TypeOK' /\ HandlerOK'
  BY TypeStep, HandlerStep
<1>2. CASE SchedStep
  BY <1>1, <1>2, BootConn, ReceiveConn, HandlerConn, AcceptConn DEF SchedStep
<1>3. CASE Sigterm
  BY <1>1, <1>3, CleanSchedConn DEF Sigterm
<1>4. CASE \E s \in Slots : ServerFdReadable(s)
  BY <1>1, <1>4, ServerFdConn
<1>5. CASE \E p \in Pids : AppStep(p)
  BY <1>1, <1>5, AppConn
<1> QED
  BY <1>2, <1>3, <1>4, <1>5 DEF Next

LEMMA ConnectionStutter ==
  ASSUME ConnectionInv, UNCHANGED vars
  PROVE  ConnectionInv'
<1>1. TypeOK' /\ HandlerOK'
  BY HandlerStutter DEF ConnectionInv
<1>2. SocketsOK' /\ RecordsOK' /\ ConnectedIsRunning'
  BY DEF ConnectionInv, SocketsOK, RecordsOK, ConnectedIsRunning, vars, listVars, sockVars
<1> QED
  BY <1>1, <1>2 DEF ConnectionInv

LEMMA ConnectionInvariant == Spec => []ConnectionInv
<1>1. Init => ConnectionInv
  BY InitConn
<1>2. ConnectionInv /\ [Next]_vars => ConnectionInv'
  BY ConnectionStep, ConnectionStutter
<1> QED
  BY <1>1, <1>2, PTL DEF Spec

(* A connection belongs to exactly one record, which is RUNNING, has       *)
(* nothing queued and is the record of the entity of the process at the    *)
(* other end: getDlsInfoByCommFd never hands a message to the wrong        *)
(* record, for any table, any number of processes and any interleaving of  *)
(* launches, connections, stops, crashes and restarts.                     *)
THEOREM ConnectionsCorrect == Spec => []ConnectedIsRunning
<1>1. ConnectionInv => ConnectedIsRunning
  BY DEF ConnectionInv
<1> QED
  BY <1>1, ConnectionInvariant, PTL
=============================================================================
