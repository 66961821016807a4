-------------------------- MODULE SchedRecordProofs --------------------------
(***************************************************************************)
(* What holds of the list of DlsInfo records, of the event interests and   *)
(* of the processes behind the records, for every entity table, every set  *)
(* of requests and any number of processes and records.                    *)
(***************************************************************************)
EXTENDS SchedProofs, FiniteSetTheorems

-----------------------------------------------------------------------------
(* What the operations on one record do to its server fd, its specific eid *)
(* and its pid.                                                            *)

(* insertDlsInfoEntry: the server fd of a new record is watched.           *)
LEMMA NewDlsInfoSane ==
  ASSUME NEW a, a[2] \in Entities
  PROVE  /\ Sane(NewDlsInfo(a)) /\ Linked(NewDlsInfo(a))
         /\ NewDlsInfo(a).eid = a[2] /\ NewDlsInfo(a).pid = InvalidPid
         /\ NewDlsInfo(a).state = "NOT_RUNNING"
         /\ NewDlsInfo(a).numEventInterestRequested = 0
<1>1. Serves(a[2]) => OpensSocket(a[2]) \/ "CONSOLE" \in Flags[a[2]]
  <2>1. "SERVER" # "EXE"
    OBVIOUS
  <2> QED
    BY <2>1 DEF Serves, OpensSocket
<1>2. /\ NewDlsInfo(a).eid = a[2] /\ NewDlsInfo(a).state = "NOT_RUNNING"
      /\ NewDlsInfo(a).specificEid = NoEid /\ NewDlsInfo(a).pid = InvalidPid
      /\ NewDlsInfo(a).monitored = (OpensSocket(a[2]) \/ "CONSOLE" \in Flags[a[2]])
      /\ NewDlsInfo(a).numEventInterestRequested = 0
  BY DEF NewDlsInfo, PidInEid
<1> QED
  BY <1>1, <1>2 DEF Sane, Watched, Linked

LEMMA BlankSane == Sane(Blank) /\ Linked(Blank)
BY AnyEntityType, NewDlsInfoSane, Generic(AnyEntity)[2] = AnyEntity DEF Blank, Generic

LEMMA LaunchedSane ==
  ASSUME NEW d \in DlsInfo, NEW p \in PidValue, Sane(d), "EXE" \in Flags[d.eid],
         p # InvalidPid \/ EarlyFailures
  PROVE  /\ Sane(Launched(d, p)) /\ Linked(Launched(d, p))
         /\ Launched(d, p).eid = d.eid /\ Launched(d, p).pid = p
         /\ Launched(d, p).state # "NOT_RUNNING"
         /\ Launched(d, p).numEventInterestRequested = d.numEventInterestRequested
<1>1. /\ Launched(d, p).eid = d.eid /\ Launched(d, p).pid = p
      /\ Launched(d, p).state = IF Messaging(d.eid) THEN "LAUNCHED" ELSE "RUNNING"
      /\ Launched(d, p).numEventInterestRequested = d.numEventInterestRequested
      /\ Launched(d, p).specificEid = IF p # InvalidPid /\ Multi(d.eid)
                                        THEN <<p, d.eid>> ELSE d.specificEid
      /\ Launched(d, p).monitored => ~Serves(d.eid)
  BY DEF Launched, DlsInfo, MakeSpecificEid
<1> QED
  BY <1>1 DEF Sane, Watched, Linked

LEMMA QueueMsgSame ==
  ASSUME NEW d \in DlsInfo, NEW m
  PROVE  /\ QueueMsg(d, m).eid = d.eid /\ QueueMsg(d, m).state = d.state
         /\ QueueMsg(d, m).pid = d.pid
         /\ QueueMsg(d, m).numEventInterestRequested = d.numEventInterestRequested
         /\ Sane(QueueMsg(d, m)) <=> Sane(d)
         /\ Linked(QueueMsg(d, m)) <=> Linked(d)
BY DEF QueueMsg, DlsInfo, Sane, Watched, Linked

LEMMA ClosedSame ==
  ASSUME NEW d \in DlsInfo
  PROVE  /\ Closed(d).eid = d.eid /\ Closed(d).pid = d.pid /\ Closed(d).state = d.state
         /\ Closed(d).numEventInterestRequested = d.numEventInterestRequested
         /\ Sane(Closed(d)) <=> Sane(d)
BY DEF Closed, DlsInfo, Sane, Watched

LEMMA ClearedSane ==
  ASSUME NEW d \in DlsInfo
  PROVE  /\ Sane(Cleared(d)) /\ Linked(Cleared(d)) /\ Cleared(d).eid = d.eid
         /\ Cleared(d).numEventInterestRequested = d.numEventInterestRequested
BY DEF Cleared, DlsInfo, Sane, Watched, Linked

-----------------------------------------------------------------------------
(* A slot gets the record r, which stands for the same application as the  *)
(* record d and has the same number of interests.                          *)
Becomes(s, d, r) ==
    /\ r \in DlsInfo /\ dls' = [dls EXCEPT ![s] = r]
    /\ Sane(r) /\ Linked(r)
    /\ r.eid = d.eid
    /\ r.numEventInterestRequested = d.numEventInterestRequested

LEMMA LaunchAppBecomes ==
  ASSUME NEW s \in Slots, NEW d \in DlsInfo, Sane(d), LaunchApp(s, d),
         d.state = "NOT_RUNNING" \/ "EXE" \in Flags[d.eid]
  PROVE  \E r : Becomes(s, d, r)
<1>1. CASE "EXE" \in Flags[d.eid]
  <2>1. PICK p \in SpawnResults : dls' = [dls EXCEPT ![s] = Launched(d, p)]
    BY <1>1 DEF LaunchApp
  <2>2. p \in PidValue /\ (p # InvalidPid \/ EarlyFailures)
    BY DlsAssumption, "-1" # "TCM_INVALID_PID"
       DEF SpawnResults, FreePids, PidValue, InvalidPid, ForkError
  <2>3. Becomes(s, d, Launched(d, p))
    BY <1>1, <2>1, <2>2, LaunchedSane, LaunchedType DEF Becomes
  <2> QED
    BY <2>3
<1>2. CASE "EXE" \notin Flags[d.eid]
  <2>1. dls' = [dls EXCEPT ![s] = d] /\ Linked(d)
    BY <1>2 DEF LaunchApp, Linked
  <2> QED
    BY <2>1 DEF Becomes
<1> QED
  BY <1>1, <1>2

LEMMA SendMessageBecomes ==
  ASSUME NEW s \in Slots, NEW d \in DlsInfo, NEW m \in Msgs, NEW next,
         Sane(d), Linked(d), SendMessageByAppState(s, d, m, next)
  PROVE  \E r : Becomes(s, d, r)
<1>1. /\ QueueMsg(d, m) \in DlsInfo
      /\ QueueMsg(d, m).eid = d.eid /\ QueueMsg(d, m).state = d.state
      /\ QueueMsg(d, m).numEventInterestRequested = d.numEventInterestRequested
      /\ Sane(QueueMsg(d, m)) /\ Linked(QueueMsg(d, m))
  BY QueueMsgType, QueueMsgSame
<1>2. CASE d.state = "NOT_RUNNING" /\ LaunchApp(s, QueueMsg(d, m))
  <2>1. PICK r : Becomes(s, QueueMsg(d, m), r)
    BY <1>1, <1>2, LaunchAppBecomes
  <2>2. Becomes(s, d, r)
    BY <1>1, <2>1 DEF Becomes
  <2> QED
    BY <2>2
<1>3. CASE dls' = [dls EXCEPT ![s] = QueueMsg(d, m)]
  BY <1>1, <1>3 DEF Becomes
<1>4. CASE dls' = [dls EXCEPT ![s] = d]
  BY <1>4 DEF Becomes
<1> QED
  BY <1>2, <1>3, <1>4 DEF SendMessageByAppState

-----------------------------------------------------------------------------
(* The list: records stay, and new ones are of entities that had none.     *)

LEMMA RecordsGrow ==
  ASSUME SingleRecord, InterestsCounted,
         listed \subseteq listed', UNCHANGED interests,
         \A t \in listed :
            /\ dls'[t].eid = dls[t].eid
            /\ dls'[t].numEventInterestRequested = dls[t].numEventInterestRequested,
         \A t \in listed' \ listed :
            /\ dls'[t].eid \in Entities
            /\ dls'[t].numEventInterestRequested = 0
            /\ ~Multi(dls'[t].eid) =>
                 \A u \in listed' : dls'[u].eid = dls'[t].eid => u = t
  PROVE  SingleRecord' /\ InterestsCounted'
<1>1. SingleRecord'
  BY DEF SingleRecord
<1>2. ASSUME NEW t \in listed', ~Multi(dls'[t].eid)
      PROVE  dls'[t].numEventInterestRequested =
               Cardinality({ i \in interests : i.eid = Generic(dls'[t].eid) })
  <2>1. CASE t \in listed
    BY <1>2, <2>1 DEF InterestsCounted
  <2>2. CASE t \notin listed
    <3>1. ASSUME NEW i \in interests, i.eid = Generic(dls'[t].eid)
          PROVE  FALSE
      <4>1. PICK u \in listed : Generic(dls[u].eid) = i.eid
        BY <2>2, <3>1 DEF InterestsCounted
      <4>2. dls'[u].eid = dls'[t].eid
        BY <3>1, <4>1 DEF Generic
      <4> QED
        BY <1>2, <2>2, <4>2
    <3>2. { i \in interests : i.eid = Generic(dls'[t].eid) } = {}
      BY <3>1
    <3> QED
      BY <2>2, <3>2, FS_EmptySet
  <2> QED
    BY <2>1, <2>2
<1>3. ASSUME NEW i \in interests, i.eid \in { Generic(e) : e \in Entities }
      PROVE  \E u \in listed' : Generic(dls'[u].eid) = i.eid
  BY <1>3 DEF InterestsCounted
<1> QED
  BY <1>1, <1>2, <1>3 DEF InterestsCounted

(* The record d is the one of slot s, or one for an entity without record. *)
Stands(s, d) ==
    \/ s \in listed /\ d = dls[s]
    \/ /\ s \notin listed /\ d.numEventInterestRequested = 0
       /\ ~Multi(d.eid) => \A t \in listed : dls[t].eid # d.eid

RecordsHold == RecordsSane /\ SingleRecord /\ InterestsCounted

LEMMA RecordUpdate ==
  ASSUME TypeOK, RecordsHold, NEW s \in Slots, NEW d, NEW r, Becomes(s, d, r),
         Stands(s, d), listed' = listed \cup {s}, UNCHANGED interests,
         \A t \in Slots \ {s} : Linked(dls[t])
  PROVE  RecordsHold'
<1>1. \A t \in Slots : dls'[t] = IF t = s THEN r ELSE dls[t]
  BY DEF Becomes, TypeOK
<1>2. RecordsSane'
  BY <1>1 DEF RecordsHold, RecordsSane, Becomes
<1>3. \A t \in listed : t \in Slots
  BY DEF TypeOK
<1>4. \A t \in listed :
        /\ dls'[t].eid = dls[t].eid
        /\ dls'[t].numEventInterestRequested = dls[t].numEventInterestRequested
  BY <1>1, <1>3 DEF Stands, Becomes
<1>5. ASSUME NEW t \in listed' \ listed
      PROVE  /\ dls'[t].eid \in Entities
             /\ dls'[t].numEventInterestRequested = 0
             /\ ~Multi(dls'[t].eid) =>
                  \A u \in listed' : dls'[u].eid = dls'[t].eid => u = t
  <2>1. t = s /\ s \notin listed
    OBVIOUS
  <2>2. dls'[t] = r /\ r.eid = d.eid /\ r.eid \in Entities
    BY <1>1, <2>1 DEF Becomes, DlsInfo
  <2> QED
    BY <1>4, <2>1, <2>2 DEF Stands, Becomes
<1> QED
  BY <1>2, <1>4, <1>5, RecordsGrow DEF RecordsHold

(* Nothing changes in the list.                                            *)
LEMMA RecordsKept ==
  ASSUME RecordsHold, UNCHANGED <<listed, dls, interests>>,
         pc \in Down => pc' \in Down,
         \A s \in Slots : Collecting(s) => Collecting(s)'
  PROVE  RecordsHold'
<1>1. RecordsSane'
  BY DEF RecordsHold, RecordsSane
<1>2. SingleRecord' /\ InterestsCounted'
  BY DEF RecordsHold, SingleRecord, InterestsCounted
<1> QED
  BY <1>1, <1>2 DEF RecordsHold

CollectPcs == {"collect", "kill", "finish"}

LEMMA AllLinked ==
  ASSUME RecordsHold, pc \notin Down \cup CollectPcs, NEW s \in Slots
  PROVE  Linked(dls[s]) /\ ~Collecting(s)
BY DEF RecordsHold, RecordsSane, Collecting, CollectPcs

(* getDlsInfo makes a record only for an entity that has none, because an  *)
(* address with a pid in it is one of a multiple-instance application.     *)
LEMMA GetNewDlsInfoStands ==
  ASSUME TypeOK, NEW a, NEW s \in GetNewDlsInfo(a),
         ~Multi(a[2]) => a = Generic(a[2]) /\ GetExistingDlsInfo(a) = {}
  PROVE  /\ Stands(s, DlsInfoAt(s, a))
         /\ Sane(DlsInfoAt(s, a)) /\ Linked(DlsInfoAt(s, a))
<1>1. a[2] \in Entities /\ s \notin listed
  BY DEF GetNewDlsInfo, CanInsert
<1>2. DlsInfoAt(s, a) = NewDlsInfo(a)
  BY <1>1 DEF DlsInfoAt
<1>3. ASSUME ~Multi(a[2]), NEW t \in listed, dls[t].eid = a[2]
      PROVE  FALSE
  <2>1. KeyOf(dls[t]) = a
    BY <1>3 DEF KeyOf
  <2> QED
    BY <1>3, <2>1 DEF GetExistingDlsInfo
<1> QED
  BY <1>1, <1>2, <1>3, NewDlsInfoSane DEF Stands

LEMMA GetDlsInfoStands ==
  ASSUME TypeOK, RecordsHold, NEW a \in Addr, ProperAddr(a), NEW s \in GetDlsInfo(a)
  PROVE  /\ s \in Slots /\ DlsInfoAt(s, a) \in DlsInfo
         /\ Stands(s, DlsInfoAt(s, a)) /\ Sane(DlsInfoAt(s, a))
         /\ Linked(dls[s]) => Linked(DlsInfoAt(s, a))
<1>1. s \in Slots /\ DlsInfoAt(s, a) \in DlsInfo
  BY GetDlsInfoType
<1>2. CASE s \in listed
  BY <1>1, <1>2 DEF DlsInfoAt, Stands, RecordsHold, RecordsSane
<1>3. CASE s \notin listed
  <2>1. s \in GetNewDlsInfo(a) /\ GetExistingDlsInfo(a) = {}
    BY <1>3 DEF GetDlsInfo, GetExistingDlsInfo
  <2>2. a[2] \in Entities
    BY <2>1 DEF GetNewDlsInfo, CanInsert
  <2> QED
    BY <1>1, <2>1, <2>2, GetNewDlsInfoStands DEF ProperAddr
<1> QED
  BY <1>2, <1>3

-----------------------------------------------------------------------------
(* Registrations: an application adds or removes one of its own.           *)

LEMMA RegisterResults ==
  ASSUME NEW m, NEW o \in RegisterOutcomes(m), o.res # "segv"
  PROVE  \/ o.res = "refused" /\ o.ints = interests
         \/ /\ o.res = "ok" /\ m.type = "REGISTER"
            /\ FindInfo(interests, m.evt, m.src) = {}
            /\ o.ints = interests \cup
                 {[type |-> m.evt, eid |-> m.src, matchData |-> m.data]}
         \/ /\ o.res = "ok" /\ m.type # "REGISTER"
            /\ FindInfo(interests, m.evt, m.src) # {}
            /\ o.ints = interests \ FindInfo(interests, m.evt, m.src)
<1>1. CASE m.type = "REGISTER"
  BY <1>1 DEF RegisterOutcomes, InterestRegister, Miss, Outcome
<1>2. CASE m.type # "REGISTER"
  BY <1>2 DEF RegisterOutcomes, InterestUnregister, Miss, Outcome
<1> QED
  BY <1>1, <1>2

(* The registrations of a single-instance application.                     *)
Mine(ints, e) == { i \in ints : i.eid = Generic(e) }

LEMMA RegisterCount ==
  ASSUME RegistrationsOK, NEW m, NEW e, m.src = Generic(e),
         NEW o \in RegisterOutcomes(m), o.res # "segv"
  PROVE  Cardinality(Mine(o.ints, e)) =
           Cardinality(Mine(interests, e)) + Delta(m, o.res)
<1>1. IsFiniteSet(Mine(interests, e)) /\ Cardinality(Mine(interests, e)) \in Nat
  <2>1. Mine(interests, e) \subseteq interests
    BY DEF Mine
  <2> QED
    BY <2>1, FS_Subset, FS_CardinalityType DEF RegistrationsOK
<1>2. CASE o.res = "refused" /\ o.ints = interests
  BY <1>1, <1>2 DEF Delta
<1>3. CASE /\ o.res = "ok" /\ m.type = "REGISTER"
           /\ FindInfo(interests, m.evt, m.src) = {}
           /\ o.ints = interests \cup
                {[type |-> m.evt, eid |-> m.src, matchData |-> m.data]}
  <2> DEFINE x == [type |-> m.evt, eid |-> m.src, matchData |-> m.data]
  <2>1. x \notin interests
    BY <1>3 DEF FindInfo, FindByType
  <2>2. Mine(o.ints, e) = Mine(interests, e) \cup {x} /\ x \notin Mine(interests, e)
    BY <1>3, <2>1 DEF Mine
  <2>3. Cardinality(Mine(interests, e) \cup {x}) = Cardinality(Mine(interests, e)) + 1
    BY <1>1, <2>2, FS_AddElement
  <2> QED
    BY <1>3, <2>2, <2>3 DEF Delta
<1>4. CASE /\ o.res = "ok" /\ m.type # "REGISTER"
           /\ FindInfo(interests, m.evt, m.src) # {}
           /\ o.ints = interests \ FindInfo(interests, m.evt, m.src)
  <2>1. PICK x : x \in FindInfo(interests, m.evt, m.src)
    BY <1>4
  <2>2. x \in interests /\ x.type = m.evt /\ x.eid = m.src
    BY <2>1 DEF FindInfo, FindByType
  <2>3. FindInfo(interests, m.evt, m.src) = {x}
    BY <2>1, <2>2 DEF FindInfo, FindByType, RegistrationsOK
  <2>4. Mine(o.ints, e) = Mine(interests, e) \ {x} /\ x \in Mine(interests, e)
    BY <1>4, <2>2, <2>3 DEF Mine
  <2>5. Cardinality(Mine(interests, e) \ {x}) = Cardinality(Mine(interests, e)) - 1
    BY <1>1, <2>4, FS_RemoveElement
  <2> QED
    BY <1>1, <1>4, <2>4, <2>5 DEF Delta
<1> QED
  BY <1>2, <1>3, <1>4, RegisterResults

LEMMA RegisterOthers ==
  ASSUME NEW m, NEW o \in RegisterOutcomes(m), o.res # "segv"
  PROVE  /\ \A i \in o.ints : i.eid # m.src => i \in interests
         /\ \A i \in interests : i.eid # m.src => i \in o.ints
BY RegisterResults DEF FindInfo, FindByType

(* The message sched is about to handle comes from the application of the  *)
(* record of its connection.                                               *)
LEMMA IncomingIsSigned ==
  ASSUME ConnectionInv, MessagesOK, NEW s \in Slots, Readable(s),
         "requeue" \notin Incoming(s).flags
  PROVE  /\ dls[s].commFd \in Pids
         /\ Incoming(s).src = OwnAddr(dls[s].commFd, dls[s].eid)
         /\ ProperAddr(Incoming(s).dst)
<1> USE DEF ConnectionInv
<1>1. dls[s].commFd \in Pids /\ proc[dls[s].commFd].eid = dls[s].eid
  <2>1. s \in listed /\ dls[s].commFd # InvalidFd
    BY DEF Readable
  <2> QED
    BY <2>1, IncomingType DEF ConnectedIsRunning
<1>2. 1 \in 1..Len(toSched[dls[s].commFd])
  <2>1. toSched[dls[s].commFd] \in Seq(Msgs) /\ toSched[dls[s].commFd] # << >>
    BY <1>1 DEF TypeOK, Readable
  <2> QED
    BY <2>1, EmptySeq
<1>3. Incoming(s) = toSched[dls[s].commFd][1]
  BY <1>2 DEF Incoming
<1> QED
  BY <1>1, <1>2, <1>3 DEF MessagesOK

(* sched_processRegisterEventInterest keeps the count what it counts.      *)
LEMMA RegisterRecords ==
  ASSUME ConnectionInv, MessagesOK, RegistrationsOK, RecordsHold,
         NEW s \in Slots, RecvRegister(s)
  PROVE  RecordsHold'
<1> DEFINE m == Incoming(s)
           p == dls[s].commFd
<1>1. /\ Readable(s) /\ "requeue" \notin m.flags /\ s \in listed /\ pc = "select"
      /\ UNCHANGED <<listed, job>>
  BY DEF RecvRegister, IsForSched, Readable
<1>2. p \in Pids /\ m.src = OwnAddr(p, dls[s].eid)
  BY <1>1, IncomingIsSigned
<1>3. \A t \in Slots : Linked(dls[t])
  BY <1>1, AllLinked DEF Down, CollectPcs
<1>4. CASE UNCHANGED <<interests, dls>>
  BY <1>1, <1>4, RecordsKept DEF Down, Collecting
<1>5. ASSUME NEW o \in RegisterOutcomes(m), o.res # "segv", interests' = o.ints,
             dls' = [dls EXCEPT ![s].numEventInterestRequested = @ + Delta(m, o.res)]
      PROVE  RecordsHold'
  <2>1. dls[s] \in DlsInfo /\ \A t \in listed : t \in Slots /\ dls[t].eid \in Entities
    BY DEF ConnectionInv, TypeOK, DlsInfo
  <2>2. \A t \in Slots :
          /\ dls'[t].eid = dls[t].eid /\ dls'[t].state = dls[t].state
          /\ dls'[t].commFd = dls[t].commFd /\ dls'[t].pid = dls[t].pid
          /\ dls'[t].specificEid = dls[t].specificEid
          /\ dls'[t].monitored = dls[t].monitored
          /\ t # s => dls'[t] = dls[t]
    <3>1. \A t \in Slots : dls[t] \in DlsInfo
      BY DEF ConnectionInv, TypeOK
    <3>2. \A t \in Slots \ {s} : dls'[t] = dls[t]
      BY <1>5 DEF ConnectionInv, TypeOK
    <3>3. dls'[s] = [dls[s] EXCEPT !.numEventInterestRequested = @ + Delta(m, o.res)]
      BY <1>5 DEF ConnectionInv, TypeOK
    <3> QED
      BY <3>1, <3>2, <3>3 DEF DlsInfo
  <2>3. dls'[s].numEventInterestRequested =
          dls[s].numEventInterestRequested + Delta(m, o.res)
    BY <1>5, <2>1 DEF ConnectionInv, TypeOK, DlsInfo
  <2>4. RecordsSane'
    <3>1. \A t \in Slots : Sane(dls[t])
      BY DEF RecordsHold, RecordsSane
    <3>2. ASSUME NEW t \in Slots
          PROVE  Sane(dls'[t]) /\ Linked(dls'[t])
      BY <1>3, <2>2, <3>1 DEF Sane, Watched, Linked
    <3> QED
      BY <3>2 DEF RecordsSane
  <2>5. SingleRecord'
    BY <1>1, <2>1, <2>2 DEF RecordsHold, SingleRecord
  <2>6. \A i \in interests' : i.eid # m.src => i \in interests
    BY <1>5, RegisterOthers
  <2>7. \A i \in interests : i.eid # m.src => i \in interests'
    BY <1>5, RegisterOthers
  <2>8. ASSUME NEW t \in listed, ~Multi(dls[t].eid)
        PROVE  dls'[t].numEventInterestRequested =
                 Cardinality({ i \in interests' : i.eid = Generic(dls[t].eid) })
    <3>1. dls[t].numEventInterestRequested =
            Cardinality({ i \in interests : i.eid = Generic(dls[t].eid) })
      BY <2>8 DEF RecordsHold, InterestsCounted
    <3>2. CASE t = s
      <4>1. m.src = Generic(dls[s].eid)
        BY <1>2, <2>8, <3>2 DEF OwnAddr
      <4>2. Cardinality(Mine(o.ints, dls[s].eid)) =
              Cardinality(Mine(interests, dls[s].eid)) + Delta(m, o.res)
        BY <1>5, <4>1, RegisterCount
      <4> QED
        BY <1>5, <2>3, <3>1, <3>2, <4>2 DEF Mine
    <3>3. CASE t # s
      <4>1. Generic(dls[t].eid) # m.src
        <5>1. CASE Multi(dls[s].eid)
          BY <1>2, <5>1, DlsAssumption DEF OwnAddr, MakeSpecificEid, Generic
        <5>2. CASE ~Multi(dls[s].eid)
          BY <1>1, <1>2, <3>3, <5>2 DEF OwnAddr, Generic, RecordsHold, SingleRecord
        <5> QED
          BY <5>1, <5>2
      <4>2. { i \in interests' : i.eid = Generic(dls[t].eid) }
              = { i \in interests : i.eid = Generic(dls[t].eid) }
        BY <2>6, <2>7, <4>1
      <4> QED
        BY <2>1, <2>2, <3>1, <3>3, <4>2
    <3> QED
      BY <3>2, <3>3
  <2>9. ASSUME NEW i \in interests', i.eid \in { Generic(e) : e \in Entities }
        PROVE  \E t \in listed : Generic(dls[t].eid) = i.eid
    <3>1. CASE i.eid = m.src
      <4>1. ~Multi(dls[s].eid)
        BY <1>2, <2>9, <3>1, DlsAssumption DEF OwnAddr, MakeSpecificEid, Generic
      <4> QED
        BY <1>1, <1>2, <3>1, <4>1 DEF OwnAddr
    <3>2. CASE i.eid # m.src
      BY <2>6, <2>9, <3>2 DEF RecordsHold, InterestsCounted
    <3> QED
      BY <3>1, <3>2
  <2>10. InterestsCounted'
    BY <1>1, <2>1, <2>2, <2>8, <2>9 DEF InterestsCounted
  <2> QED
    BY <2>4, <2>5, <2>10 DEF RecordsHold
<1> QED
  BY <1>4, <1>5 DEF RecvRegister

-----------------------------------------------------------------------------
(* The steps of sched, one group at a time.                                *)

LEMMA CleanSchedRecords ==
  ASSUME CleanSched
  PROVE  RecordsHold'
<1>1. \A t \in Slots : dls'[t] = Blank
  BY DEF CleanSched
<1>2. listed' = {} /\ interests' = {}
  BY DEF CleanSched
<1> QED
  BY <1>1, <1>2, BlankSane DEF RecordsHold, RecordsSane, SingleRecord, InterestsCounted

LEMMA BootMsgType ==
  ASSUME NEW e \in Entities
  PROVE  BootMsg(e) \in Msgs
<1>1. Generic(e) \in Addr
  BY DEF Generic, Addr, PidValue
<1>2. "SYSTEM_BOOT" \in MsgTypes /\ {"event"} \in SUBSET MsgFlags
  BY DEF MsgTypes, SchedMsgTypes, MsgFlags
<1> QED
  BY <1>1, <1>2, EmptyMsgHeaderType DEF BootMsg, Msgs

LEMMA BootRecords ==
  ASSUME ConnectionInv, TypeOK', LocalsOK, RecordsHold, SchedBoot
  PROVE  RecordsHold'
<1> USE DEF ConnectionInv
<1>1. ASSUME NEW s \in Slots, AppLauncher(s)
      PROVE  RecordsHold'
  <2>1. /\ pc \in {"launch1", "launch2"} /\ s \in listed
        /\ listed' = listed \cup {s} /\ UNCHANGED <<listed, interests>>
    BY <1>1 DEF AppLauncher, LocalsOK
  <2>2. \A t \in Slots : Linked(dls[t]) /\ ~Collecting(t)
    BY <2>1, AllLinked DEF Down, CollectPcs
  <2>3. /\ dls[s] \in DlsInfo /\ Sane(dls[s]) /\ Stands(s, dls[s])
        /\ BootMsg(dls[s].eid) \in Msgs
    BY <2>1, BootMsgType DEF RecordsHold, RecordsSane, Stands, TypeOK, DlsInfo
  <2>4. CASE SendMessageByAppState(s, dls[s], BootMsg(dls[s].eid), pc)
    <3>1. PICK r : Becomes(s, dls[s], r)
      BY <2>2, <2>3, <2>4, SendMessageBecomes
    <3> QED
      BY <2>1, <2>2, <2>3, <3>1, RecordUpdate
  <2>5. CASE dls[s].state = "NOT_RUNNING" /\ LaunchApp(s, dls[s])
    <3>1. PICK r : Becomes(s, dls[s], r)
      BY <2>3, <2>5, LaunchAppBecomes
    <3> QED
      BY <2>1, <2>2, <2>3, <3>1, RecordUpdate
  <2>6. CASE UNCHANGED dls
    BY <2>1, <2>2, <2>6, RecordsKept DEF Down
  <2> QED
    BY <1>1, <2>4, <2>5, <2>6 DEF AppLauncher
<1>2. ASSUME InitDls2
      PROVE  RecordsHold'
  <2>1. PICK f \in Placement(Stage2, Slots \ listed) :
          /\ listed' = listed \cup { f[e] : e \in Stage2 }
          /\ dls' = Placed(dls, Stage2, f)
    BY <1>2 DEF InitDls2
  <2>2. /\ f \in [Stage2 -> Slots \ listed]
        /\ \A d, e \in Stage2 : f[d] = f[e] => d = e
    BY DEF Placement
  <2>3. \A e \in Stage2 : e \in Entities
    BY DEF Stage2
  <2>4. pc = "launch1" /\ UNCHANGED interests
    BY <1>2 DEF InitDls2
  <2>5. \A t \in Slots : Linked(dls[t]) /\ Sane(dls[t])
    BY <2>4, AllLinked DEF RecordsHold, RecordsSane, Down, CollectPcs
  <2>6. ASSUME NEW t \in Slots, ~ \E e \in Stage2 : f[e] = t
        PROVE  dls'[t] = dls[t]
    BY <2>1, <2>6 DEF Placed
  <2>7. ASSUME NEW e \in Stage2
        PROVE  dls'[f[e]] = NewDlsInfo(Generic(e)) /\ f[e] \in Slots
    <3>1. f[e] \in Slots
      BY <2>2
    <3>2. (CHOOSE x \in Stage2 : f[x] = f[e]) = e
      BY <2>2
    <3> QED
      BY <2>1, <3>1, <3>2 DEF Placed
  <2>8. ASSUME NEW e \in Stage2
        PROVE  /\ Sane(dls'[f[e]]) /\ Linked(dls'[f[e]]) /\ dls'[f[e]].eid = e
               /\ dls'[f[e]].numEventInterestRequested = 0
    BY <2>3, <2>7, NewDlsInfoSane, Generic(e)[2] = e DEF Generic
  <2>9. RecordsSane'
    BY <2>5, <2>6, <2>8 DEF RecordsSane
  <2>10. \A t \in listed : dls'[t] = dls[t]
    BY <2>2, <2>6 DEF TypeOK
  <2>11. ASSUME NEW t \in listed' \ listed
         PROVE  /\ dls'[t].eid \in Entities
                /\ dls'[t].numEventInterestRequested = 0
                /\ ~Multi(dls'[t].eid) =>
                     \A u \in listed' : dls'[u].eid = dls'[t].eid => u = t
    <3>1. PICK e \in Stage2 : f[e] = t
      BY <2>1
    <3>2. ASSUME ~Multi(e), NEW u \in listed', dls'[u].eid = e
          PROVE  u = t
      <4>1. CASE u \in listed
        <5>1. KeyOf(dls[u]) = Generic(e)
          BY <2>10, <3>2, <4>1 DEF KeyOf
        <5> QED
          BY <4>1, <5>1 DEF Stage2, GetExistingDlsInfo
      <4>2. CASE u \notin listed
        <5>1. PICK x \in Stage2 : f[x] = u
          BY <2>1, <4>2
        <5> QED
          BY <2>8, <3>1, <3>2, <5>1
      <4> QED
        BY <4>1, <4>2
    <3> QED
      BY <2>3, <2>8, <3>1, <3>2
  <2>12. SingleRecord' /\ InterestsCounted'
    BY <2>1, <2>4, <2>10, <2>11, RecordsGrow DEF RecordsHold
  <2> QED
    BY <2>9, <2>12 DEF RecordsHold
<1>3. ASSUME InitDls2Fails
      PROVE  RecordsHold'
  BY <1>3, CleanSchedRecords DEF InitDls2Fails
<1>4. ASSUME BootDone
      PROVE  RecordsHold'
  BY <1>4, RecordsKept DEF BootDone, listVars, Down, Collecting
<1> QED
  BY <1>1, <1>2, <1>3, <1>4 DEF SchedBoot

LEMMA ReceiveRecords ==
  ASSUME ConnectionInv, MessagesOK, RegistrationsOK, RecordsHold,
         NEW s \in Slots, SchedReceive(s)
  PROVE  RecordsHold'
<1>1. pc = "select"
  BY DEF SchedReceive, RecvRequeue, RecvEvent, RecvRegister, RecvIsAppRunning,
         RecvAppControl, RecvOther, RouteMessage, Readable, Disconnected
<1>2. \A t \in Slots : Linked(dls[t]) /\ Sane(dls[t]) /\ ~Collecting(t)
  BY <1>1, AllLinked DEF RecordsHold, RecordsSane, Down, CollectPcs
<1>3. ASSUME UNCHANGED <<listed, dls, interests>>
      PROVE  RecordsHold'
  BY <1>1, <1>2, <1>3, RecordsKept DEF Down
<1>4. CASE RecvRequeue(s) \/ RecvEvent(s) \/ RecvIsAppRunning(s)
           \/ RecvAppControl(s) \/ RecvOther(s)
  BY <1>3, <1>4 DEF RecvRequeue, RecvEvent, RecvIsAppRunning, RecvAppControl,
                    RecvOther, listVars
<1>5. CASE RecvRegister(s)
  BY <1>5, RegisterRecords
<1>6. CASE RouteMessage(s)
  <2>1. /\ Incoming(s) \in Msgs /\ Incoming(s).dst \in Addr
        /\ ProperAddr(Incoming(s).dst) /\ UNCHANGED interests
    <3>1. Incoming(s) \in Msgs
      BY <1>6, IncomingType DEF RouteMessage, ConnectionInv
    <3>2. Readable(s) /\ "requeue" \notin Incoming(s).flags
      BY <1>6 DEF RouteMessage
    <3> QED
      BY <1>6, <3>1, <3>2, IncomingIsSigned DEF RouteMessage, Msgs
  <2>2. CASE UNCHANGED <<listed, dls>>
    BY <1>3, <2>1, <2>2
  <2>3. ASSUME NEW t \in GetDlsInfo(Incoming(s).dst), listed' = listed \cup {t},
               SendMessageByAppState(t, DlsInfoAt(t, Incoming(s).dst),
                                     Incoming(s), "select")
        PROVE  RecordsHold'
    <3> DEFINE d == DlsInfoAt(t, Incoming(s).dst)
    <3>1. t \in Slots /\ d \in DlsInfo /\ Stands(t, d) /\ Sane(d) /\ Linked(d)
      BY <1>2, <2>1, GetDlsInfoStands DEF ConnectionInv
    <3>2. PICK r : Becomes(t, d, r)
      BY <2>1, <2>3, <3>1, SendMessageBecomes
    <3> QED
      BY <1>2, <2>1, <2>3, <3>1, <3>2, RecordUpdate DEF ConnectionInv
  <2> QED
    BY <1>6, <2>2, <2>3 DEF RouteMessage, Bounce, Forward
<1>7. CASE Disconnected(s)
  <2>1. /\ dls' = [dls EXCEPT ![s] = Closed(dls[s])] /\ UNCHANGED <<listed, interests>>
        /\ pc' = "collect" /\ job' = [NoJob EXCEPT !.target = s]
    BY <1>7 DEF Disconnected
  <2>2. /\ dls[s] \in DlsInfo
        /\ \A t \in Slots : dls'[t] = IF t = s THEN Closed(dls[s]) ELSE dls[t]
    BY <2>1 DEF ConnectionInv, TypeOK
  <2>3. Collecting(s)'
    BY <2>1 DEF Collecting, NoJob
  <2>4. RecordsSane'
    BY <1>2, <2>2, <2>3, ClosedSame DEF RecordsSane
  <2>5. \A t \in listed :
          /\ dls'[t].eid = dls[t].eid
          /\ dls'[t].numEventInterestRequested = dls[t].numEventInterestRequested
    BY <2>2, ClosedSame DEF ConnectionInv, TypeOK
  <2>6. SingleRecord' /\ InterestsCounted'
    BY <2>1, <2>5, RecordsGrow DEF RecordsHold
  <2> QED
    BY <2>4, <2>6 DEF RecordsHold
<1> QED
  BY <1>4, <1>5, <1>6, <1>7 DEF SchedReceive

(* collectApp frees a record: of a single-instance application only one    *)
(* without interests, and the registrations removed with the record of an  *)
(* instance are those of that instance.                                    *)
LEMMA FreeRecords ==
  ASSUME ConnectionInv, RegistrationsOK, RecordsHold, NEW s \in listed,
         Freeable(dls[s]), \A t \in Slots \ {s} : Linked(dls[t]),
         interests' = { i \in interests : i.eid # KeyOf(dls[s]) },
         listed' = listed \ {s}, dls' = [dls EXCEPT ![s] = Blank]
  PROVE  RecordsHold'
<1>1. /\ s \in Slots /\ dls[s].eid \in Entities
      /\ \A t \in Slots : dls'[t] = IF t = s THEN Blank ELSE dls[t]
  BY DEF ConnectionInv, TypeOK, DlsInfo
<1>2. RecordsSane'
  BY <1>1, BlankSane DEF RecordsHold, RecordsSane
<1>3. \A t \in listed' : t \in listed /\ t # s /\ dls'[t] = dls[t]
  BY <1>1 DEF ConnectionInv, TypeOK
<1>4. SingleRecord'
  BY <1>3 DEF RecordsHold, SingleRecord
<1>5. CASE Multi(dls[s].eid)
  <2>1. ASSUME NEW e \in Entities
        PROVE  KeyOf(dls[s]) # Generic(e)
    <3>1. KeyOf(dls[s]) = dls[s].specificEid
      BY <1>5 DEF KeyOf
    <3>2. CASE dls[s].specificEid = NoEid
      BY <3>1, <3>2, DlsAssumption DEF NoEid, Generic
    <3>3. CASE dls[s].specificEid # NoEid
      <4>1. dls[s].specificEid[1] # InvalidPid
        BY <1>1, <3>3 DEF RecordsHold, RecordsSane, Sane
      <4> QED
        BY <3>1, <4>1 DEF Generic
    <3> QED
      BY <3>2, <3>3
  <2>2. ASSUME NEW e \in Entities
        PROVE  { i \in interests' : i.eid = Generic(e) }
                 = { i \in interests : i.eid = Generic(e) }
    BY <2>1
  <2>3. ASSUME NEW t \in listed', ~Multi(dls'[t].eid)
        PROVE  dls'[t].numEventInterestRequested =
                 Cardinality({ i \in interests' : i.eid = Generic(dls'[t].eid) })
    <3>1. dls[t].eid \in Entities
      BY <1>3 DEF ConnectionInv, TypeOK, DlsInfo
    <3>2. t \in listed /\ dls'[t] = dls[t]
      BY <1>3
    <3>3. dls[t].numEventInterestRequested =
            Cardinality({ i \in interests : i.eid = Generic(dls[t].eid) })
      BY <2>3, <3>2 DEF RecordsHold, InterestsCounted
    <3> QED
      BY <2>2, <3>1, <3>2, <3>3
  <2>4. ASSUME NEW i \in interests', NEW e \in Entities, i.eid = Generic(e)
        PROVE  \E t \in listed' : Generic(dls'[t].eid) = i.eid
    <3>1. \A j \in interests \cup job.todo :
            \E p \in Pids : \E x \in Entities : j.eid = OwnAddr(p, x)
      BY DEF RegistrationsOK
    <3>2. PICK p \in Pids, x \in Entities : i.eid = OwnAddr(p, x)
      BY <3>1
    <3>3. ~Multi(e)
      BY <2>4, <3>2, DlsAssumption DEF OwnAddr, MakeSpecificEid, Generic
    <3>4. PICK t \in listed : Generic(dls[t].eid) = i.eid
      BY <2>4 DEF RecordsHold, InterestsCounted
    <3>5. dls[t].eid = e
      BY <2>4, <3>4 DEF Generic
    <3>6. t \in listed'
      BY <1>5, <3>3, <3>5
    <3> QED
      BY <1>3, <3>4, <3>6
  <2>5. InterestsCounted'
    BY <2>3, <2>4 DEF InterestsCounted
  <2> QED
    BY <1>2, <1>4, <2>5 DEF RecordsHold
<1>6. CASE ~Multi(dls[s].eid)
  <2>1. Mine(interests, dls[s].eid) = {}
    <3>1. Cardinality(Mine(interests, dls[s].eid)) = 0
      BY <1>6 DEF Freeable, RecordsHold, InterestsCounted, Mine
    <3>2. IsFiniteSet(Mine(interests, dls[s].eid))
      BY FS_Subset, Mine(interests, dls[s].eid) \subseteq interests
         DEF RegistrationsOK, Mine
    <3> QED
      BY <3>1, <3>2, FS_EmptySet
  <2>2. KeyOf(dls[s]) = Generic(dls[s].eid)
    BY <1>6 DEF KeyOf
  <2>3. interests' = interests
    BY <2>1, <2>2 DEF Mine
  <2>4. ASSUME NEW t \in listed', ~Multi(dls'[t].eid)
        PROVE  dls'[t].numEventInterestRequested =
                 Cardinality({ i \in interests' : i.eid = Generic(dls'[t].eid) })
    <3>1. t \in listed /\ dls'[t] = dls[t]
      BY <1>3
    <3>2. dls[t].numEventInterestRequested =
            Cardinality({ i \in interests : i.eid = Generic(dls[t].eid) })
      BY <2>4, <3>1 DEF RecordsHold, InterestsCounted
    <3> QED
      BY <2>3, <3>1, <3>2
  <2>5. ASSUME NEW i \in interests', i.eid \in { Generic(e) : e \in Entities }
        PROVE  \E t \in listed' : Generic(dls'[t].eid) = i.eid
    <3>1. PICK t \in listed : Generic(dls[t].eid) = i.eid
      BY <2>3, <2>5 DEF RecordsHold, InterestsCounted
    <3>2. t # s
      BY <2>1, <2>3, <3>1 DEF Mine
    <3> QED
      BY <1>3, <3>1, <3>2
  <2>6. InterestsCounted'
    BY <2>4, <2>5 DEF InterestsCounted
  <2> QED
    BY <1>2, <1>4, <2>6 DEF RecordsHold
<1> QED
  BY <1>5, <1>6

LEMMA UnregisterAllResults ==
  ASSUME NEW a, NEW o \in InterestUnregisterAll(interests, a), o.res # "segv"
  PROVE  o.ints = { i \in interests : i.eid # a }
BY DEF InterestUnregisterAll, Miss, Outcome

(* The address of a registration is one getDlsInfo may make a record for.  *)
LEMMA OwnAddrProper ==
  ASSUME NEW p \in Pids, NEW e \in Entities
  PROVE  OwnAddr(p, e) \in Addr /\ ProperAddr(OwnAddr(p, e))
BY DEF OwnAddr, MakeSpecificEid, Generic, Addr, PidValue, ProperAddr

(* Only the record collectApp works on may be RUNNING without connection.  *)
LEMMA OthersLinked ==
  ASSUME RecordsHold, pc \in CollectPcs, NEW t \in Slots \ {job.target}
  PROVE  Linked(dls[t]) /\ ~Collecting(t)
BY DEF RecordsHold, RecordsSane, Collecting, CollectPcs, Down

LEMMA FinishRecords ==
  ASSUME ConnectionInv, RegistrationsOK, LocalsOK, RecordsHold, FinishCollect
  PROVE  RecordsHold'
<1> DEFINE s == job.target
           d == dls[s]
<1>1. pc = "finish" /\ s \in listed /\ s \in Slots /\ d \in DlsInfo
  BY DEF FinishCollect, ConnectionInv, HandlerOK, TypeOK
<1>2. \A t \in Slots \ {s} : Linked(dls[t])
  BY <1>1, OthersLinked DEF CollectPcs
<1>3. Sane(d) /\ Stands(s, d)
  BY <1>1 DEF RecordsHold, RecordsSane, Stands
<1>4. CASE /\ job.fatal /\ LaunchApp(s, d) /\ UNCHANGED <<listed, interests>>
  <2>1. "EXE" \in Flags[d.eid]
    BY <1>4 DEF LocalsOK
  <2>2. PICK r : Becomes(s, d, r)
    BY <1>1, <1>3, <1>4, <2>1, LaunchAppBecomes
  <2> QED
    BY <1>1, <1>2, <1>3, <1>4, <2>2, RecordUpdate DEF ConnectionInv
<1>5. CASE pc' = "segv" /\ UNCHANGED <<listed, dls, interests>>
  <2>1. RecordsSane'
    BY <1>5 DEF RecordsHold, RecordsSane, Down
  <2>2. SingleRecord' /\ InterestsCounted'
    BY <1>5 DEF RecordsHold, SingleRecord, InterestsCounted
  <2> QED
    BY <2>1, <2>2 DEF RecordsHold
<1>6. ASSUME NEW o \in InterestUnregisterAll(interests, KeyOf(d)), o.res # "segv",
             Freeable(d), interests' = o.ints, listed' = listed \ {s},
             dls' = [dls EXCEPT ![s] = Blank]
      PROVE  RecordsHold'
  <2>1. interests' = { i \in interests : i.eid # KeyOf(d) }
    BY <1>6, UnregisterAllResults
  <2> QED
    BY <1>1, <1>2, <1>6, <2>1, FreeRecords
<1>7. CASE dls' = [dls EXCEPT ![s] = Cleared(d)] /\ UNCHANGED <<listed, interests>>
  <2>1. Becomes(s, d, Cleared(d))
    BY <1>1, <1>7, ClearedSane, ClearedType DEF Becomes
  <2> QED
    BY <1>1, <1>2, <1>3, <1>7, <2>1, RecordUpdate DEF ConnectionInv
<1> QED
  BY <1>4, <1>5, <1>6, <1>7 DEF FinishCollect

(* startApp looks for, or makes, the record of a generic eid.              *)
LEMMA StartSlotsStand ==
  ASSUME TypeOK, RecordsHold, NEW a, NEW s \in StartSlots(a)
  PROVE  /\ s \in Slots /\ DlsInfoAt(s, a) \in DlsInfo
         /\ Stands(s, DlsInfoAt(s, a)) /\ Sane(DlsInfoAt(s, a))
         /\ Linked(dls[s]) => Linked(DlsInfoAt(s, a))
         /\ a[2] \in Entities
<1>1. a \in { Generic(e) : e \in Entities }
  BY DEF StartSlots
<1>2. a \in Addr /\ ProperAddr(a) /\ a[2] \in Entities /\ a = Generic(a[2])
  BY <1>1 DEF Generic, Addr, PidValue, ProperAddr
<1>3. CASE Multi(a[2])
  <2>1. s \in GetNewDlsInfo(a)
    BY <1>1, <1>3 DEF StartSlots
  <2>2. s \in Slots /\ DlsInfoAt(s, a) \in DlsInfo
    BY <1>2, <2>1, GetNewDlsInfoType
  <2> QED
    BY <1>2, <1>3, <2>1, <2>2, GetNewDlsInfoStands
<1>4. CASE ~Multi(a[2])
  <2>1. s \in GetDlsInfo(a)
    BY <1>1, <1>4 DEF StartSlots
  <2> QED
    BY <1>2, <2>1, GetDlsInfoStands
<1> QED
  BY <1>3, <1>4

LEMMA HandlerRecords ==
  ASSUME ConnectionInv, RegistrationsOK, LocalsOK, RecordsHold, SchedHandler
  PROVE  RecordsHold'
<1> USE DEF ConnectionInv
<1>1. ASSUME NEW i \in job.todo, Distribute(i)
      PROVE  RecordsHold'
  <2>1. pc = "distribute" /\ UNCHANGED interests
    BY <1>1 DEF Distribute
  <2>2. \A t \in Slots : Linked(dls[t]) /\ ~Collecting(t)
    BY <2>1, AllLinked DEF Down, CollectPcs
  <2>3. i.eid \in Addr /\ ProperAddr(i.eid)
    <3>1. \A j \in interests \cup job.todo :
            \E p \in Pids : \E x \in Entities : j.eid = OwnAddr(p, x)
      BY DEF RegistrationsOK
    <3>2. PICK p \in Pids, x \in Entities : i.eid = OwnAddr(p, x)
      BY <3>1
    <3> QED
      BY <3>2, OwnAddrProper
  <2>4. CASE UNCHANGED <<listed, dls>>
    BY <2>1, <2>2, <2>4, RecordsKept DEF Down
  <2>5. ASSUME NEW s \in GetDlsInfo(i.eid), listed' = listed \cup {s},
               \/ dls' = [dls EXCEPT ![s] = DlsInfoAt(s, i.eid)]
               \/ SendMessageByAppState(s, DlsInfoAt(s, i.eid),
                    [job.msg EXCEPT !.dst = KeyOf(DlsInfoAt(s, i.eid))], pc)
        PROVE  RecordsHold'
    <3> DEFINE d == DlsInfoAt(s, i.eid)
    <3>1. s \in Slots /\ d \in DlsInfo /\ Stands(s, d) /\ Sane(d) /\ Linked(d)
      BY <2>2, <2>3, GetDlsInfoStands
    <3>2. [job.msg EXCEPT !.dst = KeyOf(d)] \in Msgs
      BY <3>1, KeyOfType DEF TypeOK, Jobs, Msgs
    <3>3. \E r : Becomes(s, d, r)
      <4>1. CASE dls' = [dls EXCEPT ![s] = d]
        BY <3>1, <4>1 DEF Becomes
      <4>2. CASE SendMessageByAppState(s, d, [job.msg EXCEPT !.dst = KeyOf(d)], pc)
        BY <3>1, <3>2, <4>2, SendMessageBecomes
      <4> QED
        BY <2>5, <4>1, <4>2
    <3>4. PICK r : Becomes(s, d, r)
      BY <3>3
    <3> QED
      BY <2>1, <2>2, <2>5, <3>1, <3>4, RecordUpdate
  <2> QED
    BY <1>1, <2>4, <2>5 DEF Distribute
<1>2. CASE DistributeDone \/ Reply
  <2>1. pc \notin CollectPcs /\ pc \notin Down /\ UNCHANGED <<listed, dls, interests>>
    BY <1>2 DEF DistributeDone, Reply, listVars, CollectPcs, Down
  <2> QED
    BY <2>1, RecordsKept DEF Collecting, CollectPcs
<1>3. CASE StopApp
  <2>1. pc = "stop" /\ UNCHANGED <<listed, interests>>
    BY <1>3 DEF StopApp
  <2>2. \A t \in Slots : Linked(dls[t]) /\ Sane(dls[t]) /\ ~Collecting(t)
    BY <2>1, AllLinked DEF RecordsHold, RecordsSane, Down, CollectPcs
  <2>3. CASE UNCHANGED dls
    BY <2>1, <2>2, <2>3, RecordsKept DEF Down
  <2>4. ASSUME NEW s \in GetExistingDlsInfo(job.msg.app),
               job' = [job EXCEPT !.target = s, !.ret = "SUCCESS",
                         !.term = "CONSOLE" \notin Flags[dls[s].eid]],
               dls' = [dls EXCEPT ![s] = Closed(@)], pc' = "collect"
        PROVE  RecordsHold'
    <3>1. s \in Slots /\ dls[s] \in DlsInfo
      BY DEF GetExistingDlsInfo, TypeOK
    <3>2. \A t \in Slots : dls'[t] = IF t = s THEN Closed(dls[s]) ELSE dls[t]
      BY <2>4, <3>1 DEF TypeOK
    <3>3. Collecting(s)'
      BY <2>4 DEF Collecting, TypeOK, Jobs
    <3>4. RecordsSane'
      BY <2>2, <3>1, <3>2, <3>3, ClosedSame DEF RecordsSane
    <3>5. \A t \in listed :
            /\ dls'[t].eid = dls[t].eid
            /\ dls'[t].numEventInterestRequested = dls[t].numEventInterestRequested
      BY <3>1, <3>2, ClosedSame DEF TypeOK
    <3>6. SingleRecord' /\ InterestsCounted'
      BY <2>1, <3>5, RecordsGrow DEF RecordsHold
    <3> QED
      BY <3>4, <3>6 DEF RecordsHold
  <2> QED
    BY <1>3, <2>3, <2>4 DEF StopApp
<1>4. CASE (\E p \in Pids : Collect(p)) \/ CollectNothing \/ CollectTimeout
           \/ CollectGiveUp
  <2>1. /\ pc \in {"collect", "kill"} /\ pc' \in {"kill", "finish"}
        /\ UNCHANGED <<listed, dls, interests>>
        /\ job'.target = job.target
    BY <1>4 DEF Collect, CollectNothing, CollectTimeout, CollectGiveUp, listVars,
                TypeOK, Jobs
  <2> QED
    BY <2>1, RecordsKept DEF Collecting, Down
<1>5. CASE FinishCollect
  BY <1>5, FinishRecords
<1>6. CASE StartApp
  <2>1. pc = "start" /\ UNCHANGED interests
    BY <1>6 DEF StartApp
  <2>2. \A t \in Slots : Linked(dls[t]) /\ ~Collecting(t)
    BY <2>1, AllLinked DEF Down, CollectPcs
  <2>3. CASE UNCHANGED <<listed, dls>>
    BY <2>1, <2>2, <2>3, RecordsKept DEF Down
  <2>4. ASSUME NEW s \in StartSlots(StartTarget),
               DlsInfoAt(s, StartTarget).state = "NOT_RUNNING",
               listed' = listed \cup {s}, LaunchApp(s, DlsInfoAt(s, StartTarget))
        PROVE  RecordsHold'
    <3> DEFINE d == DlsInfoAt(s, StartTarget)
    <3>1. s \in Slots /\ d \in DlsInfo /\ Stands(s, d) /\ Sane(d)
      BY StartSlotsStand
    <3>2. PICK r : Becomes(s, d, r)
      BY <2>4, <3>1, LaunchAppBecomes
    <3> QED
      BY <2>1, <2>2, <2>4, <3>1, <3>2, RecordUpdate
  <2> QED
    BY <1>6, <2>3, <2>4 DEF StartApp
<1> QED
  BY <1>1, <1>2, <1>3, <1>4, <1>5, <1>6 DEF SchedHandler

LEMMA AcceptRecords ==
  ASSUME ConnectionInv, RecordsHold, Accept \/ AcceptFails
  PROVE  RecordsHold'
<1> USE DEF ConnectionInv
<1>1. pc = "select" /\ UNCHANGED interests
  BY DEF Accept, AcceptFails, listVars
<1>2. \A t \in Slots : Linked(dls[t]) /\ ~Collecting(t)
  BY <1>1, AllLinked DEF Down, CollectPcs
<1>3. CASE UNCHANGED <<listed, dls>>
  BY <1>1, <1>2, <1>3, RecordsKept DEF Down
<1>4. CASE Accept /\ ~UNCHANGED <<listed, dls>>
  <2> DEFINE p == Head(backlog)
             a == Head(toSched[p]).src
  <2>1. p \in Pids /\ conn[p] = "pending" /\ toSched[p] # << >>
    <3>1. backlog \in Seq(Pids) /\ backlog # << >> /\ toSched[p] # << >>
      BY <1>4 DEF Accept, TypeOK
    <3>2. p = backlog[1] /\ 1 \in 1..Len(backlog) /\ p \in Pids
      BY <3>1, HeadTailProperties, EmptySeq
    <3> QED
      BY <3>1, <3>2 DEF SocketsOK
  <2>2. a \in Addr /\ ProperAddr(a)
    <3>1. a = OwnAddr(p, proc[p].eid) /\ proc[p].eid \in Entities
      BY <2>1 DEF SocketsOK, TypeOK, Processes
    <3> QED
      BY <2>1, <3>1, OwnAddrProper
  <2>3. PICK s \in GetDlsInfo(a) : LaunchConfirmation(s, DlsInfoAt(s, a), p)
    BY <1>4 DEF Accept
  <2> DEFINE d == DlsInfoAt(s, a)
             r == [d EXCEPT !.commFd = p, !.state = "RUNNING", !.msgQueue = << >>]
  <2>4. s \in Slots /\ d \in DlsInfo /\ Stands(s, d) /\ Sane(d)
    BY <2>2, GetDlsInfoStands
  <2>5. Becomes(s, d, r)
    <3>1. << >> \in Seq(Msgs)
      BY EmptySeq
    <3>2. r \in DlsInfo
      BY <2>1, <2>4, <3>1 DEF DlsInfo, States
    <3>3. /\ r.eid = d.eid /\ r.pid = d.pid /\ r.specificEid = d.specificEid
          /\ r.numEventInterestRequested = d.numEventInterestRequested
          /\ r.state = "RUNNING" /\ r.commFd = p
      BY <2>4 DEF DlsInfo
    <3>4. Sane(r) /\ Linked(r)
      <4>1. p # InvalidFd
        BY <2>1, DlsAssumption
      <4> HIDE DEF r, d, p, a
      <4> QED
        BY <2>4, <3>3, <4>1 DEF Sane, Watched, Linked
    <3>5. dls' = [dls EXCEPT ![s] = r]
      BY <2>3 DEF LaunchConfirmation
    <3> QED
      BY <3>2, <3>3, <3>4, <3>5 DEF Becomes
  <2>6. listed' = listed \cup {s}
    BY <2>3 DEF LaunchConfirmation
  <2> HIDE DEF r, d, p, a
  <2> QED
    BY <1>1, <1>2, <2>4, <2>5, <2>6, RecordUpdate
<1> QED
  BY <1>3, <1>4 DEF AcceptFails, listVars

LEMMA ServerFdRecords ==
  ASSUME ConnectionInv, RecordsHold, NEW s \in Slots, ServerFdReadable(s)
  PROVE  RecordsHold'
<1>1. /\ pc = "select" /\ s \in listed /\ dls[s].state = "NOT_RUNNING"
      /\ LaunchApp(s, dls[s]) /\ listed' = listed \cup {s} /\ UNCHANGED interests
  BY DEF ServerFdReadable
<1>2. \A t \in Slots : Linked(dls[t])
  BY <1>1, AllLinked DEF Down, CollectPcs
<1>3. dls[s] \in DlsInfo /\ Sane(dls[s]) /\ Stands(s, dls[s])
  BY <1>1 DEF ConnectionInv, TypeOK, RecordsHold, RecordsSane, Stands
<1>4. PICK r : Becomes(s, dls[s], r)
  BY <1>1, <1>3, LaunchAppBecomes
<1> QED
  BY <1>1, <1>2, <1>3, <1>4, RecordUpdate DEF ConnectionInv

(* The applications do not touch the records.                              *)
LEMMA AppFrame ==
  ASSUME NEW p \in Pids, AppStep(p)
  PROVE  UNCHANGED <<pc, job, listed, dls, interests, leaked>>
BY DEF AppStep, AppInit, AppConnect, AppSendLaunched, AppSend, AppReceive,
       AppRequeue, AppDies, AppTerminated, AppSeesClose, AppEnds, SelfStart, listVars

LEMMA RecordsStep ==
  ASSUME ConnectionInv, TypeOK', MessagesOK, RegistrationsOK, LocalsOK, RecordsHold,
         Next
  PROVE  RecordsHold'
<1>1. CASE SchedStep
  BY <1>1, BootRecords, ReceiveRecords, HandlerRecords, AcceptRecords DEF SchedStep
<1>2. CASE Sigterm
  BY <1>2, CleanSchedRecords DEF Sigterm
<1>3. CASE \E s \in Slots : ServerFdReadable(s)
  BY <1>3, ServerFdRecords
<1>4. CASE \E p \in Pids : AppStep(p)
  BY <1>4, AppFrame, RecordsKept DEF Collecting
<1> QED
  BY <1>1, <1>2, <1>3, <1>4 DEF Next

-----------------------------------------------------------------------------
(* Messages on their way to sched.                                         *)

(* A process keeps its entity while it has a connection: the kernel does   *)
(* not give its pid away.                                                  *)
SameEid == \A q \in Pids : conn[q] # "none" => proc'[q].eid = proc[q].eid

LEMMA LaunchAppEid ==
  ASSUME TypeOK, NEW s, NEW d, LaunchApp(s, d)
  PROVE  SameEid
<1>1. UNCHANGED proc \/ \E p \in SpawnResults :
        p \in Pids /\ proc' = [proc EXCEPT ![p] = NewProcess(d.eid, TRUE)]
  BY DEF LaunchApp
<1>2. ASSUME NEW p \in SpawnResults, p \in Pids
      PROVE  conn[p] = "none"
  BY <1>2, DlsAssumption DEF SpawnResults, FreePids
<1> QED
  BY <1>1, <1>2 DEF SameEid, TypeOK

LEMMA SendMessageEid ==
  ASSUME TypeOK, NEW s, NEW d, NEW m, NEW next, SendMessageByAppState(s, d, m, next)
  PROVE  SameEid
BY LaunchAppEid DEF SendMessageByAppState, SameEid

LEMMA SchedEid ==
  ASSUME TypeOK, SchedStep \/ Sigterm \/ \E s \in Slots : ServerFdReadable(s)
  PROVE  SameEid
<1>1. ASSUME UNCHANGED proc
      PROVE  SameEid
  BY <1>1 DEF SameEid
<1>2. CASE SchedBoot \/ Sigterm \/ Accept \/ AcceptFails
  BY <1>1, <1>2, LaunchAppEid, SendMessageEid
     DEF SchedBoot, AppLauncher, InitDls2, InitDls2Fails, BootDone, CleanSched, Sigterm,
         Accept, AcceptFails
<1>3. CASE \E s \in Slots : ServerFdReadable(s)
  BY <1>3, LaunchAppEid DEF ServerFdReadable
<1>4. CASE \E s \in Slots : SchedReceive(s)
  BY <1>1, <1>4, SendMessageEid
     DEF SchedReceive, RecvRequeue, RecvEvent, RecvRegister, RecvIsAppRunning,
         RecvAppControl, RecvOther, RouteMessage, Bounce, Forward, Disconnected
<1>5. CASE SchedHandler
  <2>1. CASE \E p \in Pids : Collect(p)
    BY <2>1 DEF Collect, SameEid, TypeOK, Processes
  <2>2. CASE CollectTimeout
    <3>1. UNCHANGED proc \/ \E p \in Pids : proc' = [proc EXCEPT ![p].st = "exited"]
      BY <2>2 DEF CollectTimeout
    <3>2. ASSUME NEW p \in Pids, proc' = [proc EXCEPT ![p].st = "exited"]
          PROVE  SameEid
      BY <3>2 DEF SameEid, TypeOK, Processes
    <3> QED
      BY <1>1, <3>1, <3>2
  <2>3. CASE FinishCollect
    BY <1>1, <2>3, LaunchAppEid DEF FinishCollect
  <2>4. CASE StartApp
    BY <1>1, <2>4, LaunchAppEid DEF StartApp
  <2>5. CASE \E i \in job.todo : Distribute(i)
    BY <1>1, <2>5, SendMessageEid DEF Distribute
  <2>6. CASE DistributeDone \/ StopApp \/ CollectNothing \/ CollectGiveUp \/ Reply
    BY <1>1, <2>6 DEF DistributeDone, StopApp, CollectNothing, CollectGiveUp, Reply
  <2> QED
    BY <1>5, <2>1, <2>2, <2>3, <2>4, <2>5, <2>6 DEF SchedHandler
<1> QED
  BY <1>2, <1>3, <1>4, <1>5 DEF SchedStep

(* sched reads the first message of a connection, or closes it.            *)
OnlyRead ==
    \A q \in Pids : \/ toSched'[q] = toSched[q]
                    \/ toSched'[q] = << >>
                    \/ toSched[q] # << >> /\ toSched'[q] = Tail(toSched[q])

LEMMA SchedReads ==
  ASSUME TypeOK, SchedStep \/ Sigterm \/ \E s \in Slots : ServerFdReadable(s)
  PROVE  OnlyRead
<1>1. ASSUME UNCHANGED toSched
      PROVE  OnlyRead
  BY <1>1 DEF OnlyRead
<1>2. ASSUME NEW fd, CloseFd(fd)
      PROVE  OnlyRead
  BY <1>2 DEF CloseFd, OnlyRead, TypeOK
<1>3. ASSUME NEW s \in Slots, Readable(s), Consume(s)
      PROVE  OnlyRead
  BY <1>3 DEF Readable, Consume, OnlyRead, TypeOK
<1>4. ASSUME CleanSched
      PROVE  OnlyRead
  BY <1>4 DEF CleanSched, OnlyRead
<1>5. CASE SchedBoot \/ Sigterm \/ \E s \in Slots : ServerFdReadable(s)
  BY <1>1, <1>4, <1>5
     DEF SchedBoot, AppLauncher, InitDls2, InitDls2Fails, BootDone, Sigterm,
         ServerFdReadable, sockVars
<1>6. CASE Accept \/ AcceptFails
  <2>1. CASE AcceptFails
    BY <1>2, <2>1 DEF AcceptFails
  <2>2. ASSUME NEW s, NEW d, toSched[Head(backlog)] # << >>,
               LaunchConfirmation(s, d, Head(backlog))
        PROVE  OnlyRead
    BY <2>2 DEF LaunchConfirmation, OnlyRead, TypeOK
  <2> QED
    BY <1>2, <1>6, <2>1, <2>2 DEF Accept
<1>7. ASSUME NEW s \in Slots, SchedReceive(s)
      PROVE  OnlyRead
  BY <1>2, <1>3, <1>7
     DEF SchedReceive, RecvRequeue, RecvEvent, RecvRegister, RecvIsAppRunning,
         RecvAppControl, RecvOther, RouteMessage, Disconnected
<1>8. CASE SchedHandler
  <2>1. CASE StopApp
    BY <1>1, <1>2, <2>1 DEF StopApp
  <2>2. UNCHANGED toSched \/ StopApp
    BY <1>8 DEF SchedHandler, Distribute, DistributeDone, Collect, CollectNothing,
                CollectTimeout, CollectGiveUp, FinishCollect, StartApp, Reply, sockVars
  <2> QED
    BY <1>1, <2>1, <2>2
<1> QED
  BY <1>5, <1>6, <1>7, <1>8 DEF SchedStep

Signed(m, p, e) == \/ "requeue" \in m.flags
                   \/ m.src = OwnAddr(p, e) /\ ProperAddr(m.dst)

LEMMA MessagesStep ==
  ASSUME ConnectionInv, MessagesOK, Next
  PROVE  MessagesOK'
<1> USE DEF ConnectionInv
<1>1. ASSUME NEW q \in Pids, NEW k \in 1..Len(toSched[q])
      PROVE  Signed(toSched[q][k], q, proc[q].eid)
  BY DEF MessagesOK, Signed
<1>2. \A q \in Pids : conn[q] = "none" => toSched[q] = << >>
  BY DEF SocketsOK
<1>3. CASE SchedStep \/ Sigterm \/ \E s \in Slots : ServerFdReadable(s)
  <2>1. SameEid /\ OnlyRead
    BY <1>3, SchedEid, SchedReads
  <2>2. ASSUME NEW q \in Pids, NEW k \in 1..Len(toSched'[q])
        PROVE  Signed(toSched'[q][k], q, proc'[q].eid)
    <3>1. toSched[q] \in Seq(Msgs)
      BY DEF TypeOK
    <3>2. /\ toSched[q] # << >>
          /\ \E j \in 1..Len(toSched[q]) : toSched'[q][k] = toSched[q][j]
      <4>1. CASE toSched'[q] = toSched[q]
        <5>1. k \in 1..Len(toSched[q])
          BY <2>2, <4>1
        <5> QED
          BY <3>1, <4>1, <5>1, EmptySeq
      <4>2. CASE toSched'[q] = << >>
        BY <2>2, <4>2
      <4>3. CASE toSched[q] # << >> /\ toSched'[q] = Tail(toSched[q])
        <5>1. /\ Len(Tail(toSched[q])) = Len(toSched[q]) - 1
              /\ \A j \in 1..Len(Tail(toSched[q])) :
                   Tail(toSched[q])[j] = toSched[q][j + 1]
          BY <3>1, <4>3, HeadTailProperties
        <5>2. k + 1 \in 1..Len(toSched[q])
          BY <2>2, <3>1, <4>3, <5>1, LenProperties
        <5> QED
          BY <2>2, <4>3, <5>1, <5>2
      <4> QED
        BY <2>1, <4>1, <4>2, <4>3 DEF OnlyRead
    <3>3. proc'[q].eid = proc[q].eid
      BY <1>2, <2>1, <3>2 DEF SameEid
    <3> QED
      BY <1>1, <3>2, <3>3
  <2> QED
    BY <2>2 DEF MessagesOK, Signed
<1>4. ASSUME NEW p \in Pids, AppStep(p)
      PROVE  MessagesOK'
  <2>1. \A q \in Pids : toSched[q] # << >> => proc'[q].eid = proc[q].eid
    <3>1. CASE SelfStart(p)
      BY <1>2, <3>1 DEF SelfStart, FreePids, TypeOK
    <3>2. \/ SelfStart(p) \/ UNCHANGED proc
          \/ \E st : proc' = [proc EXCEPT ![p].st = st]
      BY <1>4 DEF AppStep, AppInit, AppConnect, AppSendLaunched, AppSend, AppReceive,
                  AppRequeue, AppDies, AppTerminated, AppSeesClose, AppEnds
    <3>3. ASSUME NEW st, proc' = [proc EXCEPT ![p].st = st]
          PROVE  \A q \in Pids : proc'[q].eid = proc[q].eid
      BY <3>3 DEF TypeOK, Processes
    <3> QED
      BY <3>1, <3>2, <3>3
  <2>2. CASE UNCHANGED toSched
    <3>1. ASSUME NEW q \in Pids, NEW k \in 1..Len(toSched'[q])
          PROVE  Signed(toSched'[q][k], q, proc'[q].eid)
      <4>1. toSched[q] \in Seq(Msgs) /\ k \in 1..Len(toSched[q])
        BY <2>2, <3>1 DEF TypeOK
      <4>2. toSched[q] # << >>
        BY <4>1, EmptySeq
      <4> QED
        BY <1>1, <2>1, <2>2, <4>1, <4>2
    <3> QED
      BY <3>1 DEF MessagesOK, Signed
  <2>3. ASSUME NEW m \in Msgs, toSched' = [toSched EXCEPT ![p] = Append(@, m)],
               Signed(m, p, proc[p].eid), \A q \in Pids : proc'[q].eid = proc[q].eid
        PROVE  MessagesOK'
    <3>1. ASSUME NEW q \in Pids, NEW k \in 1..Len(toSched'[q])
          PROVE  Signed(toSched'[q][k], q, proc'[q].eid)
      <4>1. toSched[q] \in Seq(Msgs)
        BY DEF TypeOK
      <4>2. CASE q # p
        <5>1. toSched'[q] = toSched[q]
          BY <2>3, <4>2 DEF TypeOK
        <5> QED
          BY <1>1, <2>3, <3>1, <5>1
      <4>3. CASE q = p
        <5>1. toSched'[q] = Append(toSched[q], m)
          BY <2>3, <4>3 DEF TypeOK
        <5>2. /\ Len(toSched'[q]) = Len(toSched[q]) + 1
              /\ \A j \in 1..Len(toSched[q]) : toSched'[q][j] = toSched[q][j]
              /\ toSched'[q][Len(toSched[q]) + 1] = m
          BY <4>1, <5>1, AppendProperties
        <5>3. k \in 1..Len(toSched[q]) \/ k = Len(toSched[q]) + 1
          BY <3>1, <4>1, <5>2, LenProperties
        <5> QED
          BY <1>1, <2>3, <4>3, <5>2, <5>3
      <4> QED
        BY <4>2, <4>3
    <3> QED
      BY <3>1 DEF MessagesOK, Signed
  <2>4. proc[p].eid \in Entities /\ OwnAddr(p, proc[p].eid) \in Addr
    BY OwnAddrProper DEF TypeOK, Processes
  <2>5. CASE AppSendLaunched(p)
    <3> DEFINE m == [EmptyMsgHeader EXCEPT !.src = OwnAddr(p, proc[p].eid),
                                           !.flags = {"event"}]
    <3>1. m \in Msgs
      BY <2>4, EmptyMsgHeaderType DEF Msgs, MsgFlags
    <3>2. m.src = OwnAddr(p, proc[p].eid) /\ m.dst = SchedAddr
      BY DEF EmptyMsgHeader
    <3>3. ProperAddr(SchedAddr)
      BY DlsAssumption DEF ProperAddr, SchedAddr, Generic
    <3>4. \A q \in Pids : proc'[q].eid = proc[q].eid
      BY <2>5 DEF AppSendLaunched, TypeOK, Processes
    <3>5. toSched' = [toSched EXCEPT ![p] = Append(@, m)]
      BY <2>5 DEF AppSendLaunched
    <3> HIDE DEF m
    <3> QED
      BY <2>3, <3>1, <3>2, <3>3, <3>4, <3>5 DEF Signed
  <2>6. CASE AppSend(p)
    <3>1. PICK r \in Requests : toSched' = [toSched EXCEPT ![p] =
                       Append(@, [r EXCEPT !.src = OwnAddr(p, proc[p].eid)])]
      BY <2>6 DEF AppSend
    <3> DEFINE m == [r EXCEPT !.src = OwnAddr(p, proc[p].eid)]
    <3>2. m \in Msgs /\ m.src = OwnAddr(p, proc[p].eid) /\ m.dst = r.dst
      BY <2>4, SchedAssumption DEF Msgs
    <3>3. ProperAddr(r.dst)
      BY RequestsAssumption
    <3>4. UNCHANGED proc
      BY <2>6 DEF AppSend
    <3> HIDE DEF m
    <3> QED
      BY <2>3, <3>1, <3>2, <3>3, <3>4 DEF m, Signed
  <2>7. CASE AppRequeue(p)
    <3> DEFINE m == [Head(toApp[p]) EXCEPT !.flags = @ \cup {"requeue"}]
    <3>1. Head(toApp[p]) \in Msgs
      BY <2>7, HeadTailProperties DEF AppRequeue, TypeOK
    <3>2. m \in Msgs /\ "requeue" \in m.flags
      BY <3>1 DEF Msgs, MsgFlags
    <3>3. toSched' = [toSched EXCEPT ![p] = Append(@, m)] /\ UNCHANGED proc
      BY <2>7 DEF AppRequeue
    <3> HIDE DEF m
    <3> QED
      BY <2>3, <3>2, <3>3 DEF Signed
  <2> QED
    BY <1>4, <2>2, <2>5, <2>6, <2>7
       DEF AppStep, AppInit, AppConnect, AppReceive, AppDies, AppTerminated,
           AppSeesClose, AppEnds, SelfStart, sockVars
<1> QED
  BY <1>3, <1>4 DEF Next

-----------------------------------------------------------------------------
(* The registrations, and the locals of sched.                             *)

LEMMA RegistrationsStep ==
  ASSUME ConnectionInv, MessagesOK, RegistrationsOK, Next
  PROVE  RegistrationsOK'
<1> DEFINE OfApp(i) == \E p \in Pids : \E e \in Entities : i.eid = OwnAddr(p, e)
<1>1. \A i \in interests \cup job.todo : OfApp(i)
  BY DEF RegistrationsOK
<1>2. ASSUME interests' \subseteq interests, job'.todo \subseteq interests \cup job.todo
      PROVE  RegistrationsOK'
  <2>1. IsFiniteSet(interests')
    BY <1>2, FS_Subset DEF RegistrationsOK
  <2>2. \A i \in interests' \cup job'.todo : OfApp(i)
    BY <1>1, <1>2
  <2>3. \A i, j \in interests' : i.type = j.type /\ i.eid = j.eid => i = j
    BY <1>2 DEF RegistrationsOK
  <2> QED
    BY <2>1, <2>2, <2>3 DEF RegistrationsOK
<1>3. NoJob.todo = {}
  BY DEF NoJob
<1>4. CASE \E p \in Pids : AppStep(p)
  BY <1>2, <1>4, AppFrame
<1>5. CASE SchedBoot \/ Sigterm \/ Accept \/ AcceptFails
           \/ \E s \in Slots : ServerFdReadable(s)
  <2>1. interests' \subseteq interests
    BY <1>5 DEF SchedBoot, AppLauncher, InitDls2, InitDls2Fails, BootDone, CleanSched,
                Sigterm, Accept, AcceptFails, ServerFdReadable, listVars
  <2>2. job'.todo \subseteq job.todo
    BY <1>3, <1>5 DEF SchedBoot, AppLauncher, InitDls2, InitDls2Fails, BootDone,
                CleanSched, Sigterm, Accept, AcceptFails, ServerFdReadable,
                ConnectionInv, TypeOK, Jobs
  <2> QED
    BY <1>2, <2>1, <2>2
<1>6. ASSUME NEW s \in Slots, SchedReceive(s)
      PROVE  RegistrationsOK'
  <2>1. CASE RecvEvent(s)
    <3>1. FindByType(interests, Incoming(s).type) \subseteq interests
      BY DEF FindByType
    <3>2. job'.todo \subseteq interests \cup job.todo
      BY <2>1, <3>1 DEF RecvEvent, NoJob
    <3> QED
      BY <1>2, <2>1, <3>2 DEF RecvEvent, listVars
  <2>2. CASE RecvRequeue(s) \/ RecvIsAppRunning(s) \/ RecvOther(s) \/ RouteMessage(s)
    BY <1>2, <2>2 DEF RecvRequeue, RecvIsAppRunning, RecvOther, RouteMessage, listVars
  <2>3. CASE RecvAppControl(s) \/ Disconnected(s)
    <3>1. job'.todo = {}
      BY <2>3 DEF RecvAppControl, Disconnected, NoJob
    <3> QED
      BY <1>2, <2>3, <3>1 DEF RecvAppControl, Disconnected, listVars
  <2>4. CASE RecvRegister(s)
    <3> DEFINE m == Incoming(s)
    <3>1. Readable(s) /\ "requeue" \notin m.flags /\ UNCHANGED job
      BY <2>4 DEF RecvRegister, IsForSched
    <3>2. /\ dls[s].commFd \in Pids /\ m.src = OwnAddr(dls[s].commFd, dls[s].eid)
          /\ dls[s].eid \in Entities
      BY <3>1, IncomingIsSigned DEF ConnectionInv, TypeOK, DlsInfo
    <3>3. CASE UNCHANGED interests
      BY <1>2, <3>1, <3>3
    <3>4. ASSUME NEW o \in RegisterOutcomes(m), o.res # "segv", interests' = o.ints
          PROVE  RegistrationsOK'
      <4>1. CASE interests' \subseteq interests
        BY <1>2, <3>1, <4>1
      <4>2. CASE /\ FindInfo(interests, m.evt, m.src) = {}
                 /\ o.ints = interests \cup
                      {[type |-> m.evt, eid |-> m.src, matchData |-> m.data]}
        <5> DEFINE x == [type |-> m.evt, eid |-> m.src, matchData |-> m.data]
        <5>1. IsFiniteSet(interests')
          <6>1. IsFiniteSet(interests) /\ interests' = interests \cup {x}
            BY <3>4, <4>2 DEF RegistrationsOK
          <6> QED
            BY <6>1, FS_AddElement
        <5>2. OfApp(x)
          BY <3>2
        <5>3. \A i \in interests' \cup job'.todo : OfApp(i)
          BY <1>1, <3>1, <3>4, <4>2, <5>2
        <5>4. \A i \in interests : ~(i.type = x.type /\ i.eid = x.eid)
          BY <4>2 DEF FindInfo, FindByType
        <5>5. \A i, j \in interests' : i.type = j.type /\ i.eid = j.eid => i = j
          BY <3>4, <4>2, <5>4 DEF RegistrationsOK
        <5> QED
          BY <5>1, <5>3, <5>5 DEF RegistrationsOK
      <4> QED
        BY <3>4, <4>1, <4>2, RegisterResults
    <3> QED
      BY <2>4, <3>3, <3>4 DEF RecvRegister
  <2> QED
    BY <1>6, <2>1, <2>2, <2>3, <2>4 DEF SchedReceive
<1>7. CASE SchedHandler
  <2>1. job'.todo \subseteq job.todo
    <3>1. job \in Jobs
      BY DEF ConnectionInv, TypeOK
    <3>2. CASE \E i \in job.todo : Distribute(i)
      BY <3>1, <3>2 DEF Distribute, Jobs
    <3>3. CASE DistributeDone \/ Reply
      BY <1>3, <3>3 DEF DistributeDone, Reply
    <3>4. CASE StopApp
      BY <3>1, <3>4 DEF StopApp, Jobs
    <3>5. CASE (\E p \in Pids : Collect(p)) \/ CollectNothing \/ CollectTimeout
               \/ CollectGiveUp
      BY <3>1, <3>5 DEF Collect, CollectNothing, CollectTimeout, CollectGiveUp, Jobs
    <3>6. CASE FinishCollect
      BY <1>3, <3>1, <3>6 DEF FinishCollect, Jobs
    <3>7. CASE StartApp
      BY <3>1, <3>7 DEF StartApp, Jobs
    <3> QED
      BY <1>7, <3>2, <3>3, <3>4, <3>5, <3>6, <3>7 DEF SchedHandler
  <2>2. interests' \subseteq interests
    <3>1. CASE FinishCollect
      BY <3>1, UnregisterAllResults DEF FinishCollect
    <3>2. CASE ~FinishCollect
      BY <1>7, <3>2 DEF SchedHandler, Distribute, DistributeDone, StopApp, Collect,
         CollectNothing, CollectTimeout, CollectGiveUp, StartApp, Reply, listVars
    <3> QED
      BY <3>1, <3>2
  <2> QED
    BY <1>2, <2>1, <2>2
<1> QED
  BY <1>4, <1>5, <1>6, <1>7 DEF Next, SchedStep

LEMMA LocalsStep ==
  ASSUME ConnectionInv, TypeOK', LocalsOK, RecordsHold, Next
  PROVE  LocalsOK'
<1>1. job \in Jobs /\ NoJob.fatal = FALSE
  BY DEF ConnectionInv, TypeOK, NoJob
<1>2. pc # "finish" => ~job.fatal
  BY DEF LocalsOK
<1>3. ASSUME pc' \notin {"launch1", "launch2"}, ~job'.fatal
      PROVE  LocalsOK'
  BY <1>3 DEF LocalsOK
<1>4. CASE \E p \in Pids : AppStep(p)
  BY <1>4, AppFrame DEF LocalsOK
<1>5. CASE SchedBoot
  <2>1. ASSUME NEW s \in Slots, AppLauncher(s)
        PROVE  LocalsOK'
    <3>1. pc \in {"launch1", "launch2"} /\ UNCHANGED listed
      BY <2>1 DEF AppLauncher
    <3>2. job'.boot \subseteq job.boot /\ job'.fatal = job.fatal
      BY <1>1, <2>1 DEF AppLauncher, Jobs
    <3> QED
      BY <1>2, <3>1, <3>2 DEF LocalsOK
  <2>2. CASE InitDls2
    <3>1. job'.boot \subseteq listed' /\ job'.fatal = job.fatal /\ pc = "launch1"
      BY <1>1, <2>2 DEF InitDls2, SlotsWithFlag, Jobs
    <3> QED
      BY <1>2, <3>1 DEF LocalsOK
  <2>3. CASE InitDls2Fails
    BY <1>1, <1>3, <2>3 DEF InitDls2Fails, CleanSched
  <2>4. CASE BootDone
    BY <1>2, <1>3, <2>4 DEF BootDone
  <2> QED
    BY <1>5, <2>1, <2>2, <2>3, <2>4 DEF SchedBoot
<1>6. CASE Sigterm \/ Accept \/ AcceptFails \/ \E s \in Slots : ServerFdReadable(s)
  <2>1. pc = "select" /\ job' \in {job, NoJob}
    BY <1>6 DEF Sigterm, CleanSched, Accept, AcceptFails, ServerFdReadable
  <2>2. pc' \notin {"launch1", "launch2"}
    BY <1>6 DEF Sigterm, CleanSched, Accept, LaunchConfirmation, AcceptFails,
                ServerFdReadable
  <2> QED
    BY <1>1, <1>2, <1>3, <2>1, <2>2
<1>7. ASSUME NEW s \in Slots, SchedReceive(s)
      PROVE  LocalsOK'
  <2>1. pc = "select"
    BY <1>7 DEF SchedReceive, RecvRequeue, RecvEvent, RecvRegister, RecvIsAppRunning,
                RecvAppControl, RecvOther, RouteMessage, Readable, Disconnected
  <2>2. job'.fatal = FALSE \/ UNCHANGED job
    BY <1>7 DEF SchedReceive, RecvRequeue, RecvEvent, RecvRegister, RecvIsAppRunning,
                RecvAppControl, RecvOther, RouteMessage, Disconnected, NoJob
  <2>3. pc' \notin {"launch1", "launch2"}
    BY <1>7, <2>1 DEF SchedReceive, RecvRequeue, RecvEvent, RecvRegister,
                RecvIsAppRunning, RecvAppControl, RecvOther, RouteMessage, Bounce,
                Forward, SendMessageByAppState, Send, Disconnected
  <2> QED
    BY <1>2, <1>3, <2>1, <2>2, <2>3
<1>8. CASE SchedHandler
  <2>1. ASSUME NEW i \in job.todo, Distribute(i)
        PROVE  LocalsOK'
    <3>1. pc = "distribute" /\ pc' \in {"distribute", "sigpipe"}
      BY <2>1 DEF Distribute, SendMessageByAppState, Send
    <3>2. job'.fatal = job.fatal
      BY <1>1, <2>1 DEF Distribute, Jobs
    <3> QED
      BY <1>2, <1>3, <3>1, <3>2
  <2>2. CASE DistributeDone \/ Reply
    <3>1. job' = NoJob /\ pc' \notin {"launch1", "launch2"}
      BY <2>2 DEF DistributeDone, Reply, Send
    <3> QED
      BY <1>1, <1>3, <3>1
  <2>3. CASE StopApp
    <3>1. pc = "stop" /\ pc' \in {"reply", "start", "select", "collect"}
      BY <2>3 DEF StopApp, Return
    <3>2. job'.fatal = job.fatal
      BY <1>1, <2>3 DEF StopApp, Jobs
    <3> QED
      BY <1>2, <1>3, <3>1, <3>2
  <2>4. ASSUME NEW p \in Pids, Collect(p)
        PROVE  LocalsOK'
    <3>1. /\ pc' = "finish" /\ UNCHANGED dls /\ pc \in CollectPcs
          /\ p \in Collectable(dls[job.target].pid)
      BY <2>4 DEF Collect, listVars, CollectPcs
    <3>2. job'.target = job.target
      BY <1>1, <2>4 DEF Collect, Jobs
    <3>3. dls[job.target].pid # InvalidPid
      BY <3>1, DlsAssumption DEF Collectable, InvalidPid, ForkError
    <3>4. job.target \in Slots
      BY <3>1 DEF ConnectionInv, HandlerOK, TypeOK, CollectPcs
    <3>5. "EXE" \in Flags[dls[job.target].eid]
      BY <3>3, <3>4 DEF RecordsHold, RecordsSane, Sane
    <3> QED
      BY <3>1, <3>2, <3>5 DEF LocalsOK
  <2>5. CASE CollectNothing \/ CollectTimeout \/ CollectGiveUp
    <3>1. pc \in {"collect", "kill"} /\ pc' \in {"kill", "finish"}
      BY <2>5 DEF CollectNothing, CollectTimeout, CollectGiveUp
    <3>2. job'.fatal = job.fatal
      BY <1>1, <2>5 DEF CollectNothing, CollectTimeout, CollectGiveUp, Jobs
    <3> QED
      BY <1>2, <1>3, <3>1, <3>2
  <2>6. CASE FinishCollect
    <3>1. pc' \in {"reply", "start", "select", "segv"}
      BY <2>6 DEF FinishCollect, Return
    <3>2. job'.fatal = FALSE
      BY <1>1, <2>6 DEF FinishCollect, Jobs
    <3> QED
      BY <1>3, <3>1, <3>2
  <2>7. CASE StartApp
    <3>1. pc = "start" /\ pc' = "reply"
      BY <2>7 DEF StartApp
    <3>2. job'.fatal = job.fatal
      BY <1>1, <2>7 DEF StartApp, Jobs
    <3> QED
      BY <1>2, <1>3, <3>1, <3>2
  <2> QED
    BY <1>8, <2>1, <2>2, <2>3, <2>4, <2>5, <2>6, <2>7 DEF SchedHandler
<1> QED
  BY <1>4, <1>5, <1>6, <1>7, <1>8 DEF Next, SchedStep

-----------------------------------------------------------------------------
LEMMA InitRecords == Init => RecordInv
<1> SUFFICES ASSUME Init PROVE RecordInv
  OBVIOUS
<1>1. TypeOK
  BY InitType
<1>2. PICK f \in Placement(WithFlag("STAGE_1"), Slots) :
        /\ listed = { f[e] : e \in WithFlag("STAGE_1") }
        /\ dls = Placed([s \in Slots |-> Blank], WithFlag("STAGE_1"), f)
  BY DEF Init
<1> DEFINE es == WithFlag("STAGE_1")
<1>3. /\ f \in [es -> Slots] /\ \A d, e \in es : f[d] = f[e] => d = e
      /\ \A e \in es : e \in Entities
  BY DEF Placement, WithFlag
<1>4. ASSUME NEW e \in es
      PROVE  dls[f[e]] = NewDlsInfo(Generic(e))
  <2>1. f[e] \in Slots /\ (CHOOSE x \in es : f[x] = f[e]) = e
    BY <1>3
  <2> QED
    BY <1>2, <2>1 DEF Placed
<1>5. ASSUME NEW t \in Slots, ~ \E e \in es : f[e] = t
      PROVE  dls[t] = Blank
  BY <1>2, <1>5 DEF Placed
<1>6. ASSUME NEW e \in es
      PROVE  /\ Sane(dls[f[e]]) /\ Linked(dls[f[e]]) /\ dls[f[e]].eid = e
             /\ dls[f[e]].numEventInterestRequested = 0
  BY <1>3, <1>4, NewDlsInfoSane, Generic(e)[2] = e DEF Generic
<1>7. RecordsSane
  BY <1>5, <1>6, BlankSane DEF RecordsSane
<1>8. SingleRecord
  BY <1>2, <1>6 DEF SingleRecord
<1>9. InterestsCounted
  <2>1. interests = {} /\ Cardinality({}) = 0
    BY FS_EmptySet DEF Init
  <2>2. \A e : { i \in interests : i.eid = Generic(e) } = {}
    BY <2>1
  <2> QED
    BY <1>2, <1>6, <2>1, <2>2 DEF InterestsCounted
<1>10. job = [NoJob EXCEPT !.boot = listed]
  BY DEF Init
<1>11. LocalsOK
  BY <1>10 DEF LocalsOK, NoJob
<1>12. RegistrationsOK
  BY <1>10, FS_EmptySet DEF RegistrationsOK, Init, NoJob
<1>13. MessagesOK
  <2>1. \A p \in Pids : Len(toSched[p]) = 0
    BY EmptySeq DEF Init
  <2> QED
    BY <2>1 DEF MessagesOK
<1> QED
  BY <1>7, <1>8, <1>9, <1>11, <1>12, <1>13 DEF RecordInv

LEMMA RecordStep ==
  ASSUME ConnectionInv, RecordInv, Next
  PROVE  RecordInv'
<1>1. TypeOK'
  BY TypeStep DEF ConnectionInv
<1>2. MessagesOK' /\ RegistrationsOK'
  BY MessagesStep, RegistrationsStep DEF RecordInv
<1>3. RecordsHold
  BY DEF RecordInv, RecordsHold
<1>4. LocalsOK' /\ RecordsHold'
  BY <1>1, <1>3, LocalsStep, RecordsStep DEF RecordInv
<1> QED
  BY <1>2, <1>4 DEF RecordInv, RecordsHold

LEMMA RecordStutter ==
  ASSUME RecordInv, UNCHANGED vars
  PROVE  RecordInv'
<1>1. UNCHANGED <<pc, job, listed, dls, interests, proc, toSched>>
  BY DEF vars, listVars, sockVars
<1> QED
  BY <1>1 DEF RecordInv, MessagesOK, RegistrationsOK, LocalsOK, RecordsSane, Collecting,
              SingleRecord, InterestsCounted

LEMMA RecordInvariant == Spec => [](ConnectionInv /\ RecordInv)
<1>1. Init => ConnectionInv /\ RecordInv
  BY InitConn, InitRecords
<1>2. (ConnectionInv /\ RecordInv) /\ [Next]_vars => (ConnectionInv /\ RecordInv)'
  BY ConnectionStep, ConnectionStutter, RecordStep, RecordStutter
<1> QED
  BY <1>1, <1>2, PTL DEF Spec

(* An application of which there can be one instance only never has two    *)
(* records, whatever launches it and however it is addressed, so the first *)
(* record getExistingDlsInfo finds is the only one.                        *)
THEOREM RecordsUnique == Spec => []SingleRecord
<1>1. RecordInv => SingleRecord
  BY DEF RecordInv
<1> QED
  BY <1>1, RecordInvariant, PTL

(* Outside collectApp a messaging application that sched takes for RUNNING *)
(* has a connection: sendMessageByAppState never writes to fd -1.          *)
THEOREM RunningConnected == Spec => []RunningHasConnection
<1>1. ConnectionInv /\ RecordInv => RunningHasConnection
  BY DEF ConnectionInv, TypeOK, RecordInv, RecordsSane, Linked, RunningHasConnection
<1> QED
  BY <1>1, RecordInvariant, PTL

(* numEventInterestRequested of a single-instance application is always    *)
(* the number of its registrations, and a registration always has a        *)
(* record: collectApp decides rightly whether to free one.                 *)
THEOREM InterestCountsExact == Spec => []InterestsCounted
<1>1. RecordInv => InterestsCounted
  BY DEF RecordInv
<1> QED
  BY <1>1, RecordInvariant, PTL

(* No end of collectApp, whether it relaunches, frees or keeps the record, *)
(* takes a registration of a single-instance application away.             *)
THEOREM InterestsOutliveProcess == Spec => InterestSurvivesExit
<1>1. ASSUME ConnectionInv, RecordInv, Next, pc = "finish", pc' \notin Down
      PROVE  { i \in interests : i.eid[1] = InvalidPid } \subseteq interests'
  <2>1. CASE UNCHANGED interests
    BY <2>1
  <2>2. CASE CleanSched
    BY <1>1, <2>2 DEF CleanSched, Down
  <2>3. CASE FinishCollect
    <3> DEFINE d == dls[job.target]
    <3>1. job.target \in listed /\ job.target \in Slots /\ d \in DlsInfo
      BY <1>1, <2>3 DEF FinishCollect, ConnectionInv, HandlerOK, TypeOK
    <3>2. ASSUME NEW o \in InterestUnregisterAll(interests, KeyOf(d)),
                 o.res # "segv", Freeable(d), interests' = o.ints,
                 NEW i \in interests, i.eid[1] = InvalidPid
          PROVE  i.eid # KeyOf(d)
      <4>1. PICK p \in Pids, x \in Entities : i.eid = OwnAddr(p, x)
        BY <1>1 DEF RecordInv, RegistrationsOK
      <4>2. i.eid = Generic(x)
        BY <3>2, <4>1, DlsAssumption DEF OwnAddr, MakeSpecificEid
      <4>3. CASE Multi(d.eid)
        <5>1. KeyOf(d) = d.specificEid
          BY <4>3 DEF KeyOf
        <5>2. d.specificEid = NoEid \/ d.specificEid[1] # InvalidPid
          BY <1>1, <3>1 DEF RecordInv, RecordsSane, Sane
        <5> QED
          BY <4>2, <5>1, <5>2, DlsAssumption DEF NoEid, Generic
      <4>4. CASE ~Multi(d.eid)
        <5>1. Cardinality(Mine(interests, d.eid)) = 0
          BY <1>1, <3>1, <3>2, <4>4 DEF Freeable, RecordInv, InterestsCounted, Mine
        <5>2. IsFiniteSet(Mine(interests, d.eid))
          BY <1>1, FS_Subset, Mine(interests, d.eid) \subseteq interests
             DEF RecordInv, RegistrationsOK, Mine
        <5>3. Mine(interests, d.eid) = {}
          BY <5>1, <5>2, FS_EmptySet
        <5> QED
          BY <4>4, <5>3 DEF KeyOf, Mine
      <4> QED
        BY <4>3, <4>4
    <3>3. ASSUME NEW o \in InterestUnregisterAll(interests, KeyOf(d)),
                 o.res # "segv", Freeable(d), interests' = o.ints
          PROVE  { i \in interests : i.eid[1] = InvalidPid } \subseteq interests'
      BY <3>2, <3>3, UnregisterAllResults
    <3> QED
      BY <2>1, <2>3, <3>3 DEF FinishCollect
  <2> QED
    BY <1>1, <2>1, <2>2, <2>3, AppFrame
       DEF Next, SchedStep, SchedBoot, AppLauncher, InitDls2, InitDls2Fails, BootDone,
           Sigterm, Accept, AcceptFails, ServerFdReadable, SchedReceive, RecvRequeue,
           RecvEvent, RecvRegister, RecvIsAppRunning, RecvAppControl, RecvOther,
           RouteMessage, Readable, Disconnected, SchedHandler, Distribute,
           DistributeDone, StopApp, Collect, CollectNothing, CollectTimeout,
           CollectGiveUp, StartApp, Reply, listVars
<1>2. (ConnectionInv /\ RecordInv) /\ [Next]_vars =>
        [ pc = "finish" /\ pc' \notin Down =>
            { i \in interests : i.eid[1] = InvalidPid } \subseteq interests' ]_vars
  BY <1>1
<1> QED
  BY <1>2, RecordInvariant, PTL DEF Spec, InterestSurvivesExit
=============================================================================
