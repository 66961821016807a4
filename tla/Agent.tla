-------------------------------- MODULE Agent --------------------------------
(* The core of the TR-069 agent (tr69Agent/src/core): the timer thread and *)
(* the event thread of event.c, the main session of mainloop.c, the delay  *)
(* events host_handler.c sets up at start, and the files that carry        *)
(* transfers over a restart.                                               *)
(*                                                                         *)
(* A step is what a thread does between two places where another thread,   *)
(* the management server (ACS) or a power failure can come in between. The *)
(* parameter tree, the SOAP texts and the contents of transfers are left   *)
(* out; a transfer is known by its command key, the number of its request. *)
EXTENDS Integers, Sequences, FiniteSets, SequencesExt

CONSTANTS
  Requests,      \* what the ACS asks for, in this order: a sequence of records
  ManagementServer, \* what update_managementServer_variables may leave in gManagementServer
  MaxRetryTimes, \* MAX_RETRY_TIMES
  HostCodes,     \* event codes the host raises: value changes, diagnostics...
  Wanted,        \* TRUE: the file request_download exists at first
  TransferFaults,\* TRUE: a transfer may end without a result, and a result be unwritten
  MaxHostEvents, \* bound: events the host raises
  MaxFaults,     \* bound: connections that fail and answers that are wrong
  MaxCrashes     \* bound: power failures

TransferKinds == { "DOWNLOAD", "UPLOAD" }
Kinds == TransferKinds \cup { "SCHEDULE" }
Rpcs == Kinds \cup { "Reboot", "FactoryReset" }
Codes == { "BOOTSTRAP", "BOOT", "PERIODIC", "TRANSFER_COMPLETE", "M_REBOOT", "REQUEST_DOWNLOAD",
           "SCHEDULED" } \cup HostCodes

NOW == 1
Never == -1      \* 2^32 - 1 seconds, and what is left of them: beyond the model
NoKey == 0       \* no file
Unwritten == -1  \* a result file without contents

(* Nothing in src assigns the gHoldRequest of mainloop.c: soap_parser.c has *)
(* a static one of its own, and nobody calls its get_holdrequest.          *)
gHoldRequest == 0

(* An upload without a delay is made within the session, and so is such a  *)
(* download of firmware, web content or configuration: they are left out.  *)
(* The interval and whether it is used are taken as they come; that they   *)
(* are both 0 is also what main_session sees while the host's thread is at *)
(* the memset of update_managementServer_variables.                        *)
ASSUME AgentAssumption ==
  /\ Requests \in Seq([ rpc : Rpcs, delay : Nat, firmware : BOOLEAN ])
  /\ \A i \in DOMAIN Requests :
       \/ Requests[i].rpc = "UPLOAD"
       \/ Requests[i].rpc = "DOWNLOAD" /\ Requests[i].firmware
       => Requests[i].delay > 0
  /\ ManagementServer # {} /\ ManagementServer \subseteq [ enable : BOOLEAN, interval : Nat ]
  /\ MaxRetryTimes \in Nat \ {0}
  /\ Wanted \in BOOLEAN /\ TransferFaults \in BOOLEAN
  /\ MaxHostEvents \in Nat /\ MaxFaults \in Nat /\ MaxCrashes \in Nat

Requested == 1 .. Len(Requests)
Files == Kinds \X Requested   \* a kind and an index make a file name

VARIABLES
  timing,     \* timingList
  timeout,    \* timeoutList
  job,        \* the event the event thread has taken
  evpc,       \* where the event thread is
  gEventCode, \* a set of codes
  gReboot,
  gRequestDownloadType, \* whether it is set
  freeIndex,  \* gDownloadFreeIndex, gUploadFreeIndex, gScheduleFreeIndex
  wake,       \* gMainSessionSem
  pc,         \* where the main session is
  gRetryTimes,
  reporting,  \* the key in transferCompletePtr
  task,       \* the task directory: the key in each file
  result,     \* the result directory: the key in each file, or Unwritten
  noBootstrap, mReboot, requestDownload, \* other files of the task directory
  asked,      \* requests the ACS has made
  stored,     \* history: keys store_*_event has written
  acked,      \* history: keys whose TransferComplete the ACS has answered
  unwritten,  \* history: keys whose result fwrite could not write
  silent,     \* history: the last session set no inform event that comes due, nor has the host
  hostEvents, faults, crashes

memory == <<timing, timeout, job, evpc, gEventCode, gReboot, gRequestDownloadType, freeIndex, wake>>
session == <<pc, gRetryTimes, reporting>>
disk == <<task, result, noBootstrap, mReboot, requestDownload>>
history == <<asked, stored, acked, unwritten, silent>>
bounds == <<hostEvents, faults, crashes>>
vars == <<memory, session, disk, history, bounds>>
-----------------------------------------------------------------------------
(* event.c: the lists                                                      *)

Event(type, index, time, codes, key) ==
  [ type |-> type, index |-> index, time |-> time, codes |-> codes, key |-> key ]

NoEvent == Event("none", 0, 0, {}, NoKey)
InformEvent(time, codes) == Event("INFORM", 0, time, codes, NoKey)
Name(e) == <<e.type, e.index>>

(* unsigned int: a time of 0 is the largest one after the first second.    *)
Later(t, u) == IF u = Never THEN FALSE ELSE IF t = Never THEN TRUE ELSE t > u
Decremented(e) == [ e EXCEPT !.time = IF @ \in { 0, Never } THEN Never ELSE @ - 1 ]

(* add_event: behind the last one that comes earlier; one of the same name *)
(* is taken out, and what it would have told with it.                      *)
AddEvent(list, e) ==
  LET k == Max({ 0 } \cup { i \in DOMAIN list : Later(e.time, list[i].time) })
      same == { i \in DOMAIN list : Name(list[i]) = Name(e) }
  IN  IF same = {} THEN InsertAt(list, k + 1, e)
      ELSE LET x == CHOOSE i \in same : TRUE
           IN  InsertAt(RemoveAt(list, x), IF x <= k THEN k ELSE k + 1, e)

(* The elements of S in the order R, a set of pairs: the n-th is the one   *)
(* with n elements up to it.                                               *)
UpTo(S, R, x) == { y \in S : <<y, x>> \in R }
Ordered(S, R) ==
  [ n \in 1 .. Cardinality(S) |-> CHOOSE x \in S : Cardinality(UpTo(S, R, x)) = n ]

Upwards(S) == Ordered(S, { p \in S \X S : p[1] <= p[2] })
Downwards(S) == Ordered(S, { p \in S \X S : p[1] >= p[2] })
At(list, places) == [ n \in DOMAIN places |-> list[places[n]] ]

(* timer_thread: every event that has come to 0 goes to the head of the    *)
(* timeout list.                                                           *)
Tick ==
  LET next == [ i \in DOMAIN timing |-> Decremented(timing[i]) ]
      due == { i \in DOMAIN timing : next[i].time = 0 }
  IN  /\ timing' = At(next, Upwards(DOMAIN timing \ due))
      /\ timeout' = At(next, Downwards(due)) \o timeout
      /\ UNCHANGED <<job, evpc, gEventCode, gReboot, gRequestDownloadType, freeIndex, wake,
                     session, disk, history, bounds>>

(* EventType and the table eventFunc it is an index of                     *)
EventType == [ INFORM |-> 1, DOWNLOAD |-> 2, UPLOAD |-> 3, STUN_NOTIFY |-> 4, SCHEDULE |-> 5 ]
eventFunc == << "event_inform", "event_download", "event_upload", "event_schedule",
                "event_stun_notify" >>
Calls(f) == evpc = "call" /\ eventFunc[EventType[job.type]] = f

EventTake ==
  /\ evpc = "take" /\ timeout # << >>
  /\ job' = Head(timeout) /\ timeout' = Tail(timeout)
  /\ evpc' = "call"
  /\ UNCHANGED <<timing, gEventCode, gReboot, gRequestDownloadType, freeIndex, wake,
                 session, disk, history, bounds>>

EventDone == evpc' = "take" /\ job' = NoEvent

EventInform ==
  /\ Calls("event_inform")
  /\ gEventCode' = gEventCode \cup job.codes
  /\ wake' = wake + 1
  /\ EventDone
  /\ UNCHANGED <<timing, timeout, gReboot, gRequestDownloadType, freeIndex, session, disk,
                 history, bounds>>

(* Places 4 and 5 of the table. The argument of a SCHEDULE event is not a  *)
(* STUN notification, and event_stun_notify does nothing with it. Only the *)
(* TR111 build adds a STUN_NOTIFY, so nothing calls event_schedule.        *)
EventScheduleOrStun ==
  /\ \/ Calls("event_stun_notify") /\ UNCHANGED <<task, timing>>
     \/ /\ Calls("event_schedule")
        /\ task' = [ task EXCEPT ![Name(job)] = NoKey ]
        /\ timing' = AddEvent(timing, InformEvent(NOW, { "SCHEDULED" }))
  /\ EventDone
  /\ UNCHANGED <<timeout, gEventCode, gReboot, gRequestDownloadType, freeIndex, wake, session,
                 result, noBootstrap, mReboot, requestDownload, history, bounds>>

(* A firmware that has come in makes the session end with a reboot.        *)
Firmware == gReboot' \in { gReboot, gReboot \/ Requests[job.key].firmware }

(* Mutant: the task is deleted before the transfer has a result.           *)
EventTransferForgets ==
  /\ Calls("event_download") \/ Calls("event_upload")
  /\ evpc' = "result"
  /\ task' = [ task EXCEPT ![Name(job)] = NoKey ]
  /\ UNCHANGED <<timing, timeout, job, gEventCode, gReboot, gRequestDownloadType, freeIndex, wake,
                 session, result, noBootstrap, mReboot, requestDownload, history, bounds>>

(* event_download and event_upload: the transfer. An unknown protocol, or  *)
(* a result file that cannot be opened, ends it without a result.          *)
EventTransfer ==
  /\ Calls("event_download") \/ Calls("event_upload")
  /\ \/ evpc' = "result" /\ UNCHANGED <<job, gReboot>>
     \/ TransferFaults /\ EventDone /\ Firmware
  /\ UNCHANGED <<timing, timeout, gEventCode, gRequestDownloadType, freeIndex, wake, session,
                 disk, history, bounds>>

(* Under tmp_file_lock: fopen empties the result file, fwrite fills it,    *)
(* then the task is deleted. A failed fwrite is logged, and the task is    *)
(* deleted all the same.                                                   *)
OpenResult ==
  /\ evpc = "result"
  /\ result' = [ result EXCEPT ![Name(job)] = Unwritten ]
  /\ evpc' = "write"
  /\ UNCHANGED <<timing, timeout, job, gEventCode, gReboot, gRequestDownloadType, freeIndex, wake,
                 session, task, noBootstrap, mReboot, requestDownload, history, bounds>>

WriteResult ==
  /\ evpc = "write"
  /\ \/ result' = [ result EXCEPT ![Name(job)] = job.key ] /\ UNCHANGED unwritten
     \/ TransferFaults /\ unwritten' = unwritten \cup { job.key } /\ UNCHANGED result
  /\ evpc' = "delete"
  /\ UNCHANGED <<timing, timeout, job, gEventCode, gReboot, gRequestDownloadType, freeIndex, wake,
                 session, task, noBootstrap, mReboot, requestDownload, asked, stored, acked, silent,
                 bounds>>

DeleteTask ==
  /\ evpc = "delete"
  /\ \/ /\ task[Name(job)] # NoKey
        /\ task' = [ task EXCEPT ![Name(job)] = NoKey ]
        /\ gEventCode' = gEventCode \cup { "TRANSFER_COMPLETE" }
     \/ task[Name(job)] = NoKey /\ UNCHANGED <<task, gEventCode>>
  /\ Firmware
  /\ EventDone
  /\ UNCHANGED <<timing, timeout, gRequestDownloadType, freeIndex, wake, session, result,
                 noBootstrap, mReboot, requestDownload, history, bounds>>

TmpFileLocked == evpc \in { "write", "delete" }
-----------------------------------------------------------------------------
(* mainloop.c: main_session                                                *)

Goto(l) == pc' = l

(* An exchange with the ACS fails, or does not.                            *)
Fails == faults < MaxFaults /\ faults' = faults + 1 /\ UNCHANGED <<hostEvents, crashes>>
Works == UNCHANGED bounds

(* Mutant: the semaphore is not waited for.                                *)
WakeUnasked ==
  /\ pc = "wait"
  /\ wake' = wake - 1
  /\ gRetryTimes' = 0
  /\ Goto("connect")
  /\ UNCHANGED <<timing, timeout, job, evpc, gEventCode, gReboot, gRequestDownloadType, freeIndex,
                 reporting, disk, history, bounds>>

Wake ==
  /\ pc = "wait" /\ wake > 0
  /\ wake' = wake - 1
  /\ gRetryTimes' = 0
  /\ gEventCode' = IF requestDownload THEN gEventCode \cup { "REQUEST_DOWNLOAD" } ELSE gEventCode
  /\ gRequestDownloadType' = (gRequestDownloadType \/ requestDownload)
  /\ Goto("connect")
  /\ UNCHANGED <<timing, timeout, job, evpc, gReboot, freeIndex, reporting, disk, history, bounds>>

Connect ==
  /\ pc = "connect"
  /\ \/ gRetryTimes < MaxRetryTimes /\ Works /\ Goto("inform") /\ UNCHANGED gRetryTimes
     \/ /\ gRetryTimes < MaxRetryTimes /\ Fails
        /\ gRetryTimes' = gRetryTimes + 1
        /\ UNCHANGED pc
     \/ gRetryTimes >= MaxRetryTimes /\ Works /\ Goto("tail") /\ UNCHANGED gRetryTimes
  /\ UNCHANGED <<memory, reporting, disk, history>>

HasResult == \E f \in Files : result[f] # NoKey

(* update_inform_content: the codes of the Inform                          *)
UpdateInform ==
  /\ pc = "inform" /\ ~TmpFileLocked
  /\ gEventCode' = gEventCode \cup (IF HasResult THEN { "TRANSFER_COMPLETE" } ELSE {})
                              \cup (IF mReboot THEN { "M_REBOOT" } ELSE {})
  /\ Goto("send")
  /\ UNCHANGED <<timing, timeout, job, evpc, gReboot, gRequestDownloadType, freeIndex, wake,
                 gRetryTimes, reporting, disk, history, bounds>>

(* The answer to the Inform clears every code set by then. One that is no  *)
(* InformResponse starts the session again without counting.               *)
SendInform ==
  /\ pc = "send"
  /\ \/ /\ Works
        /\ gRetryTimes' = 0
        /\ noBootstrap' = (noBootstrap \/ "BOOTSTRAP" \in gEventCode)
        /\ mReboot' = (mReboot /\ "M_REBOOT" \notin gEventCode)
        /\ gEventCode' = {}
        /\ Goto("transfers")
     \/ /\ Fails
        /\ gRetryTimes' \in { gRetryTimes, gRetryTimes + 1 }
        /\ Goto("connect")
        /\ UNCHANGED <<noBootstrap, mReboot, gEventCode>>
  /\ UNCHANGED <<timing, timeout, job, evpc, gReboot, gRequestDownloadType, freeIndex, wake,
                 reporting, task, result, requestDownload, history>>

(* What fread leaves in the response of f, a local variable that nobody    *)
(* initialises: of an empty file any key, or none, that was there before.  *)
Response(f) == IF result[f] = Unwritten THEN { Unwritten } \cup Requested ELSE { result[f] }

(* Mutant: only the event code tells that there are results.               *)
NextTransferByCode ==
  /\ pc = "transfers"
  /\ \/ /\ "TRANSFER_COMPLETE" \in gEventCode /\ HasResult /\ ~TmpFileLocked
        /\ \E f \in Files : result[f] # NoKey /\ reporting' \in Response(f)
        /\ Goto("report")
     \/ "TRANSFER_COMPLETE" \notin gEventCode /\ Goto("request") /\ UNCHANGED reporting
  /\ UNCHANGED <<memory, gRetryTimes, disk, history, bounds>>

(* One result at a time: gMaxSendEnvelopes stays 1, no InformResponse      *)
(* comes to handle_server_rpc_commands.                                    *)
NextTransfer ==
  /\ pc = "transfers"
  /\ \/ /\ gHoldRequest # 1 /\ HasResult /\ ~TmpFileLocked
        /\ \E f \in Files : result[f] # NoKey /\ reporting' \in Response(f)
        /\ Goto("report")
     \/ ~(gHoldRequest # 1 /\ HasResult) /\ Goto("request") /\ UNCHANGED reporting
  /\ UNCHANGED <<memory, gRetryTimes, disk, history, bounds>>

(* remove_transfer_done_event: the files that tell of the reported key.    *)
Removes(f) == result[f] # NoKey /\ reporting \in Response(f)

(* TransferComplete, and remove_transfer_done_event when it is answered    *)
SendTransfer ==
  /\ pc = "report"
  /\ reporting' = NoKey
  /\ \/ /\ Works /\ ~TmpFileLocked
        /\ \E removed \in SUBSET { f \in Files : Removes(f) } :
             /\ \A f \in Files : Removes(f) /\ result[f] # Unwritten => f \in removed
             /\ result' = [ f \in Files |-> IF f \in removed THEN NoKey ELSE result[f] ]
        /\ acked' = acked \cup ({ reporting } \cap Requested)
        /\ Goto("transfers")
     \/ /\ Fails
        /\ \/ Goto("connect") \/ Goto("request")
        /\ UNCHANGED <<result, acked>>
  /\ UNCHANGED <<memory, gRetryTimes, task, noBootstrap, mReboot, requestDownload, asked, stored,
                 unwritten, silent>>

(* RequestDownload: a wrong answer leaves the loop of main_session.        *)
RequestDownload ==
  /\ pc = "request"
  /\ \/ /\ ~(gRequestDownloadType /\ gHoldRequest # 1) /\ Works
        /\ Goto("empty")
        /\ UNCHANGED <<gRequestDownloadType, requestDownload>>
     \/ /\ gRequestDownloadType /\ gHoldRequest # 1 /\ Works
        /\ gRequestDownloadType' = FALSE /\ requestDownload' = FALSE
        /\ Goto("empty")
     \/ /\ gRequestDownloadType /\ gHoldRequest # 1 /\ Fails
        /\ \/ Goto("connect") \/ Goto("returned")
        /\ UNCHANGED <<gRequestDownloadType, requestDownload>>
  /\ UNCHANGED <<timing, timeout, job, evpc, gEventCode, gReboot, freeIndex, wake, gRetryTimes,
                 reporting, task, result, noBootstrap, mReboot, history>>

(* The empty packet, or the answer to a request, is sent.                  *)
Send ==
  /\ pc \in { "empty", "reply" }
  /\ \/ Works /\ Goto("serve")
     \/ Fails /\ Goto("connect")
  /\ UNCHANGED <<memory, gRetryTimes, reporting, disk, history>>

(* handle_server_rpc_commands. A transfer or a scheduled inform is put in  *)
(* the event list first, and stored in its file afterwards.                *)
ServeTask ==
  /\ pc = "serve" /\ asked < Len(Requests)
  /\ LET r == Requests[asked + 1]
     IN  /\ r.rpc \in Kinds
         /\ timing' = AddEvent(timing, Event(r.rpc, freeIndex[r.rpc], r.delay, {}, asked + 1))
         /\ freeIndex' = [ freeIndex EXCEPT ![r.rpc] = @ + 1 ]
  /\ asked' = asked + 1
  /\ Goto("store")
  /\ UNCHANGED <<timeout, job, evpc, gEventCode, gReboot, gRequestDownloadType, wake, gRetryTimes,
                 reporting, disk, stored, acked, unwritten, silent, bounds>>

StoreTask ==
  /\ pc = "store"
  /\ LET kind == Requests[asked].rpc
     IN  task' = [ task EXCEPT ![<<kind, freeIndex[kind] - 1>>] = asked ]
  /\ stored' = stored \cup { asked }
  /\ Goto("reply")
  /\ UNCHANGED <<memory, gRetryTimes, reporting, result, noBootstrap, mReboot, requestDownload,
                 asked, acked, unwritten, silent, bounds>>

ServeReboot ==
  /\ pc = "serve" /\ asked < Len(Requests)
  /\ LET rpc == Requests[asked + 1].rpc
     IN  \/ rpc = "Reboot" /\ mReboot' = TRUE /\ UNCHANGED noBootstrap
         \/ rpc = "FactoryReset" /\ noBootstrap' = FALSE /\ UNCHANGED mReboot
  /\ asked' = asked + 1
  /\ gReboot' = TRUE
  /\ Goto("reply")
  /\ UNCHANGED <<timing, timeout, job, evpc, gEventCode, gRequestDownloadType, freeIndex, wake,
                 gRetryTimes, reporting, task, result, requestDownload, stored, acked, unwritten,
                 silent, bounds>>

(* The ACS has nothing more to ask.                                        *)
ServeEmpty ==
  /\ pc = "serve"
  /\ Goto("tail")
  /\ UNCHANGED <<memory, gRetryTimes, reporting, disk, history, bounds>>

(* Mutant: a session that gave up does not set the next one.               *)
EndSessionGivesUp ==
  /\ pc = "tail" /\ ~gReboot
  /\ \E s \in ManagementServer :
       /\ timing' = IF s.enable /\ gRetryTimes < MaxRetryTimes
                    THEN AddEvent(timing, InformEvent(s.interval, { "PERIODIC" })) ELSE timing
       /\ silent' = (~s.enable \/ s.interval = 0)
  /\ Goto("wait")
  /\ UNCHANGED <<timeout, job, evpc, gEventCode, gReboot, gRequestDownloadType, freeIndex, wake,
                 gRetryTimes, reporting, disk, asked, stored, acked, unwritten, bounds>>

(* sessiontail_tag: the next session is set if periodicInformEnable says   *)
(* so. An interval of 0 never comes, and takes the place of an inform that *)
(* would have.                                                             *)
EndSession ==
  /\ pc = "tail" /\ ~gReboot
  /\ \E s \in ManagementServer :
       /\ timing' = IF s.enable THEN AddEvent(timing, InformEvent(s.interval, { "PERIODIC" }))
                                ELSE timing
       /\ silent' = (~s.enable \/ s.interval = 0)
  /\ Goto("wait")
  /\ UNCHANGED <<timeout, job, evpc, gEventCode, gReboot, gRequestDownloadType, freeIndex, wake,
                 gRetryTimes, reporting, disk, asked, stored, acked, unwritten, bounds>>
-----------------------------------------------------------------------------
(* host_handler.c                                                          *)

(* init_delay_events: the tasks it finds, the order in which it adds them, *)
(* and how long each still has to wait at most.                            *)
Stored == { f \in Files : task[f] # NoKey }
AddedBefore(f, g) ==
  LET place == [ DOWNLOAD |-> 0, UPLOAD |-> 1, SCHEDULE |-> 2 ]
  IN  3 * f[2] + place[f[1]] < 3 * g[2] + place[g[1]]
StillToWait(f) == NOW .. Max({ NOW, Requests[task[f]].delay })

(* The events it adds to the empty list: add_event puts each before the    *)
(* earlier ones of the same time.                                          *)
DelayOrder(waits) ==
  { p \in Stored \X Stored : \/ waits[p[1]] < waits[p[2]]
                             \/ waits[p[1]] = waits[p[2]] /\ ~AddedBefore(p[1], p[2]) }
DelayEvents(waits) ==
  LET DelayEvent(f) == Event(f[1], f[2], waits[f], {}, task[f])
      files == Ordered(Stored, DelayOrder(waits))
  IN  [ n \in DOMAIN files |-> DelayEvent(files[n]) ]

(* INIT_END: what a start makes of the files                               *)
InitEnd ==
  /\ \E waits \in [ Stored -> NOW .. Max({ NOW } \cup { Requests[i].delay : i \in Requested }) ] :
       /\ \A f \in Stored : waits[f] \in StillToWait(f)
       /\ timing' = AddEvent(DelayEvents(waits),
                             InformEvent(NOW, { "BOOT" } \cup IF noBootstrap THEN {}
                                                             ELSE { "BOOTSTRAP" }))
  /\ gEventCode' = IF noBootstrap THEN {} ELSE { "BOOTSTRAP" }
  /\ freeIndex' = [ k \in Kinds |-> 1 + Max({ 0 } \cup { i \in Requested : task[<<k, i>>] # NoKey }) ]

(* Memory is lost, the files are kept.                                     *)
Restart ==
  /\ InitEnd
  /\ timeout' = << >> /\ job' = NoEvent /\ evpc' = "take"
  /\ gReboot' = FALSE /\ gRequestDownloadType' = FALSE
  /\ wake' = 0 /\ pc' = "wait" /\ gRetryTimes' = 0 /\ reporting' = NoKey
  /\ silent' = FALSE
  /\ UNCHANGED <<disk, asked, stored, acked, unwritten, hostEvents, faults>>

(* do_reboot at the end of a session                                       *)
Reboot == pc = "tail" /\ gReboot /\ Restart /\ UNCHANGED crashes

Crash == crashes < MaxCrashes /\ crashes' = crashes + 1 /\ Restart

(* A value changes, a diagnosis is complete, the ACS requests a            *)
(* connection: an inform event, and a value change also at once, which is  *)
(* all for a parameter with passive notification.                          *)
HostEvent ==
  /\ hostEvents < MaxHostEvents
  /\ hostEvents' = hostEvents + 1
  /\ \E c \in HostCodes :
       /\ gEventCode' = IF c = "VALUE_CHANGE" THEN gEventCode \cup { c } ELSE gEventCode
       /\ \/ timing' = AddEvent(timing, InformEvent(NOW, { c })) /\ silent' = FALSE
          \/ c = "VALUE_CHANGE" /\ UNCHANGED <<timing, silent>>
  /\ UNCHANGED <<timeout, job, evpc, gReboot, gRequestDownloadType, freeIndex, wake, session, disk,
                 asked, stored, acked, unwritten, faults, crashes>>
-----------------------------------------------------------------------------
Init ==
  /\ timing = << InformEvent(NOW, { "BOOT", "BOOTSTRAP" }) >> /\ timeout = << >>
  /\ job = NoEvent /\ evpc = "take"
  /\ gEventCode = { "BOOTSTRAP" } /\ gReboot = FALSE /\ gRequestDownloadType = FALSE
  /\ freeIndex = [ k \in Kinds |-> 1 ]
  /\ wake = 0 /\ pc = "wait" /\ gRetryTimes = 0 /\ reporting = NoKey
  /\ task = [ f \in Files |-> NoKey ] /\ result = [ f \in Files |-> NoKey ]
  /\ noBootstrap = FALSE /\ mReboot = FALSE /\ requestDownload = Wanted
  /\ asked = 0 /\ stored = {} /\ acked = {} /\ unwritten = {} /\ silent = FALSE
  /\ hostEvents = 0 /\ faults = 0 /\ crashes = 0

EventThread ==
  \/ EventTake \/ EventInform \/ EventScheduleOrStun
  \/ EventTransfer \/ OpenResult \/ WriteResult \/ DeleteTask

MainSession ==
  \/ Wake \/ Connect \/ UpdateInform \/ SendInform \/ NextTransfer \/ SendTransfer
  \/ RequestDownload \/ Send \/ ServeTask \/ StoreTask \/ ServeReboot \/ ServeEmpty
  \/ EndSession \/ Reboot

Next == Tick \/ EventThread \/ MainSession \/ HostEvent \/ Crash

Spec == Init /\ [][Next]_vars

(* The threads run on. That exchanges with the ACS fail only MaxFaults     *)
(* times stands for an ACS that is reached and answers at last.            *)
FairSpec ==
  Spec /\ WF_vars(Tick) /\ WF_vars(EventThread) /\ WF_vars(MainSession)
-----------------------------------------------------------------------------
(* Properties                                                              *)

Events ==
  [ type : Kinds \cup { "INFORM" }, index : Nat, time : Nat \cup { Never }, codes : SUBSET Codes,
    key : { NoKey } \cup Requested ]

TypeOK ==
  /\ timing \in Seq(Events) /\ timeout \in Seq(Events)
  /\ job \in Events \cup { NoEvent } /\ evpc \in { "take", "call", "result", "write", "delete" }
  /\ gEventCode \subseteq Codes /\ gReboot \in BOOLEAN /\ gRequestDownloadType \in BOOLEAN
  /\ freeIndex \in [ Kinds -> 1 .. Len(Requests) + 1 ]
  /\ wake \in Nat
  /\ pc \in { "wait", "connect", "inform", "send", "transfers", "report", "request", "empty",
              "serve", "store", "reply", "tail", "returned" }
  /\ gRetryTimes \in 0 .. MaxRetryTimes
  /\ reporting \in { NoKey, Unwritten } \cup Requested
  /\ task \in [ Files -> { NoKey } \cup Requested ]
  /\ result \in [ Files -> { NoKey, Unwritten } \cup Requested ]
  /\ noBootstrap \in BOOLEAN /\ mReboot \in BOOLEAN /\ requestDownload \in BOOLEAN
  /\ asked \in 0 .. Len(Requests) /\ silent \in BOOLEAN
  /\ stored \subseteq Requested /\ acked \subseteq Requested
  /\ unwritten \subseteq { NoKey } \cup Requested
  /\ hostEvents \in Nat /\ faults \in Nat /\ crashes \in Nat

(* "write file to avoid reboot and information lost": a request whose file *)
(* was written stays on the disk, as a task or as a result, until the ACS  *)
(* has answered its TransferComplete, whenever the power fails, between    *)
(* opening and writing the result too. The one loss is the result that     *)
(* fwrite fails to write: its task is deleted nevertheless.                *)
NoTransferLost ==
  \A k \in stored :
    k \in acked \cup unwritten \/ \E f \in Files : k \in { task[f], result[f] }

(* The agent never waits for a wake-up that cannot come: whatever inform   *)
(* events replaced each other and however sessions failed, one that comes  *)
(* due is in the lists while main_session waits on its semaphore, unless   *)
(* the variables read when the last session ended set none: periodic       *)
(* informs disabled, or an interval of 0.                                  *)
AlwaysWakes ==
  pc = "wait" /\ wake = 0 /\ ~silent =>
    \/ job.type = "INFORM"
    \/ \E i \in DOMAIN timeout : timeout[i].type = "INFORM"
    \/ \E i \in DOMAIN timing : timing[i].type = "INFORM" /\ timing[i].time \in Nat \ { 0 }

(* What the proofs of TypeOK and AlwaysWakes rest on, beside TypeOK: no    *)
(* file index is ahead of the requests made;                               *)
IndicesFollowRequests ==
  /\ \A k \in Kinds : freeIndex[k] <= asked + 1
  /\ \A f \in Files : task[f] # NoKey => f[2] <= asked

(* what main_session knows where it is;                                    *)
SessionKnows ==
  /\ pc = "store" => asked > 0
  /\ pc \in { "inform", "send" } => gRetryTimes < MaxRetryTimes
  /\ pc = "report" => reporting # NoKey

(* the event thread drops an event only when its function has returned.    *)
EventThreadHolds ==
  /\ evpc = "take" => job = NoEvent
  /\ evpc # "take" => job \in Events
  /\ evpc \in { "result", "write", "delete" } => job.type \in TransferKinds

WakeInv ==
  TypeOK /\ IndicesFollowRequests /\ SessionKnows /\ EventThreadHolds /\ AlwaysWakes

(* What the proof of NoTransferLost rests on. The ACS asks for one         *)
(* download and one upload at most: a start gives the index of a finished  *)
(* transfer to the next one of its kind, which loses a result that waits.  *)
OneTransferOfEachKind ==
  \A i \in Requested, j \in Requested :
    Requests[i].rpc = Requests[j].rpc /\ Requests[i].rpc \in TransferKinds => i = j

(* Files and events hold keys of their own kind.                           *)
OfItsKind(e) ==
  e.type \in Kinds => /\ e.index \in Requested /\ e.key \in Requested
                      /\ Requests[e.key].rpc = e.type
Pending ==
  { job } \cup { timing[i] : i \in DOMAIN timing } \cup { timeout[i] : i \in DOMAIN timeout }
EventsOfTheirKind == \A e \in Pending : OfItsKind(e)
FilesOfTheirKind ==
  \A f \in Files : /\ task[f] # NoKey => Requests[task[f]].rpc = f[1]
                   /\ result[f] \in Requested => Requests[result[f]].rpc = f[1]

(* A task is stored in a file that is free, and the files from freeIndex   *)
(* on are.                                                                 *)
FreeIndexIsFree ==
  /\ \A f \in Files : task[f] # NoKey => f[2] < freeIndex[f[1]]
  /\ pc = "store" =>
       LET kind == Requests[asked].rpc
       IN  /\ <<kind, freeIndex[kind] - 1>> \in Files
           /\ task[<<kind, freeIndex[kind] - 1>>] = NoKey

(* The result is there before the task is deleted, unless fwrite failed.   *)
ResultIsWritten == evpc = "delete" => result[Name(job)] = job.key \/ job.key \in unwritten

(* Only a request that was stored, once, is in a task file.                *)
TasksAreStored ==
  /\ stored \subseteq 1 .. asked
  /\ pc = "store" => asked \notin stored
  /\ \A f \in Files : task[f] # NoKey => task[f] \in stored
  /\ \A f \in Files, g \in Files : task[f] # NoKey /\ task[f] = task[g] => f = g

(* No two events of a kind are in the lists and the event thread's hands;  *)
Once(list, kind) ==
  \A i \in DOMAIN list, j \in DOMAIN list : list[i].type = kind /\ list[j].type = kind => i = j
In(list, kind) == \E i \in DOMAIN list : list[i].type = kind
OneEventOfEachKind ==
  \A kind \in TransferKinds :
    /\ Once(timing, kind) /\ Once(timeout, kind)
    /\ ~(In(timing, kind) /\ In(timeout, kind))
    /\ job.type = kind => ~In(timing, kind) /\ ~In(timeout, kind)

(* the task of the one there is has not been deleted, and is about to be   *)
(* stored if it is not yet.                                                *)
HasTask(e) ==
  e.type \in TransferKinds =>
    /\ e.key <= asked
    /\ e.key \in stored => task[Name(e)] = e.key
    /\ pc = "store" /\ e.key = asked => e.index = freeIndex[e.type] - 1
EventsHaveTasks == \A e \in Pending : HasTask(e)

TransferInv ==
  /\ EventsOfTheirKind /\ FilesOfTheirKind /\ FreeIndexIsFree /\ ResultIsWritten /\ TasksAreStored
  /\ OneTransferOfEachKind => OneEventOfEachKind /\ EventsHaveTasks /\ NoTransferLost

(* Finished transfers are reported: although event_download wakes nobody,  *)
(* a later session sends and removes every result, unless main_session has *)
(* returned, no further session was set, or one of the files is empty: the *)
(* loop over the results may then report that one without end.             *)
ResultsAreReported ==
  HasResult ~>
    \/ ~HasResult
    \/ pc = "returned" \/ silent
    \/ \E f \in Files : result[f] = Unwritten

(* "callback function of schedule event, set the event code and wake up    *)
(* the main session": a scheduled inform that has come due sets its code,  *)
(* or has an inform event that will.                                       *)
ScheduleIsInformed ==
  job.type = "SCHEDULE" ~>
    \/ "SCHEDULED" \in gEventCode
    \/ \E i \in DOMAIN timing : "SCHEDULED" \in timing[i].codes
=============================================================================
