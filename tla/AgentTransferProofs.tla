------------------------- MODULE AgentTransferProofs -------------------------
(* Proof that the agent loses no transfer as long as the ACS asks for one  *)
(* download and one upload at most.                                        *)
EXTENDS AgentProofs

(* The same transfer, at another time                                      *)
SameTransfer(e, d) == e.type = d.type /\ e.index = d.index /\ e.key = d.key

LEMMA InformOfNoKind ==
  ASSUME NEW t \in Nat, NEW codes \in SUBSET Codes
  PROVE  InformEvent(t, codes) \in Events /\ InformEvent(t, codes).type \notin Kinds
<1>1. InformEvent(t, codes) \in Events /\ InformEvent(t, codes).type = "INFORM"
  BY InformEventTyped
<1>2. "INFORM" \notin Kinds
  BY DEF Kinds, TransferKinds
<1> QED
  BY <1>1, <1>2

LEMMA NoEventOfNoKind == NoEvent.type \notin Kinds
  BY DEF NoEvent, Event, Kinds, TransferKinds

LEMMA TransferKindsAreKinds == TransferKinds \subseteq Kinds
  BY DEF Kinds

(* Once: through add_event,                                                *)
LEMMA InsertOnce ==
  ASSUME NEW E, NEW list \in Seq(E), NEW e \in E, NEW k \in 0 .. Len(list)
  PROVE  \A kind : Once(list, kind) /\ (e.type # kind \/ ~In(list, kind))
                    => Once(InsertAt(list, k + 1, e), kind)
<1> DEFINE t == InsertAt(list, k + 1, e)
<1>1. /\ t \in Seq(E) /\ Len(t) = Len(list) + 1
      /\ \A i \in 1 .. Len(list) + 1 :
           t[i] = IF i <= k THEN list[i] ELSE IF i = k + 1 THEN e ELSE list[i - 1]
  BY InsertAtPlaces
<1> HIDE DEF t
<1>2. DOMAIN t = 1 .. Len(list) + 1 /\ DOMAIN list = 1 .. Len(list) /\ Len(list) \in Nat
  BY <1>1
<1> DEFINE old(i) == IF i <= k THEN i ELSE i - 1
<1>3. \A i \in DOMAIN t : i # k + 1 => old(i) \in DOMAIN list /\ t[i] = list[old(i)]
  BY <1>1, <1>2
<1>4. \A i \in DOMAIN t, j \in DOMAIN t :
        i # k + 1 /\ j # k + 1 /\ old(i) = old(j) => i = j
  BY <1>2
<1>5. t[k + 1] = e /\ k + 1 \in DOMAIN t
  BY <1>1, <1>2
<1> HIDE DEF old
<1>6. ASSUME NEW kind, Once(list, kind), e.type # kind \/ ~In(list, kind)
      PROVE  Once(t, kind)
  <2>1. CASE e.type # kind
    BY <1>3, <1>4, <1>5, <1>6, <2>1 DEF Once
  <2>2. CASE ~In(list, kind)
    BY <1>3, <1>5, <1>6, <2>2 DEF Once, In
  <2> QED BY <1>6, <2>1, <2>2
<1> QED
  BY <1>6 DEF t

LEMMA RemoveOnce ==
  ASSUME NEW list \in Seq(Events), NEW k \in 1 .. Len(list), NEW kind, Once(list, kind)
  PROVE  /\ RemoveAt(list, k) \in Seq(Events) /\ Len(RemoveAt(list, k)) = Len(list) - 1
         /\ Once(RemoveAt(list, k), kind)
         /\ ~In(list, kind) => ~In(RemoveAt(list, k), kind)
<1> DEFINE t == RemoveAt(list, k)
           old(i) == IF i < k THEN i ELSE i + 1
<1>1. /\ t \in Seq(Events) /\ Len(t) = Len(list) - 1
      /\ \A i \in 1 .. Len(list) - 1 : t[i] = IF i < k THEN list[i] ELSE list[i + 1]
  BY RemoveAtPlaces
<1> HIDE DEF t
<1>2. DOMAIN t = 1 .. Len(list) - 1 /\ DOMAIN list = 1 .. Len(list) /\ Len(list) \in Nat
  BY <1>1
<1>3. \A i \in DOMAIN t : old(i) \in DOMAIN list /\ t[i] = list[old(i)]
  BY <1>1, <1>2
<1>4. \A i \in DOMAIN t, j \in DOMAIN t : old(i) = old(j) => i = j
  BY <1>2
<1> HIDE DEF old
<1>5. Once(t, kind) /\ (~In(list, kind) => ~In(t, kind))
  BY <1>3, <1>4 DEF Once, In
<1> QED
  BY <1>1, <1>5 DEF t

LEMMA AddEventOnce ==
  ASSUME NEW list \in Seq(Events), NEW e \in Events, NEW kind,
         Once(list, kind), e.type # kind \/ ~In(list, kind)
  PROVE  /\ Once(AddEvent(list, e), kind)
         /\ In(AddEvent(list, e), kind) => In(list, kind) \/ e.type = kind
<1>1. Once(AddEvent(list, e), kind)
  <2>1. CASE \E k \in 0 .. Len(list) : AddEvent(list, e) = InsertAt(list, k + 1, e)
    BY <2>1, InsertOnce
  <2>2. CASE \E x \in 1 .. Len(list), k \in 0 .. Len(list) - 1 :
               AddEvent(list, e) = InsertAt(RemoveAt(list, x), k + 1, e)
    <3>1. PICK x \in 1 .. Len(list), k \in 0 .. Len(list) - 1 :
                 AddEvent(list, e) = InsertAt(RemoveAt(list, x), k + 1, e)
      BY <2>2
    <3> DEFINE r == RemoveAt(list, x)
    <3>2. /\ r \in Seq(Events) /\ Len(r) = Len(list) - 1
          /\ Once(r, kind) /\ (~In(list, kind) => ~In(r, kind))
      BY RemoveOnce
    <3>3. AddEvent(list, e) = InsertAt(r, k + 1, e)
      BY <3>1
    <3> HIDE DEF r
    <3> QED BY <3>2, <3>3, InsertOnce
  <2> QED BY <2>1, <2>2, AddEventForm
<1>2. From(AddEvent(list, e), list, e)
  BY AddEventElements
<1> QED
  BY <1>1, <1>2 DEF From, In

(* through the timer thread,                                               *)
LEMMA AtOnce ==
  ASSUME NEW list, NEW S, NEW places, Lists(places, S), NEW kind,
         \A x \in S, y \in S : list[x].type = kind /\ list[y].type = kind => x = y
  PROVE  Once(At(list, places), kind)
<1> PICK m \in Nat : /\ places \in [ 1 .. m -> S ]
                     /\ \A i \in 1 .. m, j \in 1 .. m : places[i] = places[j] => i = j
  BY DEF Lists
<1>1. DOMAIN At(list, places) = 1 .. m /\ \A i \in 1 .. m : At(list, places)[i] = list[places[i]]
  BY DEF At
<1> QED
  BY <1>1 DEF Once

LEMMA ConcatOnce ==
  ASSUME NEW E, NEW s \in Seq(E), NEW t \in Seq(E), NEW kind,
         Once(s, kind), Once(t, kind), ~(In(s, kind) /\ In(t, kind))
  PROVE  Once(s \o t, kind)
<1> DEFINE u == s \o t
<1>1. /\ Len(s) \in Nat /\ Len(t) \in Nat
      /\ DOMAIN s = 1 .. Len(s) /\ DOMAIN t = 1 .. Len(t)
  OBVIOUS
<1>2. /\ u \in Seq(E) /\ Len(u) = Len(s) + Len(t)
      /\ \A i \in 1 .. Len(s) + Len(t) : u[i] = IF i <= Len(s) THEN s[i] ELSE t[i - Len(s)]
  BY ConcatProperties
<1> HIDE DEF u
<1>3. DOMAIN u = 1 .. Len(s) + Len(t)
  BY <1>2
<1>4. ASSUME NEW i \in DOMAIN u, NEW j \in DOMAIN u, u[i].type = kind, u[j].type = kind
      PROVE  i = j
  <2>1. ASSUME NEW n \in DOMAIN u
        PROVE  \/ n \in DOMAIN s /\ u[n] = s[n]
               \/ n - Len(s) \in DOMAIN t /\ u[n] = t[n - Len(s)]
    <3>1. n \in 1 .. Len(s) + Len(t) /\ u[n] = IF n <= Len(s) THEN s[n] ELSE t[n - Len(s)]
      BY <1>2, <1>3
    <3>2. CASE n <= Len(s)
      BY <1>1, <3>1, <3>2
    <3>3. CASE n > Len(s)
      BY <1>1, <3>1, <3>3
    <3> QED BY <1>1, <3>1, <3>2, <3>3
  <2>2. CASE i \in DOMAIN s /\ u[i] = s[i] /\ j \in DOMAIN s /\ u[j] = s[j]
    BY <1>4, <2>2 DEF Once
  <2>3. CASE /\ i - Len(s) \in DOMAIN t /\ u[i] = t[i - Len(s)]
             /\ j - Len(s) \in DOMAIN t /\ u[j] = t[j - Len(s)]
    <3>1. i - Len(s) = j - Len(s)
      BY <1>4, <2>3 DEF Once
    <3> QED BY <1>1, <1>3, <3>1
  <2> QED BY <1>4, <2>1, <2>2, <2>3 DEF In
<1>5. Once(u, kind)
  BY <1>4 DEF Once
<1> QED
  BY <1>5 DEF u

(* Steps that leave the files and the indices alone, and add no event of a *)
(* file                                                                    *)
LEMMA EventsStep ==
  ASSUME WakeInv, TransferInv,
         \A e \in Pending' : e.type \in Kinds => \E d \in Pending : SameTransfer(e, d),
         UNCHANGED <<freeIndex, task, result, stored, acked, unwritten>>,
         evpc' = "delete" => UNCHANGED <<evpc, job>>,
         pc' = "store" => UNCHANGED <<pc, asked>>,
         asked' \in { asked, asked + 1 },
         OneEventOfEachKind => OneEventOfEachKind'
  PROVE  TransferInv'
<1>1. EventsOfTheirKind'
  <2>1. ASSUME NEW e \in Pending' PROVE OfItsKind(e)
    BY <2>1 DEF TransferInv, EventsOfTheirKind, OfItsKind, SameTransfer
  <2> QED BY <2>1 DEF EventsOfTheirKind, OfItsKind
<1>2. FilesOfTheirKind' /\ ResultIsWritten' /\ FreeIndexIsFree'
  BY DEF TransferInv, FilesOfTheirKind, ResultIsWritten, FreeIndexIsFree, Name
<1>3. asked \in Nat
  BY DEF WakeInv, TypeOK
<1>4. TasksAreStored'
  <2>1. stored' \subseteq 1 .. asked'
    BY <1>3 DEF TransferInv, TasksAreStored
  <2> QED BY <2>1 DEF TransferInv, TasksAreStored
<1>5. ASSUME OneTransferOfEachKind
      PROVE  OneEventOfEachKind' /\ EventsHaveTasks' /\ NoTransferLost'
  <2>1. OneEventOfEachKind' /\ NoTransferLost'
    BY <1>5 DEF TransferInv, NoTransferLost
  <2>2. ASSUME NEW e \in Pending', e.type \in TransferKinds
        PROVE  /\ e.key <= asked'
               /\ e.key \in stored => task[<<e.type, e.index>>] = e.key
               /\ pc' = "store" /\ e.key = asked' => e.index = freeIndex[e.type] - 1
    <3>1. PICK d \in Pending : SameTransfer(e, d)
      BY <2>2, TransferKindsAreKinds
    <3>2. HasTask(d) /\ d.type \in TransferKinds
      BY <1>5, <2>2, <3>1 DEF TransferInv, EventsHaveTasks, SameTransfer
    <3>3. d.key \in Nat
      BY <3>1, <3>2, TransferKindsAreKinds DEF TransferInv, EventsOfTheirKind, OfItsKind, Requested
    <3>4. e.key <= asked'
      BY <1>3, <3>1, <3>2, <3>3 DEF HasTask, SameTransfer
    <3> QED BY <3>1, <3>2, <3>4 DEF HasTask, SameTransfer, Name
  <2>3. EventsHaveTasks'
    BY <2>2 DEF EventsHaveTasks, HasTask, Name
  <2> QED BY <2>1, <2>3
<1>6. (OneTransferOfEachKind => OneEventOfEachKind /\ EventsHaveTasks /\ NoTransferLost)'
  BY <1>5 DEF OneTransferOfEachKind
<1> QED
  BY <1>1, <1>2, <1>4, <1>6 DEF TransferInv

(* Those that leave the events alone too,                                  *)
LEMMA StillStep ==
  ASSUME WakeInv, TransferInv,
         UNCHANGED <<timing, timeout, job, evpc, freeIndex, task, result, stored, acked, unwritten>>,
         pc' = "store" => UNCHANGED <<pc, asked>>,
         asked' \in { asked, asked + 1 }
  PROVE  TransferInv'
<1>1. \A e \in Pending' : \E d \in Pending : SameTransfer(e, d)
  BY DEF Pending, SameTransfer
<1>2. OneEventOfEachKind => OneEventOfEachKind'
  BY DEF OneEventOfEachKind, Once, In
<1> QED
  BY <1>1, <1>2, EventsStep

(* end what the event thread does,                                         *)
LEMMA DoneStep ==
  ASSUME WakeInv, TransferInv, job' \in { job, NoEvent }, evpc' # "delete",
         UNCHANGED <<timing, timeout, freeIndex, task, result, stored, acked, unwritten, pc, asked>>
  PROVE  TransferInv'
<1>1. \A e \in Pending' : e = NoEvent \/ e \in Pending
  BY DEF Pending
<1>2. \A e \in Pending' : e.type \in Kinds => \E d \in Pending : SameTransfer(e, d)
  BY <1>1, NoEventOfNoKind DEF SameTransfer
<1>3. OneEventOfEachKind => OneEventOfEachKind'
  BY NoEventOfNoKind, TransferKindsAreKinds DEF OneEventOfEachKind, Once, In
<1> QED
  BY <1>2, <1>3, EventsStep

(* or add an inform event.                                                 *)
LEMMA InformStep ==
  ASSUME WakeInv, TransferInv,
         NEW e \in Events, e.type \notin Kinds, timing' \in { timing, AddEvent(timing, e) },
         UNCHANGED <<timeout, job, evpc, freeIndex, task, result, stored, acked, unwritten, asked>>,
         pc' = "store" => UNCHANGED pc
  PROVE  TransferInv'
<1>1. timing \in Seq(Events) /\ asked \in Nat
  BY DEF WakeInv, TypeOK
<1>2. From(timing', timing, e)
  <2>1. From(timing, timing, e)
    BY DEF From
  <2> QED BY <1>1, <2>1, AddEventElements
<1>3. \A d \in Pending' : d = e \/ d \in Pending
  BY <1>2 DEF From, Pending
<1>4. \A d \in Pending' : d.type \in Kinds => \E c \in Pending : SameTransfer(d, c)
  BY <1>3 DEF SameTransfer
<1>5. ASSUME OneEventOfEachKind, NEW kind \in TransferKinds
      PROVE  Once(timing', kind) /\ (In(timing', kind) => In(timing, kind))
  <2>1. Once(timing, kind) /\ e.type # kind
    BY <1>5, TransferKindsAreKinds DEF OneEventOfEachKind
  <2>2. /\ Once(AddEvent(timing, e), kind)
        /\ In(AddEvent(timing, e), kind) => In(timing, kind)
    BY <1>1, <2>1, AddEventOnce
  <2> QED BY <2>1, <2>2
<1>6. OneEventOfEachKind => OneEventOfEachKind'
  BY <1>5 DEF OneEventOfEachKind, Once, In
<1> QED
  BY <1>4, <1>6, EventsStep

(* The timer thread: an event that is due is in one list only.             *)
LEMMA TickOnce ==
  ASSUME TypeOK, Tick, NEW kind, Once(timing, kind), Once(timeout, kind),
         ~(In(timing, kind) /\ In(timeout, kind))
  PROVE  /\ Once(timing', kind) /\ Once(timeout', kind)
         /\ ~(In(timing', kind) /\ In(timeout', kind))
         /\ In(timing', kind) \/ In(timeout', kind) => In(timing, kind) \/ In(timeout, kind)
<1> DEFINE next == [ i \in DOMAIN timing |-> Decremented(timing[i]) ]
           due == { i \in DOMAIN timing : next[i].time = 0 }
           stay == DOMAIN timing \ due
           left == At(next, Upwards(stay))
           moved == At(next, Downwards(due))
<1>1. timing \in Seq(Events) /\ timeout \in Seq(Events)
  BY DEF TypeOK
<1>2. timing' = left /\ timeout' = moved \o timeout
  BY DEF Tick
<1>3. DOMAIN timing = 1 .. Len(timing) /\ Len(timing) \in Nat
  BY <1>1
<1>4. ASSUME NEW i \in DOMAIN timing
      PROVE  next[i] \in Events /\ next[i].type = timing[i].type
  <2>1. timing[i] \in Events
    BY <1>1
  <2>2. timing[i].time \in Nat \cup { -1 }
    BY <2>1 DEF Events, Never
  <2>3. (IF timing[i].time \in { 0, -1 } THEN -1 ELSE timing[i].time - 1) \in Nat \cup { -1 }
    BY <2>2
  <2> QED BY <2>1, <2>3 DEF Decremented, Events, Never
<1> HIDE DEF next
<1>5. /\ due \in SUBSET (1 .. Len(timing)) /\ stay \in SUBSET (1 .. Len(timing))
      /\ \A x \in due : x \in DOMAIN timing /\ x \notin stay
      /\ \A x \in stay : x \in DOMAIN timing
  BY <1>3
<1> HIDE DEF due, stay
<1>6. Lists(Upwards(stay), stay) /\ Lists(Downwards(due), due)
  BY <1>3, <1>5, PlacesListed
<1>7. /\ \A x \in stay, y \in stay : next[x].type = kind /\ next[y].type = kind => x = y
      /\ \A x \in due, y \in due : next[x].type = kind /\ next[y].type = kind => x = y
      /\ \A x \in stay, y \in due : ~(next[x].type = kind /\ next[y].type = kind)
  BY <1>4, <1>5 DEF Once
<1>8. Once(left, kind) /\ Shows(left, next, stay)
  <2>1. \A x \in stay : next[x] \in Events
    BY <1>4, <1>5
  <2>2. Shows(left, next, stay)
    BY <1>6, <2>1, AtElements
  <2>3. Once(left, kind)
    BY <1>6, <1>7, AtOnce
  <2> QED BY <2>2, <2>3
<1>9. Once(moved, kind) /\ Shows(moved, next, due) /\ moved \in Seq(Events)
  <2>1. \A x \in due : next[x] \in Events
    BY <1>4, <1>5
  <2>2. Shows(moved, next, due) /\ moved \in Seq(Events)
    BY <1>6, <2>1, AtElements
  <2>3. Once(moved, kind)
    BY <1>6, <1>7, AtOnce
  <2> QED BY <2>2, <2>3
<1> HIDE DEF left, moved
<1>10. In(left, kind) => In(timing, kind) /\ ~In(moved, kind)
  <2> SUFFICES ASSUME In(left, kind) PROVE In(timing, kind) /\ ~In(moved, kind)
    OBVIOUS
  <2>1. PICK i \in DOMAIN left : left[i].type = kind
    BY DEF In
  <2>2. PICK x \in stay : left[i] = next[x]
    BY <1>8 DEF Shows
  <2>3. In(timing, kind)
    BY <1>4, <1>5, <2>1, <2>2 DEF In
  <2>4. ASSUME NEW j \in DOMAIN moved PROVE moved[j].type # kind
    <3>1. PICK y \in due : moved[j] = next[y]
      BY <1>9 DEF Shows
    <3> QED BY <1>7, <2>1, <2>2, <3>1
  <2> QED BY <2>3, <2>4 DEF In
<1>11. In(moved, kind) => In(timing, kind)
  BY <1>4, <1>5, <1>9 DEF Shows, In
<1>12. Once(moved \o timeout, kind)
  BY <1>1, <1>9, <1>11, ConcatOnce
<1>13. In(moved \o timeout, kind) => In(moved, kind) \/ In(timeout, kind)
  <2>1. Joins(moved \o timeout, moved, timeout)
    BY <1>1, <1>9, ConcatElements
  <2> QED BY <2>1 DEF Joins, In
<1> QED
  BY <1>2, <1>8, <1>10, <1>11, <1>12, <1>13

LEMMA TickKeeps ==
  ASSUME WakeInv, TransferInv, Tick
  PROVE  TransferInv'
<1>1. TypeOK /\ Ticked(timing, timeout, timing', timeout')
  BY TickLists DEF WakeInv
<1>2. UNCHANGED <<job, evpc, freeIndex, task, result, stored, acked, unwritten, pc, asked>>
  BY DEF Tick, session, disk, history
<1>3. ASSUME NEW d \in Events PROVE SameTransfer(Decremented(d), d)
  BY DEF SameTransfer, Decremented, Events
<1>4. \A i \in DOMAIN timing : timing[i] \in Events /\ timing[i] \in Pending
  BY <1>1 DEF TypeOK, Pending
<1>5. ASSUME NEW e \in Pending' PROVE \E d \in Pending : SameTransfer(e, d)
  <2>1. \/ e \in Pending
        \/ \E j \in DOMAIN timing : e = Decremented(timing[j])
    BY <1>1, <1>2 DEF Pending, Ticked
  <2>2. CASE e \in Pending
    BY <2>2 DEF SameTransfer
  <2> QED BY <1>3, <1>4, <2>1, <2>2
<1>6. OneEventOfEachKind => OneEventOfEachKind'
  <2> SUFFICES ASSUME OneEventOfEachKind, NEW kind \in TransferKinds
               PROVE  /\ Once(timing', kind) /\ Once(timeout', kind)
                      /\ ~(In(timing', kind) /\ In(timeout', kind))
                      /\ job'.type = kind => ~In(timing', kind) /\ ~In(timeout', kind)
    BY DEF OneEventOfEachKind, Once, In
  <2>1. /\ Once(timing, kind) /\ Once(timeout, kind)
        /\ ~(In(timing, kind) /\ In(timeout, kind))
        /\ job.type = kind => ~In(timing, kind) /\ ~In(timeout, kind)
    BY DEF OneEventOfEachKind
  <2> QED BY <1>1, <1>2, <2>1, TickOnce
<1> QED
  BY <1>2, <1>5, <1>6, EventsStep

(* The steps of main_session                                               *)
LEMMA WakeKeeps ==
  ASSUME WakeInv, TransferInv, Wake
  PROVE  TransferInv'
  BY StillStep DEF Wake, Goto, disk, history

LEMMA ConnectKeeps ==
  ASSUME WakeInv, TransferInv, Connect
  PROVE  TransferInv'
  BY StillStep DEF Connect, Goto, memory, disk, history

LEMMA UpdateInformKeeps ==
  ASSUME WakeInv, TransferInv, UpdateInform
  PROVE  TransferInv'
  BY StillStep DEF UpdateInform, Goto, disk, history

LEMMA SendInformKeeps ==
  ASSUME WakeInv, TransferInv, SendInform
  PROVE  TransferInv'
  BY StillStep DEF SendInform, Goto, history

LEMMA NextTransferKeeps ==
  ASSUME WakeInv, TransferInv, NextTransfer
  PROVE  TransferInv'
  BY StillStep DEF NextTransfer, Goto, memory, disk, history

LEMMA RequestDownloadKeeps ==
  ASSUME WakeInv, TransferInv, RequestDownload
  PROVE  TransferInv'
  BY StillStep DEF RequestDownload, Goto, history

LEMMA SendKeeps ==
  ASSUME WakeInv, TransferInv, Send
  PROVE  TransferInv'
  BY StillStep DEF Send, Goto, memory, disk, history

LEMMA ServeRebootKeeps ==
  ASSUME WakeInv, TransferInv, ServeReboot
  PROVE  TransferInv'
  BY StillStep DEF ServeReboot, Goto

LEMMA ServeEmptyKeeps ==
  ASSUME WakeInv, TransferInv, ServeEmpty
  PROVE  TransferInv'
  BY StillStep DEF ServeEmpty, Goto, memory, disk, history

LEMMA EndSessionKeeps ==
  ASSUME WakeInv, TransferInv, EndSession
  PROVE  TransferInv'
<1>1. PICK s \in ManagementServer :
        timing' = IF s.enable THEN AddEvent(timing, InformEvent(s.interval, { "PERIODIC" }))
                              ELSE timing
  BY DEF EndSession
<1> DEFINE e == InformEvent(s.interval, { "PERIODIC" })
<1>2. e \in Events /\ e.type \notin Kinds
  BY AgentAssumption, InformOfNoKind DEF Codes
<1>3. timing' \in { timing, AddEvent(timing, e) }
  BY <1>1
<1> HIDE DEF e
<1>4. UNCHANGED <<timeout, job, evpc, freeIndex, task, result, stored, acked, unwritten, asked>>
  BY DEF EndSession, disk
<1>5. pc' # "store"
  BY DEF EndSession, Goto
<1> QED
  BY <1>2, <1>3, <1>4, <1>5, InformStep

LEMMA HostEventKeeps ==
  ASSUME WakeInv, TransferInv, HostEvent
  PROVE  TransferInv'
<1>1. PICK c \in HostCodes : timing' = AddEvent(timing, InformEvent(NOW, { c })) \/ timing' = timing
  BY DEF HostEvent
<1> DEFINE e == InformEvent(NOW, { c })
<1>2. e \in Events /\ e.type \notin Kinds
  BY InformOfNoKind DEF Codes, NOW
<1>3. timing' \in { timing, AddEvent(timing, e) }
  BY <1>1
<1> HIDE DEF e
<1>4. UNCHANGED <<timeout, job, evpc, freeIndex, task, result, stored, acked, unwritten, pc, asked>>
  BY DEF HostEvent, session, disk
<1> QED
  BY <1>2, <1>3, <1>4, InformStep

(* The event thread                                                        *)
LEMMA EventTakeKeeps ==
  ASSUME WakeInv, TransferInv, EventTake
  PROVE  TransferInv'
<1>1. timeout \in Seq(Events) /\ timeout # << >>
  BY DEF WakeInv, TypeOK, EventTake
<1>2. job' = timeout[1] /\ 1 \in DOMAIN timeout /\ timeout' = Tail(timeout)
  BY <1>1 DEF EventTake
<1>3. \A i \in DOMAIN timeout' : /\ i + 1 \in DOMAIN timeout /\ timeout'[i] = timeout[i + 1]
                                /\ i \in Nat /\ i + 1 # 1
  BY <1>1, <1>2
<1>4. /\ UNCHANGED <<timing, freeIndex, task, result, stored, acked, unwritten, pc, asked>>
      /\ evpc' = "call"
  BY DEF EventTake, session, disk, history
<1>5. \A e \in Pending' : \E d \in Pending : SameTransfer(e, d)
  <2>1. \A e \in Pending' : e \in Pending
    BY <1>2, <1>3, <1>4 DEF Pending
  <2> QED BY <2>1 DEF SameTransfer
<1>6. OneEventOfEachKind => OneEventOfEachKind'
  <2> SUFFICES ASSUME OneEventOfEachKind, NEW kind \in TransferKinds
               PROVE  /\ Once(timing', kind) /\ Once(timeout', kind)
                      /\ ~(In(timing', kind) /\ In(timeout', kind))
                      /\ job'.type = kind => ~In(timing', kind) /\ ~In(timeout', kind)
    BY DEF OneEventOfEachKind, Once, In
  <2>1. /\ Once(timing, kind) /\ Once(timeout, kind)
        /\ ~(In(timing, kind) /\ In(timeout, kind))
    BY DEF OneEventOfEachKind
  <2>2. Once(timeout', kind)
    <3>1. ASSUME NEW i \in DOMAIN timeout', NEW j \in DOMAIN timeout',
                 timeout'[i].type = kind, timeout'[j].type = kind
          PROVE  i = j
      <4>1. i + 1 = j + 1
        BY <1>3, <2>1, <3>1 DEF Once
      <4> QED BY <1>3, <4>1
    <3> QED BY <3>1 DEF Once
  <2>3. In(timeout', kind) => In(timeout, kind)
    BY <1>3 DEF In
  <2>4. job'.type = kind => In(timeout, kind) /\ ~In(timeout', kind)
    BY <1>2, <1>3, <2>1 DEF Once, In
  <2> QED BY <1>4, <2>1, <2>2, <2>3, <2>4
<1> QED
  BY <1>4, <1>5, <1>6, EventsStep

LEMMA EventInformKeeps ==
  ASSUME WakeInv, TransferInv, EventInform
  PROVE  TransferInv'
  BY DoneStep DEF EventInform, EventDone, session, disk, history

(* No event calls event_schedule: the task of a scheduled inform stays.    *)
LEMMA EventScheduleOrStunKeeps ==
  ASSUME WakeInv, TransferInv, EventScheduleOrStun
  PROVE  TransferInv'
<1>1. ~Calls("event_schedule")
  <2>1. evpc = "call" => job.type \in Kinds \cup { "INFORM" }
    BY DEF WakeInv, EventThreadHolds, Events
  <2> QED BY <2>1 DEF Calls, eventFunc, EventType, Kinds, TransferKinds
<1> QED
  BY <1>1, DoneStep DEF EventScheduleOrStun, EventDone, session, history

LEMMA EventTransferKeeps ==
  ASSUME WakeInv, TransferInv, EventTransfer
  PROVE  TransferInv'
  BY DoneStep DEF EventTransfer, EventDone, session, disk, history

(* The file of the transfer the event thread makes, and its key            *)
LEMMA JobHasFile ==
  ASSUME WakeInv, TransferInv, evpc \in { "result", "write", "delete" }
  PROVE  /\ Name(job) \in Files /\ Name(job)[1] = job.type
         /\ job.type \in TransferKinds /\ job.key \in Requested /\ Requests[job.key].rpc = job.type
         /\ job \in Pending
<1>1. job.type \in TransferKinds /\ job.type \in Kinds /\ job \in Pending
  BY DEF WakeInv, EventThreadHolds, Kinds, Pending
<1>2. job.index \in Requested /\ job.key \in Requested /\ Requests[job.key].rpc = job.type
  BY <1>1 DEF TransferInv, EventsOfTheirKind, OfItsKind
<1> QED
  BY <1>1, <1>2 DEF Name, Files

(* No other stored request is of its kind.                                 *)
LEMMA JobHasTask ==
  ASSUME WakeInv, TransferInv, evpc \in { "result", "write", "delete" }, OneTransferOfEachKind,
         NEW k \in stored, NEW f \in Files, f = Name(job), k \in { task[f], result[f] }
  PROVE  k = job.key /\ task[Name(job)] = k
<1>1. /\ f[1] = job.type /\ job.type \in TransferKinds /\ job.key \in Requested
      /\ Requests[job.key].rpc = job.type /\ job \in Pending
  BY JobHasFile
<1>2. k \in Requested /\ k # NoKey
  BY DEF WakeInv, TypeOK, NoKey, Requested
<1>3. Requests[k].rpc = job.type
  <2>1. CASE k = task[f]
    BY <1>1, <1>2, <2>1 DEF TransferInv, FilesOfTheirKind
  <2>2. CASE k = result[f]
    BY <1>1, <1>2, <2>2 DEF TransferInv, FilesOfTheirKind
  <2> QED BY <2>1, <2>2
<1>4. k = job.key
  BY <1>1, <1>2, <1>3 DEF OneTransferOfEachKind
<1> QED
  BY <1>1, <1>4 DEF TransferInv, EventsHaveTasks, HasTask

(* Steps between opening the result file and writing it                    *)
LEMMA ResultStep ==
  ASSUME WakeInv, TransferInv, evpc \in { "result", "write" },
         UNCHANGED <<timing, timeout, job, freeIndex, task, stored, acked, pc, asked>>,
         \A f \in Files : f # Name(job) => result'[f] = result[f],
         \/ evpc' = "write" /\ result'[Name(job)] = Unwritten /\ unwritten' = unwritten
         \/ evpc' = "delete" /\ result'[Name(job)] = job.key /\ unwritten' = unwritten
         \/ evpc' = "delete" /\ result' = result /\ unwritten' = unwritten \cup { job.key }
  PROVE  TransferInv'
<1> DEFINE n == Name(job)
<1>1. n \in Files /\ n[1] = job.type /\ job.key \in Requested /\ Requests[job.key].rpc = job.type
  BY JobHasFile
<1>2. n' = n
  BY DEF Name
<1>3. ResultIsWritten'
  BY <1>2 DEF ResultIsWritten
<1> HIDE DEF n
<1>4. EventsOfTheirKind' /\ FreeIndexIsFree' /\ TasksAreStored'
  BY DEF TransferInv, EventsOfTheirKind, Pending, OfItsKind, FreeIndexIsFree, TasksAreStored
<1>5. OneEventOfEachKind => OneEventOfEachKind'
  BY DEF OneEventOfEachKind, Once, In
<1>6. EventsHaveTasks => EventsHaveTasks'
  BY DEF EventsHaveTasks, Pending, HasTask, Name
<1>7. FilesOfTheirKind'
  <2>1. ASSUME NEW f \in Files, result'[f] \in Requested PROVE Requests[result'[f]].rpc = f[1]
    <3>1. CASE result'[f] = result[f]
      BY <2>1, <3>1 DEF TransferInv, FilesOfTheirKind
    <3>2. CASE f = n /\ result'[f] = job.key
      BY <1>1, <3>2
    <3>3. CASE f = n /\ result'[f] = Unwritten
      BY <2>1, <3>3 DEF Unwritten, Requested
    <3> QED BY <3>1, <3>2, <3>3 DEF n
  <2> QED BY <2>1 DEF TransferInv, FilesOfTheirKind
<1>8. ASSUME OneTransferOfEachKind, NEW k \in stored, k \notin acked \cup unwritten
      PROVE  \E f \in Files : k \in { task[f], result'[f] }
  <2>1. PICK f \in Files : k \in { task[f], result[f] }
    BY <1>8 DEF TransferInv, NoTransferLost
  <2>2. CASE k = task[f]
    BY <2>2
  <2>3. CASE k = result[f] /\ f # n
    BY <2>3 DEF n
  <2>4. CASE k = result[f] /\ f = n
    <3>1. task[f] = k
      BY <1>8, <2>4, JobHasTask DEF n
    <3> QED BY <3>1
  <2> QED BY <2>1, <2>2, <2>3, <2>4
<1>9. OneTransferOfEachKind => NoTransferLost'
  <2>1. unwritten \subseteq unwritten'
    OBVIOUS
  <2> QED BY <1>8, <2>1 DEF NoTransferLost
<1> QED
  BY <1>3, <1>4, <1>5, <1>6, <1>7, <1>9 DEF TransferInv, OneTransferOfEachKind

(* A result that is emptied is that of the same transfer, whose task is    *)
(* still there.                                                            *)
LEMMA OpenResultKeeps ==
  ASSUME WakeInv, TransferInv, OpenResult
  PROVE  TransferInv'
<1> DEFINE n == Name(job)
<1>1. /\ UNCHANGED <<timing, timeout, job, freeIndex, task, stored, acked, unwritten, pc, asked>>
      /\ evpc = "result" /\ evpc' = "write" /\ result' = [ result EXCEPT ![n] = Unwritten ]
  BY DEF OpenResult, session, history
<1>2. n \in Files
  BY <1>1, JobHasFile
<1> HIDE DEF n
<1>3. result'[n] = Unwritten /\ \A f \in Files : f # n => result'[f] = result[f]
  BY <1>1, <1>2 DEF WakeInv, TypeOK
<1> USE DEF n
<1> QED
  BY <1>1, <1>3, ResultStep

LEMMA WriteResultKeeps ==
  ASSUME WakeInv, TransferInv, WriteResult
  PROVE  TransferInv'
<1> DEFINE n == Name(job)
<1>1. /\ UNCHANGED <<timing, timeout, job, freeIndex, task, stored, acked, pc, asked>>
      /\ evpc = "write" /\ evpc' = "delete"
      /\ \/ result' = [ result EXCEPT ![n] = job.key ] /\ unwritten' = unwritten
         \/ result' = result /\ unwritten' = unwritten \cup { job.key }
  BY DEF WriteResult, session
<1>2. n \in Files
  BY <1>1, JobHasFile
<1> HIDE DEF n
<1>3. /\ \A f \in Files : f # n => result'[f] = result[f]
      /\ \/ result'[n] = job.key /\ unwritten' = unwritten
         \/ result' = result /\ unwritten' = unwritten \cup { job.key }
  BY <1>1, <1>2 DEF WakeInv, TypeOK
<1> USE DEF n
<1> QED
  BY <1>1, <1>3, ResultStep

(* A task that is deleted has its result, and no event needs it.           *)
LEMMA DeleteTaskKeeps ==
  ASSUME WakeInv, TransferInv, DeleteTask
  PROVE  TransferInv'
<1> DEFINE n == Name(job)
<1>1. n \in Files /\ n[1] = job.type /\ job.type \in TransferKinds
  BY JobHasFile DEF DeleteTask
<1>2. /\ UNCHANGED <<timing, timeout, freeIndex, result, stored, acked, unwritten, pc, asked>>
      /\ evpc' = "take" /\ job' = NoEvent
      /\ task' = [ task EXCEPT ![n] = NoKey ] \/ task' = task
  BY DEF DeleteTask, EventDone, session, history
<1>3. task \in [ Files -> { NoKey } \cup Requested ]
  BY DEF WakeInv, TypeOK
<1>4. result[n] = job.key \/ job.key \in unwritten
  BY DEF TransferInv, ResultIsWritten, DeleteTask
<1>5. \A e \in Pending : Name(e) = n => e.type = job.type
  BY DEF Name
<1>6. \A e \in Pending' :
        \/ e = NoEvent
        \/ /\ e \in Pending
           /\ \/ \E i \in DOMAIN timing : timing[i] = e
              \/ \E i \in DOMAIN timeout : timeout[i] = e
  BY <1>2 DEF Pending
<1> HIDE DEF n
<1>7. \A f \in Files : task'[f] = task[f] \/ (task'[f] = NoKey /\ f = n)
  BY <1>1, <1>2, <1>3
<1>8. EventsOfTheirKind'
  <2>1. \A e \in Pending' : OfItsKind(e)
    BY <1>6, NoEventOfNoKind DEF TransferInv, EventsOfTheirKind, OfItsKind
  <2> QED BY <2>1 DEF EventsOfTheirKind, OfItsKind
<1>9. FilesOfTheirKind' /\ ResultIsWritten' /\ FreeIndexIsFree' /\ TasksAreStored'
  BY <1>2, <1>7 DEF TransferInv, FilesOfTheirKind, ResultIsWritten, FreeIndexIsFree, TasksAreStored
<1>10. ASSUME OneTransferOfEachKind PROVE OneEventOfEachKind' /\ EventsHaveTasks'
  <2>1. OneEventOfEachKind /\ EventsHaveTasks
    BY <1>10 DEF TransferInv
  <2>2. OneEventOfEachKind'
    BY <1>2, <2>1, NoEventOfNoKind, TransferKindsAreKinds DEF OneEventOfEachKind, Once, In
  <2>3. ASSUME NEW e \in Pending', e.type \in TransferKinds
        PROVE  /\ e \in Pending
               /\ e.key \in stored => task'[Name(e)] = e.key
    <3>1. e \in Pending /\ (In(timing, e.type) \/ In(timeout, e.type))
      BY <1>6, <2>3, NoEventOfNoKind, TransferKindsAreKinds DEF In
    <3>2. e.type # job.type
      BY <2>1, <2>3, <3>1 DEF OneEventOfEachKind
    <3>3. Name(e) \in Files /\ Name(e) # n
      BY <1>5, <2>3, <3>1, <3>2, TransferKindsAreKinds
         DEF TransferInv, EventsOfTheirKind, OfItsKind, Name, Files
    <3>4. e.key \in stored => task[Name(e)] = e.key
      BY <2>1, <2>3, <3>1 DEF EventsHaveTasks, HasTask
    <3> QED BY <1>7, <3>1, <3>3, <3>4
  <2>4. EventsHaveTasks'
    <3>1. ASSUME NEW e \in Pending' PROVE HasTask(e)'
      BY <1>2, <2>1, <2>3, <3>1 DEF EventsHaveTasks, HasTask, Name
    <3> QED BY <3>1 DEF EventsHaveTasks
  <2> QED BY <2>2, <2>4
<1>11. ASSUME OneTransferOfEachKind, NEW k \in stored, k \notin acked \cup unwritten
       PROVE  \E f \in Files : k \in { task'[f], result[f] }
  <2>1. PICK f \in Files : k \in { task[f], result[f] }
    BY <1>11 DEF TransferInv, NoTransferLost
  <2>2. CASE k = result[f]
    BY <2>2
  <2>3. CASE k = task[f] /\ f # n
    BY <1>7, <2>3
  <2>4. CASE k = task[f] /\ f = n
    <3>1. k = job.key
      BY <1>11, <2>4, JobHasTask DEF n, DeleteTask
    <3> QED BY <1>1, <1>4, <1>11, <3>1
  <2> QED BY <2>1, <2>2, <2>3, <2>4
<1>12. OneTransferOfEachKind => NoTransferLost'
  BY <1>2, <1>11 DEF NoTransferLost
<1> QED
  BY <1>8, <1>9, <1>10, <1>12 DEF TransferInv, OneTransferOfEachKind

(* The session: a result is removed when the ACS has answered.             *)
LEMMA SendTransferKeeps ==
  ASSUME WakeInv, TransferInv, SendTransfer
  PROVE  TransferInv'
<1>1. /\ UNCHANGED <<timing, timeout, job, evpc, freeIndex, task, stored, unwritten, asked>>
      /\ pc' # "store"
  BY DEF SendTransfer, Goto, memory
<1>2. CASE UNCHANGED <<result, acked>>
  BY <1>1, <1>2, StillStep
<1>3. CASE ~UNCHANGED <<result, acked>>
  <2>1. /\ evpc # "delete" /\ acked' = acked \cup ({ reporting } \cap Requested)
        /\ \E removed \in SUBSET { f \in Files : Removes(f) } :
             result' = [ f \in Files |-> IF f \in removed THEN NoKey ELSE result[f] ]
    BY <1>3 DEF SendTransfer, TmpFileLocked
  <2>2. ASSUME NEW f \in Files
        PROVE  \/ result'[f] = result[f]
               \/ /\ result'[f] = NoKey
                  /\ result[f] \in Requested => reporting = result[f]
    BY <2>1 DEF Removes, Response, Unwritten, Requested
  <2>3. EventsOfTheirKind' /\ FreeIndexIsFree' /\ ResultIsWritten' /\ TasksAreStored'
    BY <1>1, <2>1 DEF TransferInv, EventsOfTheirKind, Pending, OfItsKind, FreeIndexIsFree,
       ResultIsWritten, TasksAreStored
  <2>4. FilesOfTheirKind'
    BY <1>1, <2>2 DEF TransferInv, FilesOfTheirKind, NoKey, Requested
  <2>5. OneEventOfEachKind => OneEventOfEachKind'
    BY <1>1 DEF OneEventOfEachKind, Once, In
  <2>6. EventsHaveTasks => EventsHaveTasks'
    BY <1>1 DEF EventsHaveTasks, Pending, HasTask, Name
  <2>7. ASSUME NoTransferLost, NEW k \in stored, k \notin acked' \cup unwritten
        PROVE  \E f \in Files : k \in { task[f], result'[f] }
    <3>1. k \in Requested /\ k \notin acked
      BY <2>1, <2>7 DEF WakeInv, TypeOK
    <3>2. PICK f \in Files : k \in { task[f], result[f] }
      BY <2>7, <3>1 DEF NoTransferLost
    <3>3. k # reporting
      BY <2>1, <2>7, <3>1
    <3> QED BY <2>2, <3>1, <3>2, <3>3
  <2>8. NoTransferLost => NoTransferLost'
    BY <1>1, <2>7 DEF NoTransferLost
  <2> QED BY <2>3, <2>4, <2>5, <2>6, <2>8 DEF TransferInv, OneTransferOfEachKind
<1> QED
  BY <1>2, <1>3

(* An event is added under an index whose file is free...                  *)
LEMMA ServeTaskKeeps ==
  ASSUME WakeInv, TransferInv, ServeTask
  PROVE  TransferInv'
<1> DEFINE r == Requests[asked + 1]
           e == Event(r.rpc, freeIndex[r.rpc], r.delay, {}, asked + 1)
<1>1. timing \in Seq(Events)
  BY DEF WakeInv, TypeOK
<1>2. asked \in Nat /\ asked + 1 \in Requested /\ asked' = asked + 1 /\ asked + 1 <= Len(Requests)
  BY RequestsTyped DEF WakeInv, TypeOK, ServeTask, Requested
<1>3. r.rpc \in Kinds /\ r.delay \in Nat /\ r = Requests[asked + 1]
  BY <1>2, RequestsTyped DEF ServeTask
<1>4. /\ timing' = AddEvent(timing, e) /\ freeIndex' = [ freeIndex EXCEPT ![r.rpc] = @ + 1 ]
      /\ UNCHANGED <<timeout, job, evpc, task, result, stored, acked, unwritten>>
      /\ pc # "store"
  BY DEF ServeTask, disk
<1> HIDE DEF r
<1>5. freeIndex[r.rpc] \in Requested /\ freeIndex[r.rpc] \in Nat
  BY <1>2, <1>3, RequestsTyped DEF WakeInv, TypeOK, IndicesFollowRequests, Requested
<1>6. /\ e \in Events /\ OfItsKind(e) /\ e.type = r.rpc /\ e.key = asked + 1
      /\ e.index = freeIndex[r.rpc]
  BY <1>2, <1>3, <1>5 DEF Event, Events, OfItsKind
<1> HIDE DEF e
<1>7. From(timing', timing, e)
  BY <1>1, <1>4, <1>6, AddEventElements
<1>8. \A d \in Pending' : d = e \/ d \in Pending
  BY <1>4, <1>7 DEF From, Pending
<1>9. EventsOfTheirKind'
  <2>1. \A d \in Pending' : OfItsKind(d)
    BY <1>6, <1>8 DEF TransferInv, EventsOfTheirKind
  <2> QED BY <2>1 DEF EventsOfTheirKind, OfItsKind
<1>10. FilesOfTheirKind' /\ ResultIsWritten'
  BY <1>4 DEF TransferInv, FilesOfTheirKind, ResultIsWritten, Name
<1>11. freeIndex'[r.rpc] - 1 = freeIndex[r.rpc]
  BY <1>3, <1>4, <1>5 DEF WakeInv, TypeOK
<1>12. FreeIndexIsFree'
  <2>1. \A k \in Kinds : freeIndex'[k] \in Nat /\ freeIndex[k] \in Nat /\ freeIndex'[k] >= freeIndex[k]
    BY <1>3, <1>4 DEF WakeInv, TypeOK
  <2>2. ASSUME NEW f \in Files, task[f] # NoKey PROVE f[2] < freeIndex'[f[1]]
    <3>1. f[1] \in Kinds /\ f[2] \in Nat /\ f[2] < freeIndex[f[1]]
      BY <2>2 DEF Files, Requested, TransferInv, FreeIndexIsFree
    <3> QED BY <2>1, <3>1
  <2>3. <<r.rpc, freeIndex[r.rpc]>> \in Files
    BY <1>3, <1>5 DEF Files
  <2>4. task[<<r.rpc, freeIndex[r.rpc]>>] = NoKey
    BY <1>5, <2>3 DEF TransferInv, FreeIndexIsFree
  <2>5. Requests[asked'].rpc = r.rpc
    BY <1>2, <1>3
  <2> QED BY <1>4, <1>11, <2>2, <2>3, <2>4, <2>5 DEF FreeIndexIsFree
<1>13. TasksAreStored'
  <2>1. stored \subseteq 1 .. asked
    BY DEF TransferInv, TasksAreStored
  <2>2. stored' \subseteq 1 .. asked' /\ asked' \notin stored'
    BY <1>2, <1>4, <2>1
  <2> QED BY <1>4, <2>2 DEF TransferInv, TasksAreStored
<1>14. \A d \in Pending : d.type \in TransferKinds =>
         /\ d.key \in Requested /\ Requests[d.key].rpc = d.type
  BY TransferKindsAreKinds DEF TransferInv, EventsOfTheirKind, OfItsKind
<1>15. ASSUME EventsHaveTasks PROVE EventsHaveTasks'
  <2>1. ASSUME NEW d \in Pending', d.type \in TransferKinds
        PROVE  /\ d.key <= asked' /\ (d.key \in stored => task[Name(d)] = d.key)
               /\ d.key = asked' => d.index = freeIndex'[d.type] - 1
    <3>1. CASE d = e
      <4>1. d.key \notin stored /\ d.key = asked' /\ d.type = r.rpc /\ d.index = freeIndex[r.rpc]
        BY <1>2, <1>4, <1>6, <1>13, <3>1 DEF TasksAreStored, ServeTask, Goto
      <4> QED BY <1>2, <1>11, <4>1
    <3>2. CASE d \in Pending
      <4>1. d.key <= asked /\ d.key \in Nat /\ (d.key \in stored => task[Name(d)] = d.key)
        BY <1>14, <1>15, <2>1, <3>2 DEF EventsHaveTasks, HasTask, Requested
      <4> QED BY <1>2, <4>1
    <3> QED BY <1>8, <3>1, <3>2
  <2>2. ASSUME NEW d \in Pending' PROVE HasTask(d)'
    BY <1>4, <2>1, <2>2 DEF HasTask, Name
  <2> QED BY <2>2 DEF EventsHaveTasks
<1>16. ASSUME OneTransferOfEachKind, OneEventOfEachKind, EventsHaveTasks PROVE OneEventOfEachKind'
  <2> SUFFICES ASSUME NEW kind \in TransferKinds
               PROVE  /\ Once(timing', kind) /\ Once(timeout', kind)
                      /\ ~(In(timing', kind) /\ In(timeout', kind))
                      /\ job'.type = kind => ~In(timing', kind) /\ ~In(timeout', kind)
    BY DEF OneEventOfEachKind, Once, In
  <2>1. /\ Once(timing, kind) /\ Once(timeout, kind)
        /\ ~(In(timing, kind) /\ In(timeout, kind))
        /\ job.type = kind => ~In(timing, kind) /\ ~In(timeout, kind)
    BY <1>16 DEF OneEventOfEachKind
  <2>2. ASSUME e.type = kind, NEW d \in Pending PROVE d.type # kind
    <3> SUFFICES ASSUME d.type = kind PROVE FALSE
      OBVIOUS
    <3>1. d.key \in Requested /\ Requests[d.key].rpc = kind /\ d.key <= asked
      BY <1>14, <1>16 DEF EventsHaveTasks, HasTask
    <3>2. d.key = asked + 1
      BY <1>2, <1>3, <1>6, <1>16, <2>2, <3>1 DEF OneTransferOfEachKind
    <3> QED BY <1>2, <3>1, <3>2
  <2>3. e.type = kind => ~In(timing, kind) /\ ~In(timeout, kind) /\ job.type # kind
    BY <2>2 DEF In, Pending
  <2>4. Once(timing', kind) /\ (In(timing', kind) => In(timing, kind) \/ e.type = kind)
    BY <1>1, <1>4, <1>6, <2>1, <2>3, AddEventOnce
  <2> QED BY <1>4, <2>1, <2>3, <2>4
<1>17. NoTransferLost => NoTransferLost'
  BY <1>4 DEF NoTransferLost
<1> QED
  BY <1>9, <1>10, <1>12, <1>13, <1>15, <1>16, <1>17 DEF TransferInv, OneTransferOfEachKind

(* ...and the task stored in that file.                                    *)
LEMMA StoreTaskKeeps ==
  ASSUME WakeInv, TransferInv, StoreTask
  PROVE  TransferInv'
<1> DEFINE kind == Requests[asked].rpc
           n == <<kind, freeIndex[kind] - 1>>
<1>1. asked \in Requested /\ task \in [ Files -> { NoKey } \cup Requested ] /\ asked # NoKey
  BY DEF WakeInv, TypeOK, SessionKnows, Requested, StoreTask, NoKey
<1>2. /\ task' = [ task EXCEPT ![n] = asked ] /\ stored' = stored \cup { asked }
      /\ UNCHANGED <<timing, timeout, job, evpc, freeIndex, result, acked, unwritten, asked>>
      /\ pc' = "reply" /\ pc = "store"
  BY DEF StoreTask, memory, Goto
<1>3. n \in Files /\ task[n] = NoKey
  BY DEF TransferInv, FreeIndexIsFree, StoreTask
<1>4. n[1] = kind /\ n[2] < freeIndex[kind]
  BY <1>3 DEF WakeInv, TypeOK, Files
<1>5. \A e \in Pending : e.type = kind /\ e.index = freeIndex[kind] - 1 => Name(e) = n
  BY DEF Name
<1> HIDE DEF n
<1>6. task'[n] = asked /\ \A f \in Files : f # n => task'[f] = task[f]
  BY <1>1, <1>2, <1>3
<1>7. EventsOfTheirKind' /\ ResultIsWritten'
  BY <1>2 DEF TransferInv, EventsOfTheirKind, Pending, OfItsKind, ResultIsWritten, Name
<1>8. FilesOfTheirKind'
  BY <1>2, <1>4, <1>6 DEF TransferInv, FilesOfTheirKind
<1>9. FreeIndexIsFree'
  BY <1>2, <1>4, <1>6 DEF TransferInv, FreeIndexIsFree
<1>10. /\ stored \subseteq 1 .. asked /\ asked \notin stored
       /\ \A f \in Files : task[f] # NoKey => task[f] \in stored
       /\ \A f \in Files, g \in Files : task[f] # NoKey /\ task[f] = task[g] => f = g
  BY <1>2 DEF TransferInv, TasksAreStored
<1>11. TasksAreStored'
  <2>1. stored' \subseteq 1 .. asked'
    BY <1>1, <1>2, <1>10 DEF Requested
  <2>2. ASSUME NEW f \in Files, NEW g \in Files, task'[f] # NoKey, task'[f] = task'[g] PROVE f = g
    BY <1>1, <1>6, <1>10, <2>2
  <2>3. \A f \in Files : task'[f] # NoKey => task'[f] \in stored'
    BY <1>2, <1>6, <1>10
  <2> QED BY <1>2, <2>1, <2>2, <2>3 DEF TasksAreStored
<1>12. OneEventOfEachKind => OneEventOfEachKind'
  BY <1>2 DEF OneEventOfEachKind, Once, In
<1>13. Pending' = Pending
  BY <1>2 DEF Pending
<1>14. ASSUME EventsHaveTasks PROVE EventsHaveTasks'
  <2>1. ASSUME NEW e \in Pending, e.type \in TransferKinds
        PROVE  e.key <= asked /\ (e.key \in stored' => task'[Name(e)] = e.key)
    <3>1. /\ e.key <= asked /\ (e.key \in stored => task[Name(e)] = e.key)
          /\ e.key = asked => e.index = freeIndex[e.type] - 1
      BY <1>2, <1>14, <2>1 DEF EventsHaveTasks, HasTask
    <3>2. /\ Name(e) \in Files
          /\ e.key = asked => e.type = kind
      BY <2>1, TransferKindsAreKinds DEF TransferInv, EventsOfTheirKind, OfItsKind, Name, Files
    <3>3. CASE e.key = asked
      BY <1>5, <1>6, <3>1, <3>2, <3>3
    <3>4. CASE e.key \in stored
      <4>1. e.key # NoKey
        BY <3>4 DEF WakeInv, TypeOK, NoKey, Requested
      <4>2. Name(e) # n
        BY <1>3, <3>1, <3>4, <4>1
      <4> QED BY <1>6, <3>1, <3>2, <3>4, <4>2
    <3> QED BY <1>2, <3>1, <3>3, <3>4
  <2>2. ASSUME NEW e \in Pending' PROVE HasTask(e)'
    BY <1>2, <1>13, <2>1, <2>2 DEF HasTask, Name
  <2> QED BY <2>2 DEF EventsHaveTasks
<1>15. ASSUME NoTransferLost, NEW k \in stored', k \notin acked \cup unwritten
       PROVE  \E f \in Files : k \in { task'[f], result[f] }
  <2>1. CASE k = asked
    BY <1>3, <1>6, <2>1
  <2>2. CASE k \in stored
    <3>1. PICK f \in Files : k \in { task[f], result[f] }
      BY <1>15, <2>2 DEF NoTransferLost
    <3>2. k # NoKey
      BY <2>2 DEF WakeInv, TypeOK, Requested, NoKey
    <3> QED BY <1>3, <1>6, <3>1, <3>2
  <2> QED BY <1>2, <1>15, <2>1, <2>2
<1>16. NoTransferLost => NoTransferLost'
  BY <1>2, <1>15 DEF NoTransferLost
<1> QED
  BY <1>7, <1>8, <1>9, <1>11, <1>12, <1>14, <1>16 DEF TransferInv, OneTransferOfEachKind

LEMMA DelayEventsOfTheirKind ==
  ASSUME WakeInv, TransferInv, NEW waits, \A f \in Stored : waits[f] \in StillToWait(f)
  PROVE  /\ \A i \in DOMAIN DelayEvents(waits) :
              LET d == DelayEvents(waits)[i]
              IN  OfItsKind(d) /\ d.key \in stored /\ task[Name(d)] = d.key
         /\ OneTransferOfEachKind => \A kind \in TransferKinds : Once(DelayEvents(waits), kind)
<1> DEFINE files == Ordered(Stored, DelayOrder(waits))
           D(f) == Event(f[1], f[2], waits[f], {}, task[f])
<1>1. \A f \in Stored : waits[f] \in Nat
  BY WaitsArePositive DEF WakeInv
<1>2. IsFiniteSet(Stored)
  BY FilesFinite, FS_Subset DEF Stored
<1>3. Lists(files, Stored)
  BY <1>1, <1>2, DelayOrderTotal, OrderedLists
<1>4. PICK n \in Nat : /\ files \in [ 1 .. n -> Stored ]
                       /\ \A i \in 1 .. n, j \in 1 .. n : files[i] = files[j] => i = j
  BY <1>3 DEF Lists
<1>5. ASSUME NEW f \in Stored
      PROVE  /\ f[1] \in Kinds /\ f[2] \in Requested /\ f = <<f[1], f[2]>> /\ f \in Files
             /\ task[f] \in Requested /\ Requests[task[f]].rpc = f[1]
             /\ task[f] # NoKey /\ task[f] \in stored
  BY DEF Stored, Files, WakeInv, TypeOK, TransferInv, FilesOfTheirKind, TasksAreStored
<1>6. ASSUME NEW f \in Stored
      PROVE  /\ OfItsKind(D(f)) /\ D(f).key \in stored /\ task[Name(D(f))] = D(f).key
             /\ D(f).type = f[1]
  BY <1>5 DEF Event, OfItsKind, Name
<1>7. ASSUME OneTransferOfEachKind, NEW f \in Stored, NEW g \in Stored, f[1] = g[1],
             f[1] \in TransferKinds
      PROVE  f = g
  <2>1. task[f] = task[g]
    BY <1>5, <1>7 DEF OneTransferOfEachKind
  <2> QED BY <1>5, <2>1 DEF TransferInv, TasksAreStored
<1>8. DelayEvents(waits) = [ m \in DOMAIN files |-> D(files[m]) ]
  BY DEF DelayEvents
<1> HIDE DEF files, D
<1>9. DOMAIN files = 1 .. n /\ \A m \in 1 .. n : files[m] \in Stored
  BY <1>4
<1>10. DOMAIN DelayEvents(waits) = 1 .. n /\ \A m \in 1 .. n : DelayEvents(waits)[m] = D(files[m])
  BY <1>8, <1>9
<1>11. ASSUME OneTransferOfEachKind, NEW kind \in TransferKinds, NEW i \in 1 .. n, NEW j \in 1 .. n,
              D(files[i]).type = kind, D(files[j]).type = kind
       PROVE  i = j
  <2>1. files[i] = files[j]
    BY <1>6, <1>7, <1>9, <1>11
  <2> QED BY <1>4, <2>1
<1>12. OneTransferOfEachKind => \A kind \in TransferKinds : Once(DelayEvents(waits), kind)
  BY <1>10, <1>11 DEF Once
<1> QED
  BY <1>6, <1>9, <1>10, <1>12

(* A start changes no file; its events and indices come from the files.    *)
LEMMA RestartKeeps ==
  ASSUME WakeInv, TransferInv, Restart
  PROVE  TransferInv'
<1> DEFINE codes == { "BOOT" } \cup IF noBootstrap THEN {} ELSE { "BOOTSTRAP" }
           e == InformEvent(NOW, codes)
<1>1. PICK waits : /\ \A f \in Stored : waits[f] \in StillToWait(f)
                   /\ timing' = AddEvent(DelayEvents(waits), e)
  BY DEF Restart, InitEnd
<1>2. e \in Events /\ e.type \notin Kinds
  <2>1. codes \in SUBSET Codes /\ NOW \in Nat
    BY DEF Codes, NOW
  <2> HIDE DEF codes
  <2> QED BY <2>1, InformOfNoKind
<1> HIDE DEF e
<1>3. /\ UNCHANGED <<task, result, stored, acked, unwritten, asked>>
      /\ timeout' = << >> /\ job' = NoEvent /\ evpc' = "take" /\ pc' = "wait"
  BY DEF Restart, disk
<1> DEFINE list == DelayEvents(waits)
<1>4. list \in Seq(Events)
  BY <1>1, DelayEventsTyped DEF WakeInv
<1>5. /\ \A i \in DOMAIN list : /\ OfItsKind(list[i]) /\ list[i].key \in stored
                               /\ task[Name(list[i])] = list[i].key
      /\ OneTransferOfEachKind => \A kind \in TransferKinds : Once(list, kind)
  BY <1>1, DelayEventsOfTheirKind
<1>6. timing' = AddEvent(list, e)
  BY <1>1
<1> HIDE DEF list
<1>7. From(timing', list, e)
  BY <1>2, <1>4, <1>6, AddEventElements
<1>8. ASSUME NEW d \in Pending', d.type \in Kinds
      PROVE  OfItsKind(d) /\ d.key \in stored /\ task[Name(d)] = d.key
  <2>1. d \in { NoEvent, e } \/ \E i \in DOMAIN list : d = list[i]
    BY <1>3, <1>7 DEF Pending, From
  <2> QED BY <1>2, <1>5, <1>8, <2>1, NoEventOfNoKind
<1>9. EventsOfTheirKind'
  <2>1. \A d \in Pending' : OfItsKind(d)
    BY <1>8 DEF OfItsKind
  <2> QED BY <2>1 DEF EventsOfTheirKind, OfItsKind
<1>10. EventsHaveTasks'
  <2>1. stored \subseteq 1 .. asked
    BY DEF TransferInv, TasksAreStored
  <2>2. ASSUME NEW d \in Pending', d.type \in TransferKinds
        PROVE  d.key <= asked /\ task[Name(d)] = d.key
    <3>1. asked \in Nat
      BY DEF WakeInv, TypeOK
    <3>2. d.key \in stored /\ task[Name(d)] = d.key
      BY <1>8, <2>2, TransferKindsAreKinds
    <3>3. d.key \in 1 .. asked
      BY <2>1, <3>2
    <3> QED BY <3>1, <3>2, <3>3
  <2>3. ASSUME NEW d \in Pending' PROVE HasTask(d)'
    BY <1>3, <2>2, <2>3 DEF HasTask, Name
  <2> QED BY <2>3 DEF EventsHaveTasks
<1>11. OneTransferOfEachKind => OneEventOfEachKind'
  <2>1. ASSUME OneTransferOfEachKind, NEW kind \in TransferKinds PROVE Once(timing', kind)
    BY <1>2, <1>4, <1>5, <1>6, <2>1, AddEventOnce, TransferKindsAreKinds
  <2>2. ASSUME NEW kind \in TransferKinds
        PROVE  Once(timeout', kind) /\ ~In(timeout', kind) /\ job'.type # kind
    BY <1>3, NoEventOfNoKind, TransferKindsAreKinds DEF Once, In
  <2> QED BY <2>1, <2>2 DEF OneEventOfEachKind, Once, In
<1>12. FilesOfTheirKind' /\ ResultIsWritten' /\ TasksAreStored'
  BY <1>3 DEF TransferInv, FilesOfTheirKind, ResultIsWritten, TasksAreStored
<1>13. ASSUME NEW f \in Files, task[f] # NoKey PROVE f[2] < freeIndex'[f[1]]
  <2> DEFINE used == { 0 } \cup { i \in Requested : task[<<f[1], i>>] # NoKey }
  <2>1. f[1] \in Kinds /\ f[2] \in Requested /\ f = <<f[1], f[2]>>
    BY DEF Files
  <2>2. used \subseteq 0 .. Len(Requests) /\ used # {} /\ Len(Requests) \in Nat
    BY RequestsTyped DEF Requested
  <2>3. f[2] \in used
    BY <1>13, <2>1
  <2>4. freeIndex'[f[1]] = 1 + Max(used)
    BY <2>1 DEF Restart, InitEnd
  <2> HIDE DEF used
  <2>5. Max(used) \in used /\ Max(used) >= f[2]
    BY <2>2, <2>3, MaxOfBounded
  <2> QED BY <2>1, <2>2, <2>4, <2>5 DEF Requested
<1>14. FreeIndexIsFree'
  BY <1>3, <1>13 DEF FreeIndexIsFree
<1>15. NoTransferLost => NoTransferLost'
  BY <1>3 DEF NoTransferLost
<1> QED
  BY <1>9, <1>10, <1>11, <1>12, <1>14, <1>15 DEF TransferInv, OneTransferOfEachKind

LEMMA TransferInvInit == Init => TransferInv
<1> SUFFICES ASSUME Init PROVE TransferInv
  OBVIOUS
<1> DEFINE e == InformEvent(NOW, { "BOOT", "BOOTSTRAP" })
<1>1. e \in Events /\ e.type \notin Kinds
  BY InformOfNoKind DEF Codes, NOW
<1>2. timing = << e >> /\ timeout = << >> /\ job = NoEvent
  BY DEF Init
<1> HIDE DEF e
<1>3. \A d \in Pending : d.type \notin Kinds
  BY <1>1, <1>2, NoEventOfNoKind DEF Pending
<1>4. EventsOfTheirKind /\ EventsHaveTasks
  BY <1>3, TransferKindsAreKinds DEF EventsOfTheirKind, OfItsKind, EventsHaveTasks, HasTask
<1>5. OneEventOfEachKind
  BY <1>3, TransferKindsAreKinds DEF OneEventOfEachKind, Once, In, Pending
<1>6. FilesOfTheirKind /\ FreeIndexIsFree /\ ResultIsWritten /\ NoTransferLost
  BY DEF Init, FilesOfTheirKind, FreeIndexIsFree, ResultIsWritten, NoTransferLost, NoKey, Requested
<1>7. TasksAreStored
  BY DEF Init, TasksAreStored
<1> QED
  BY <1>4, <1>5, <1>6, <1>7 DEF TransferInv

LEMMA TransferInvNext == WakeInv /\ TransferInv /\ [Next]_vars => TransferInv'
<1> SUFFICES ASSUME WakeInv, TransferInv, [Next]_vars PROVE TransferInv'
  OBVIOUS
<1>1. CASE Tick
  BY <1>1, TickKeeps
<1>2. CASE EventThread
  BY <1>2, EventTakeKeeps, EventInformKeeps, EventScheduleOrStunKeeps, EventTransferKeeps,
     OpenResultKeeps, WriteResultKeeps, DeleteTaskKeeps DEF EventThread
<1>3. CASE MainSession
  BY <1>3, WakeKeeps, ConnectKeeps, UpdateInformKeeps, SendInformKeeps, NextTransferKeeps,
     SendTransferKeeps, RequestDownloadKeeps, SendKeeps, ServeTaskKeeps, StoreTaskKeeps,
     ServeRebootKeeps, ServeEmptyKeeps, EndSessionKeeps, RestartKeeps DEF MainSession, Reboot
<1>4. CASE HostEvent
  BY <1>4, HostEventKeeps
<1>5. CASE Crash
  BY <1>5, RestartKeeps DEF Crash
<1>6. CASE UNCHANGED vars
  BY <1>6, StillStep DEF vars, memory, session, disk, history
<1> QED
  BY <1>1, <1>2, <1>3, <1>4, <1>5, <1>6 DEF Next

(* store_*_event, event_download, event_upload, remove_transfer_done_event *)
(* and any number of starts and power failures between them: as long as    *)
(* the ACS asks for one download and one upload at most, what is stored    *)
(* stays on the disk until the ACS has answered its TransferComplete.      *)
THEOREM TransfersKept == Spec => [](OneTransferOfEachKind => NoTransferLost)
<1>1. WakeInv /\ TransferInv => (OneTransferOfEachKind => NoTransferLost)
  BY DEF TransferInv
<1> QED
  BY <1>1, WakeInvariant, TransferInvInit, TransferInvNext, PTL DEF Spec
=============================================================================
