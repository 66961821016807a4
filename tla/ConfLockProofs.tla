--------------------------- MODULE ConfLockProofs ---------------------------
(* What holds of the semaphore of conflib for any number of processes,     *)
(* whatever calls they make and wherever they are killed.                  *)
EXTENDS ConfLock, TLAPS

(* What a call has made sure of by the time it relies on it: the writers   *)
(* have an address, and only init_library gets to its labels.              *)
CallsOK ==
  \A p \in Procs :
    /\ op[p] \in Writers \cup { "flash" } => addr[p] # None
    /\ pc[p] \in { "build", "fill" } => op[p] = "init"
    /\ pc[p] = "flush" => op[p] = "flash"

(* The inductive invariant: neither of its last two parts holds after a    *)
(* step without the other.                                                 *)
LockInv == TypeOK /\ CallsOK /\ SemaphoreAdmitsOne /\ SemaphoreIsGivenBack

(* The kernel hands out an identifier that is none of those in use.        *)
LEMMA FreshSemType ==
  ASSUME NEW i \in FreshSem
  PROVE  i \in Sems /\ i # semKey /\ \A p \in Procs : sem[p] # i
BY DEF FreshSem, Lowest

LEMMA FreshSegType ==
  ASSUME NEW i \in FreshSeg
  PROVE  i \in Segs
BY DEF FreshSeg, Lowest

LEMMA RemainingType ==
  ASSUME TypeOK, NEW key, NEW a
  PROVE  Remaining(key, a) \in [ Segs -> Values \cup { Blank } ]
BY DEF Remaining, TypeOK

(* The locals after a call has ended                                       *)
LEMMA ClearType ==
  ASSUME TypeOK, NEW p \in Procs, Clear(p)
  PROVE  /\ op' \in [ Procs -> OpNames \cup { NoOp } ]
         /\ sem' \in [ Procs -> Sems \cup { None } ] /\ buf' \in [ Procs -> Segs \cup { None } ]
         /\ dflt' \in [ Procs -> BOOLEAN ] /\ rm' \in [ Procs -> BOOLEAN ]
BY DEF Clear, TypeOK

LEMMA GotoType ==
  ASSUME TypeOK, NEW p \in Procs, NEW l \in Labels, Goto(p, l)
  PROVE  pc' \in [ Procs -> Labels ]
BY DEF Goto, TypeOK

-----------------------------------------------------------------------------
(* Types                                                                   *)

LEMMA InitLockInv == Init => LockInv
<1> SUFFICES ASSUME Init PROVE LockInv
  OBVIOUS
<1>1. TypeOK
  BY ConfLockAssumption DEF Init, TypeOK, Labels
<1>2. CallsOK /\ SemaphoreAdmitsOne /\ SemaphoreIsGivenBack
  BY DEF Init, CallsOK, SemaphoreAdmitsOne, SemaphoreIsGivenBack, NoOp, Writers
<1> QED
  BY <1>1, <1>2 DEF LockInv

LEMMA CallType ==
  ASSUME TypeOK, NEW p \in Procs, Call(p)
  PROVE  TypeOK'
<1>0. \A l \in { "semget", "get", "unget" } : Goto(p, l) => pc' \in [ Procs -> Labels ]
  BY GotoType DEF Labels
<1>1. CASE CallInit(p)
  BY <1>0, <1>1 DEF CallInit, Enter, TypeOK, kernel, OpNames, Writers
<1>2. CASE CallLocked(p)
  BY <1>0, <1>2 DEF CallLocked, Enter, TypeOK, kernel, OpNames, Writers
<1>3. CASE CallUninit(p)
  <2>1. cache' \in [ Segs -> Values \cup { Blank } ] /\ addr' \in [ Procs -> Segs \cup { None } ]
    BY <1>3, RemainingType DEF CallUninit, TypeOK
  <2> QED
    BY <1>0, <1>3, <2>1, ClearType DEF CallUninit, Uninit, TypeOK
<1>4. CASE CallRelease(p)
  <2>1. cache' \in [ Segs -> Values \cup { Blank } ]
    BY <1>4, RemainingType DEF CallRelease
  <2> QED
    BY <1>0, <1>4, <2>1, ClearType DEF CallRelease, Uninit, TypeOK
<1> QED
  BY <1>1, <1>2, <1>3, <1>4 DEF Call

LEMMA SemaphoreType ==
  ASSUME TypeOK, NEW p \in Procs,
         \/ SemGetExcl(p) \/ SemGetAgain(p) \/ SetVal(p) \/ GetSemId(p)
         \/ LockCache(p) \/ UnlockCache(p) \/ UninitGet(p) \/ UninitRemove(p)
  PROVE  TypeOK'
<1>0. \A l \in { "idle", "setval", "exists", "get", "lock", "critical", "unget", "rmid" } :
        Goto(p, l) => pc' \in [ Procs -> Labels ]
  BY GotoType DEF Labels
<1>r. Return(p) \/ Uninit(p) =>
        /\ pc' \in [ Procs -> Labels ]
        /\ op' \in [ Procs -> OpNames \cup { NoOp } ]
        /\ sem' \in [ Procs -> Sems \cup { None } ] /\ buf' \in [ Procs -> Segs \cup { None } ]
        /\ dflt' \in [ Procs -> BOOLEAN ] /\ rm' \in [ Procs -> BOOLEAN ]
  BY <1>0, ClearType DEF Return, Uninit
<1>1. CASE SemGetExcl(p)
  BY <1>0, <1>1, FreshSemType DEF SemGetExcl, TypeOK
<1>2. CASE SemGetAgain(p)
  BY <1>0, <1>r, <1>2 DEF SemGetAgain, TypeOK, kernel, locals
<1>3. CASE SetVal(p)
  BY <1>0, <1>r, <1>3 DEF SetVal, TypeOK, locals
<1>4. CASE GetSemId(p)
  BY <1>0, <1>r, <1>4 DEF GetSemId, TypeOK, kernel
<1>5. CASE LockCache(p)
  BY <1>0, <1>r, <1>5 DEF LockCache, TypeOK, locals
<1>6. CASE UnlockCache(p)
  BY <1>0, <1>r, <1>6 DEF UnlockCache, TypeOK
<1>7. CASE UninitGet(p)
  BY <1>0, <1>r, <1>7 DEF UninitGet, TypeOK, kernel
<1>8. CASE UninitRemove(p)
  BY <1>0, <1>r, <1>8 DEF UninitRemove, TypeOK
<1> QED
  BY <1>1, <1>2, <1>3, <1>4, <1>5, <1>6, <1>7, <1>8

(* Every return of the four writing calls: the contents of a segment, at   *)
(* most, have changed, and unlock_cache is next.                           *)
Writes(p) ==
  WriteParameter(p) \/ WriteTableParameter(p) \/ AddTableRow(p) \/ DeleteTableRow(p)

LEMMA WriterStep ==
  ASSUME TypeOK, NEW p \in Procs, Writes(p)
  PROVE  /\ pc[p] = "critical" /\ pc' = [ pc EXCEPT ![p] = "unlock" ]
         /\ cache' \in [ Segs -> Values \cup { Blank } ]
         /\ UNCHANGED <<semKey, semVal, shmKey, flash, addr, locals, crashes>>
<1>1. Changes(p) \/ Finds(p) \/ UNCHANGED cache => cache' \in [ Segs -> Values \cup { Blank } ]
  BY DEF Changes, Finds, TypeOK
<1>2. /\ Changes(p) \/ Finds(p) \/ UNCHANGED cache
      /\ Goto(p, "unlock") /\ \E o \in Writers : Writing(p, o)
  BY DEF Writes, WriteParameter, WriteTableParameter, AddTableRow, DeleteTableRow, Writers
<1> QED
  BY <1>1, <1>2 DEF Goto, Writing

LEMMA ShmGetType ==
  ASSUME TypeOK, ShmGet
  PROVE  shmKey' \in Segs \cup { None } /\ cache' \in [ Segs -> Values \cup { Blank } ]
BY FreshSegType DEF ShmGet, TypeOK

LEMMA CriticalType ==
  ASSUME TypeOK, CallsOK, NEW p \in Procs,
         \/ InitLookup(p) \/ BuildCache(p) \/ FillCache(p) \/ RegetShm(p)
         \/ Writes(p) \/ OpenFlash(p) \/ WriteFlash(p)
  PROVE  TypeOK'
<1>0. \A l \in { "build", "fill", "reget", "flush", "unlock" } :
        Goto(p, l) => pc' \in [ Procs -> Labels ]
  BY GotoType DEF Labels
<1>f. InitFails(p) => pc' \in [ Procs -> Labels ] /\ rm' \in [ Procs -> BOOLEAN ]
  BY <1>0 DEF InitFails, TypeOK
<1>1. CASE InitLookup(p)
  BY <1>0, <1>1 DEF InitLookup, TypeOK, kernel
<1>2. CASE BuildCache(p)
  <2>1. dflt' \in [ Procs -> BOOLEAN ] /\ rm' \in [ Procs -> BOOLEAN ]
    BY <1>2, <1>f, Zenon DEF BuildCache, TypeOK
  <2>2. /\ shmKey' \in Segs \cup { None } /\ cache' \in [ Segs -> Values \cup { Blank } ]
        /\ buf' \in [ Procs -> Segs \cup { None } ]
    BY <1>2, FreshSegType, ShmGetType DEF BuildCache, TypeOK
  <2>3. pc' \in [ Procs -> Labels ]
    BY <1>0, <1>2, <1>f DEF BuildCache
  <2> QED
    BY <1>2, <2>1, <2>2, <2>3 DEF BuildCache, TypeOK
<1>3. CASE FillCache(p)
  <2>1. FileContents(p) \in Values \cup { Blank }
    BY ConfLockAssumption DEF FileContents, TypeOK
  <2>2. dflt' \in [ Procs -> BOOLEAN ] /\ rm' \in [ Procs -> BOOLEAN ]
    BY <1>3, <1>f, Zenon DEF FillCache, TypeOK
  <2>3. /\ cache' \in [ Segs -> Values \cup { Blank } ]
        /\ addr' \in [ Procs -> Segs \cup { None } ] /\ buf' \in [ Procs -> Segs \cup { None } ]
    BY <1>3, <2>1 DEF FillCache, TypeOK
  <2>4. pc' \in [ Procs -> Labels ]
    BY <1>0, <1>3, <1>f DEF FillCache
  <2> QED
    BY <1>3, <2>2, <2>3, <2>4 DEF FillCache, TypeOK
<1>4. CASE RegetShm(p)
  BY <1>0, <1>f, <1>4, ShmGetType DEF RegetShm, TypeOK
<1>5. CASE Writes(p)
  BY <1>5, WriterStep DEF TypeOK, locals, Labels
<1>6. CASE OpenFlash(p)
  BY <1>0, <1>6 DEF OpenFlash, TypeOK, locals
<1>7. CASE WriteFlash(p)
  <2>1. addr[p] \in Segs
    BY <1>7 DEF WriteFlash, CallsOK, TypeOK
  <2> QED
    BY <1>0, <1>7, <2>1 DEF WriteFlash, TypeOK, locals
<1> QED
  BY <1>1, <1>2, <1>3, <1>4, <1>5, <1>6, <1>7

LEMMA CrashType ==
  ASSUME TypeOK, NEW p \in Procs, Crash(p)
  PROVE  TypeOK'
<1>1. pc' \in [ Procs -> Labels ]
  BY GotoType DEF Crash, Return, Labels
<1>2. cache' \in [ Segs -> Values \cup { Blank } ] /\ addr' \in [ Procs -> Segs \cup { None } ]
  BY RemainingType DEF Crash, TypeOK
<1>3. Clear(p)
  BY DEF Crash, Return
<1>4. crashes' \in Nat
  BY DEF Crash, TypeOK
<1>5. UNCHANGED <<semKey, semVal, shmKey, flash>>
  BY DEF Crash
<1> QED
  BY <1>1, <1>2, <1>3, <1>4, <1>5, ClearType DEF TypeOK

LEMMA TypeStep ==
  ASSUME TypeOK, CallsOK, Next
  PROVE  TypeOK'
BY CallType, SemaphoreType, CriticalType, CrashType DEF Next, Step, Writes

-----------------------------------------------------------------------------
(* The calls                                                               *)

(* A step of p leaves the locals of the others alone.                      *)
LEMMA OthersKeep ==
  ASSUME TypeOK, NEW p \in Procs, NEW q \in Procs, q # p, Call(p) \/ Step(p) \/ Crash(p)
  PROVE  pc'[q] = pc[q] /\ sem'[q] = sem[q] /\ op'[q] = op[q] /\ addr'[q] = addr[q]
<1> USE DEF TypeOK
<1>1. CASE Call(p)
  BY <1>1 DEF Call, CallInit, CallLocked, CallUninit, CallRelease, Enter, Uninit, Clear, Goto
<1>2. CASE SemGetExcl(p) \/ SemGetAgain(p) \/ SetVal(p) \/ GetSemId(p)
  BY <1>2 DEF SemGetExcl, SemGetAgain, SetVal, GetSemId, Return, Clear, Goto, locals, kernel
<1>3. CASE LockCache(p) \/ UnlockCache(p) \/ UninitGet(p) \/ UninitRemove(p)
  BY <1>3 DEF LockCache, UnlockCache, UninitGet, UninitRemove, Return, Uninit, Clear, Goto,
              locals, kernel
<1>4. CASE InitLookup(p) \/ BuildCache(p) \/ FillCache(p) \/ RegetShm(p)
  BY <1>4 DEF InitLookup, BuildCache, FillCache, RegetShm, InitFails, Goto, locals, kernel
<1>5. CASE Writes(p) \/ OpenFlash(p) \/ WriteFlash(p)
  BY <1>5, WriterStep DEF OpenFlash, WriteFlash, Goto, locals
<1>6. CASE Crash(p)
  BY <1>6 DEF Crash, Return, Clear, Goto
<1> QED
  BY <1>1, <1>2, <1>3, <1>4, <1>5, <1>6 DEF Step, Writes

(* A call that has ended has nothing to rely on.                           *)
LEMMA EndedCall ==
  ASSUME TypeOK, NEW p \in Procs, Return(p) \/ Uninit(p)
  PROVE  op'[p] = NoOp /\ sem'[p] = None /\ pc'[p] \in { "idle", "unget" }
BY DEF Return, Uninit, Clear, Goto, TypeOK

LEMMA CallsOwn ==
  ASSUME TypeOK, CallsOK, NEW p \in Procs, Call(p) \/ Step(p) \/ Crash(p)
  PROVE  /\ op'[p] \in Writers \cup { "flash" } => addr'[p] # None
         /\ pc'[p] \in { "build", "fill" } => op'[p] = "init"
         /\ pc'[p] = "flush" => op'[p] = "flash"
<1> USE DEF TypeOK, CallsOK
<1>0. CASE Return(p) \/ Uninit(p)
  BY <1>0, EndedCall DEF NoOp, Writers
<1>1. CASE CallInit(p) \/ CallLocked(p)
  BY <1>1 DEF CallInit, CallLocked, Enter, Goto, Writers
<1>2. CASE CallUninit(p) \/ CallRelease(p) \/ UninitRemove(p) \/ UnlockCache(p) \/ Crash(p)
  BY <1>0, <1>2 DEF CallUninit, CallRelease, UninitRemove, UnlockCache, Crash
<1>3. CASE SemGetExcl(p) \/ SemGetAgain(p) \/ SetVal(p) \/ GetSemId(p)
  BY <1>0, <1>3 DEF SemGetExcl, SemGetAgain, SetVal, GetSemId, Goto, locals, kernel
<1>4. CASE LockCache(p) \/ UninitGet(p)
  BY <1>0, <1>4 DEF LockCache, UninitGet, Goto, locals, kernel
<1>5. CASE InitLookup(p) \/ BuildCache(p) \/ RegetShm(p)
  BY <1>5 DEF InitLookup, BuildCache, RegetShm, InitFails, Goto, locals, kernel
<1>6. CASE FillCache(p)
  BY <1>6 DEF FillCache, InitFails, Goto, Writers
<1>7. CASE Writes(p) \/ OpenFlash(p) \/ WriteFlash(p)
  BY <1>7, WriterStep DEF OpenFlash, WriteFlash, Goto, locals
<1> QED
  BY <1>1, <1>2, <1>3, <1>4, <1>5, <1>6, <1>7 DEF Call, Step, Writes

LEMMA CallsStep ==
  ASSUME TypeOK, CallsOK, Next
  PROVE  CallsOK'
<1>1. PICK p \in Procs : Call(p) \/ Step(p) \/ Crash(p)
  BY DEF Next
<1>2. \A q \in Procs : q # p =>
        pc'[q] = pc[q] /\ sem'[q] = sem[q] /\ op'[q] = op[q] /\ addr'[q] = addr[q]
  BY <1>1, OthersKeep
<1>3. /\ op'[p] \in Writers \cup { "flash" } => addr'[p] # None
      /\ pc'[p] \in { "build", "fill" } => op'[p] = "init"
      /\ pc'[p] = "flush" => op'[p] = "flash"
  BY <1>1, CallsOwn
<1> QED
  BY <1>2, <1>3 DEF CallsOK

-----------------------------------------------------------------------------
(* The semaphore                                                           *)

Uses(p) == Holding(p) \/ pc[p] = "setval"
SemInv == SemaphoreAdmitsOne /\ SemaphoreIsGivenBack

(* Without a semaphore there is nothing to say.                            *)
LEMMA NoSemaphore ==
  ASSUME semKey' = None
  PROVE  SemInv'
BY DEF SemInv, SemaphoreAdmitsOne, SemaphoreIsGivenBack

(* A step of p that neither touches the semaphore nor makes p begin or     *)
(* stop to rely on it.                                                     *)
LEMMA QuietStep ==
  ASSUME SemInv, NEW p \in Procs, UNCHANGED <<semKey, semVal, crashes>>,
         \A q \in Procs : q # p => pc'[q] = pc[q] /\ sem'[q] = sem[q],
         (sem'[p] = semKey /\ Uses(p)') <=> (sem[p] = semKey /\ Uses(p))
  PROVE  SemInv'
<1>1. Users(semKey)' = Users(semKey)
  BY DEF Users, Uses, Holding
<1> QED
  BY <1>1 DEF SemInv, SemaphoreAdmitsOne, SemaphoreIsGivenBack

(* A step after which p is the only one to rely on it, and it is at zero.  *)
LEMMA TakenStep ==
  ASSUME semVal' = 0, NEW p \in Procs, Users(semKey)' = { p }
  PROVE  SemInv'
BY DEF SemInv, SemaphoreAdmitsOne, SemaphoreIsGivenBack

(* A step after which nobody relies on it, and it is at one.               *)
LEMMA FreeStep ==
  ASSUME semVal' = 1, Users(semKey)' = {}
  PROVE  SemInv'
BY DEF SemInv, SemaphoreAdmitsOne, SemaphoreIsGivenBack

LEMMA SemaphoreStep ==
  ASSUME TypeOK, SemInv, NEW p \in Procs, Call(p) \/ Step(p) \/ Crash(p)
  PROVE  SemInv'
<1>0. \A q \in Procs : q # p => pc'[q] = pc[q] /\ sem'[q] = sem[q]
  BY OthersKeep
<1> DEFINE Mine == sem[p] = semKey /\ Uses(p)
<1>m. Mine => p \in Users(semKey)
  BY DEF Users, Uses
<1>e. Return(p) \/ Uninit(p) => sem'[p] = None /\ ~Uses(p)'
  BY EndedCall DEF Uses, Holding
<1>1. CASE CallInit(p) \/ CallLocked(p)
  BY <1>0, <1>1, QuietStep DEF CallInit, CallLocked, Enter, Goto, kernel, TypeOK, Uses, Holding
<1>2. CASE CallUninit(p) \/ CallRelease(p)
  BY <1>0, <1>2, <1>e, QuietStep DEF CallUninit, CallRelease, Uses, Holding
<1>3. CASE SemGetExcl(p)
  <2>1. CASE semKey = None
    <3>1. /\ semKey' = sem'[p] /\ semVal' = 0 /\ pc'[p] = "setval"
          /\ \A q \in Procs : q # p => sem[q] # semKey'
      BY <1>3, <2>1, FreshSemType DEF SemGetExcl, Goto, TypeOK
    <3>2. Users(semKey)' = { p }
      BY <1>0, <3>1 DEF Users
    <3> QED
      BY <3>1, <3>2, TakenStep
  <2>2. CASE semKey # None
    BY <1>0, <1>3, <2>2, QuietStep DEF SemGetExcl, Goto, TypeOK, Uses, Holding
  <2> QED
    BY <2>1, <2>2
<1>4. CASE SemGetAgain(p) \/ GetSemId(p) \/ UninitGet(p)
  <2>1. UNCHANGED <<semKey, semVal, crashes>>
    BY <1>4 DEF SemGetAgain, GetSemId, UninitGet, kernel
  <2>2. ~Uses(p) /\ ~Uses(p)'
    BY <1>4, <1>e DEF SemGetAgain, GetSemId, UninitGet, Goto, TypeOK, Uses, Holding
  <2> QED
    BY <1>0, <2>1, <2>2, QuietStep
<1>5. CASE SetVal(p)
  <2>1. CASE Exists(sem[p])
    <3>1. Mine /\ semKey' = semKey /\ semVal' = 1 /\ ~Uses(p)'
      BY <1>5, <2>1 DEF SetVal, Exists, Goto, TypeOK, Uses, Holding
    <3>2. Users(semKey) = { p }
      BY <1>m, <2>1, <3>1 DEF SemInv, SemaphoreAdmitsOne, Exists
    <3>3. Users(semKey)' = {}
      BY <1>0, <3>1, <3>2 DEF Users, Uses, Holding
    <3> QED
      BY <3>1, <3>3, FreeStep
  <2>2. CASE ~Exists(sem[p]) /\ semKey # None
    BY <1>0, <1>5, <1>e, <2>2, QuietStep DEF SetVal, Exists
  <2>3. CASE semKey = None
    BY <1>5, <2>3, NoSemaphore DEF SetVal
  <2> QED
    BY <2>1, <2>2, <2>3
<1>6. CASE LockCache(p)
  <2>1. CASE Exists(sem[p]) /\ semVal > 0
    <3>1. /\ sem'[p] = semKey' /\ semKey' = semKey /\ semVal' = semVal - 1
          /\ pc'[p] = "critical"
      BY <1>6, <2>1 DEF LockCache, Exists, Goto, TypeOK, locals
    <3>2. semVal = 1 /\ Users(semKey) = {}
      BY <2>1 DEF SemInv, SemaphoreAdmitsOne, Exists
    <3>3. Users(semKey)' = { p }
      BY <1>0, <3>1, <3>2 DEF Users, Holding
    <3> QED
      BY <3>1, <3>2, <3>3, TakenStep
  <2>2. CASE ~Exists(sem[p]) /\ semKey # None
    BY <1>0, <1>6, <1>e, <2>2, QuietStep DEF LockCache, Exists
  <2>3. CASE semKey = None
    BY <1>6, <2>3, NoSemaphore DEF LockCache
  <2> QED
    BY <1>6, <2>1, <2>2, <2>3 DEF LockCache
<1>7. CASE UnlockCache(p)
  <2>1. CASE Exists(sem[p])
    <3>1. Mine /\ semKey' = semKey /\ semVal' = semVal + 1 /\ ~Uses(p)'
      BY <1>7, <1>e, <2>1 DEF UnlockCache, Exists, Uses, Holding
    <3>2. Users(semKey) = { p } /\ semVal = 0
      BY <1>m, <2>1, <3>1 DEF SemInv, SemaphoreAdmitsOne, Exists
    <3>3. Users(semKey)' = {}
      BY <1>0, <3>1, <3>2 DEF Users, Uses, Holding
    <3> QED
      BY <3>1, <3>2, <3>3, FreeStep
  <2>2. CASE ~Exists(sem[p]) /\ semKey # None
    BY <1>0, <1>7, <1>e, <2>2, QuietStep DEF UnlockCache, Exists
  <2>3. CASE semKey = None
    BY <1>7, <2>3, NoSemaphore DEF UnlockCache
  <2> QED
    BY <2>1, <2>2, <2>3
<1>8. CASE UninitRemove(p)
  <2>1. CASE Exists(sem[p])
    BY <1>8, <2>1, NoSemaphore DEF UninitRemove
  <2>2. CASE ~Exists(sem[p])
    BY <1>0, <1>8, <1>e, <2>2, QuietStep DEF UninitRemove, Uses, Holding
  <2> QED
    BY <2>1, <2>2
<1>9. CASE InitLookup(p) \/ BuildCache(p) \/ FillCache(p) \/ RegetShm(p)
  <2>1. UNCHANGED <<semKey, semVal, sem, crashes>>
    BY <1>9 DEF InitLookup, BuildCache, FillCache, RegetShm, kernel
  <2>2. Uses(p) /\ Uses(p)'
    BY <1>9 DEF InitLookup, BuildCache, FillCache, RegetShm, InitFails, Goto, TypeOK, Uses,
                Holding
  <2> QED
    BY <1>0, <2>1, <2>2, QuietStep
<1>w. CASE Writes(p) \/ OpenFlash(p) \/ WriteFlash(p)
  <2>1. UNCHANGED <<semKey, semVal, sem, crashes>>
    BY <1>w, WriterStep DEF OpenFlash, WriteFlash, locals
  <2>2. Uses(p) /\ Uses(p)'
    BY <1>w, WriterStep DEF OpenFlash, WriteFlash, Goto, TypeOK, Uses, Holding
  <2> QED
    BY <1>0, <2>1, <2>2, QuietStep
<1>10. CASE Crash(p)
  <2>1. UNCHANGED <<semKey, semVal>> /\ crashes' > 0 /\ ~Uses(p)'
    BY <1>10, <1>e DEF Crash, TypeOK
  <2>2. Users(semKey)' \subseteq Users(semKey)
    BY <1>0, <2>1 DEF Users, Uses, Holding
  <2> QED
    BY <2>1, <2>2 DEF SemInv, SemaphoreAdmitsOne, SemaphoreIsGivenBack
<1> QED
  BY <1>1, <1>2, <1>3, <1>4, <1>5, <1>6, <1>7, <1>8, <1>9, <1>w, <1>10 DEF Call, Step, Writes

LEMMA LockInvStep == LockInv /\ [Next]_vars => LockInv'
<1> SUFFICES ASSUME LockInv, [Next]_vars PROVE LockInv'
  OBVIOUS
<1>1. CASE Next
  BY <1>1, TypeStep, CallsStep, SemaphoreStep DEF LockInv, SemInv, Next
<1>2. CASE UNCHANGED vars
  <2>1. TypeOK' /\ CallsOK'
    BY <1>2 DEF LockInv, TypeOK, CallsOK, vars
  <2>2. Users(semKey)' = Users(semKey)
    BY <1>2 DEF Users, Holding, vars
  <2> QED
    BY <1>2, <2>1, <2>2 DEF LockInv, SemaphoreAdmitsOne, SemaphoreIsGivenBack, vars
<1> QED
  BY <1>1, <1>2

(* The types, for any number of processes, identifiers and values.         *)
THEOREM LockTypes == Spec => []TypeOK
<1>1. LockInv => TypeOK
  BY DEF LockInv
<1> QED
  BY <1>1, InitLockInv, LockInvStep, PTL DEF Spec

(* init_cache_lock, lock_cache and unlock_cache: whoever creates, removes, *)
(* waits for or dies with the semaphore, the one that exists is at zero or *)
(* one and admits one process.                                             *)
THEOREM OneHolder == Spec => []SemaphoreAdmitsOne
<1>1. LockInv => SemaphoreAdmitsOne
  BY DEF LockInv
<1> QED
  BY <1>1, InitLockInv, LockInvStep, PTL DEF Spec

(* Every way out of a call under the lock passes unlock_cache: a semaphore *)
(* at zero has a holder, unless a process was killed.                      *)
THEOREM LockIsGivenBack == Spec => []SemaphoreIsGivenBack
<1>1. LockInv => SemaphoreIsGivenBack
  BY DEF LockInv
<1> QED
  BY <1>1, InitLockInv, LockInvStep, PTL DEF Spec
=============================================================================
