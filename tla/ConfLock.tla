------------------------------ MODULE ConfLock ------------------------------
(* The shared parameter cache of conflib (conflib/configapi.c): processes  *)
(* that attach one System V shared-memory segment, guard it with one System *)
(* V semaphore and save it to the file os.conf.                             *)
(*                                                                          *)
(* A step is one system call, or the stretch of code between two of them    *)
(* that touches only what the process owns. What a segment or the file      *)
(* holds is one value: the whole set of parameters, or none (Blank).        *)
EXTENDS Naturals, FiniteSets

CONSTANTS
  Procs,     \* processes that use the library
  Sems,      \* semaphore identifiers the kernel hands out, numbers
  Segs,      \* shared-memory identifiers the kernel hands out, numbers
  Values,    \* contents of a parameter set
  DefaultV,  \* the contents of default.conf
  Calls,     \* the library calls each process makes
  Faults,    \* TRUE: opening a file or attaching memory may fail
  Mortal,    \* processes that may be killed
  MaxCrashes \* bound: processes killed in a behaviour

None == 0            \* no identifier, a null pointer
NoOp == "none"       \* not in a call
Blank == "blank"     \* a segment without parameters
Absent == "absent"   \* os.conf does not exist

Writers == { "write_parameter", "write_table_parameter", "add_table_row", "delete_table_row" }
OpNames == Writers \cup { "init", "flash", "uninit", "release" }

(* The kernel never hands out an identifier that somebody still holds, and *)
(* there are enough of them for it to find one.                            *)
ASSUME ConfLockAssumption ==
  /\ IsFiniteSet(Procs)
  /\ IsFiniteSet(Sems) /\ Cardinality(Sems) >= Cardinality(Procs)
  /\ IsFiniteSet(Segs) /\ Cardinality(Segs) > Cardinality(Procs)
  /\ Sems \cup Segs \subseteq Nat \ { None }
  /\ DefaultV \in Values
  /\ Values \cap { Blank, Absent } = {}
  /\ Calls \in [ Procs -> SUBSET OpNames ]
  /\ Faults \in BOOLEAN
  /\ Mortal \subseteq Procs
  /\ MaxCrashes \in Nat

VARIABLES
  semKey,   \* the semaphore under KEY_LOCK_CACHE_FILE
  semVal,   \* its value
  shmKey,   \* the segment under KEY_SHARE_MEMORY
  cache,    \* the contents of every segment
  flash,    \* the contents of os.conf
  addr,     \* cache_addr of every process
  op,       \* the call a process is in
  pc,       \* where in it
  sem,      \* the local variable sem
  buf,      \* the segment build_cache attached
  dflt,     \* open_para_file opened default.conf
  rm,       \* the call ends with uninit_cache_lock
  crashes   \* processes killed so far

vars == <<semKey, semVal, shmKey, cache, flash, addr, op, pc, sem, buf, dflt, rm, crashes>>
kernel == <<semKey, semVal, shmKey, cache, flash>>
locals == <<op, sem, buf, dflt, rm>>

Labels == { "idle", "semget", "exists", "setval", "get", "lock", "critical", "build", "fill",
            "reget", "flush", "unlock", "unget", "rmid" }

Init ==
  /\ semKey = None /\ semVal = 0
  /\ shmKey = None /\ cache = [ s \in Segs |-> Blank ]
  /\ flash \in { Absent, DefaultV }
  /\ addr = [ p \in Procs |-> None ]
  /\ op = [ p \in Procs |-> NoOp ] /\ pc = [ p \in Procs |-> "idle" ]
  /\ sem = [ p \in Procs |-> None ] /\ buf = [ p \in Procs |-> None ]
  /\ dflt = [ p \in Procs |-> FALSE ] /\ rm = [ p \in Procs |-> FALSE ]
  /\ crashes = 0

(* The identifier the kernel hands out: the first that nobody refers to.   *)
Lowest(S) == { i \in S : \A j \in S : i <= j }
FreshSem == Lowest(Sems \ ({ semKey } \cup { sem[p] : p \in Procs }))
FreshSeg == Lowest(Segs \ ({ shmKey } \cup { addr[p] : p \in Procs } \cup { buf[p] : p \in Procs }))

(* What is left of the contents when the key and the attachments are as    *)
(* given: a segment without either is destroyed.                           *)
Remaining(key, a) ==
  [ s \in Segs |-> IF s = key \/ \E p \in Procs : s \in { a[p], buf[p] } THEN cache[s] ELSE Blank ]

Goto(p, l) == pc' = [ pc EXCEPT ![p] = l ]

(* The local variables of the call are gone.                               *)
Clear(p) ==
  /\ op' = [ op EXCEPT ![p] = NoOp ]
  /\ sem' = [ sem EXCEPT ![p] = None ]
  /\ buf' = [ buf EXCEPT ![p] = None ]
  /\ dflt' = [ dflt EXCEPT ![p] = FALSE ]
  /\ rm' = [ rm EXCEPT ![p] = FALSE ]

(* The call returns, or ends with uninit_cache_lock.                       *)
Return(p) == Goto(p, "idle") /\ Clear(p)
Uninit(p) == Goto(p, "unget") /\ Clear(p)

Exists(i) == semKey = i /\ i # None
-----------------------------------------------------------------------------
(* The calls                                                               *)

Enter(p, o) ==
  /\ pc[p] = "idle" /\ o \in Calls[p]
  /\ op' = [ op EXCEPT ![p] = o ]
  /\ UNCHANGED <<kernel, addr, sem, buf, dflt, rm, crashes>>

CallInit(p) == Enter(p, "init") /\ Goto(p, "semget")

(* The writing calls return at once when the library is not initialised.   *)
CallLocked(p) ==
  /\ addr[p] # None
  /\ \E o \in Writers \cup { "flash" } : Enter(p, o)
  /\ Goto(p, "get")

(* config_api_uninit_library: shmdt, then uninit_cache_lock.               *)
CallUninit(p) ==
  /\ pc[p] = "idle" /\ "uninit" \in Calls[p]
  /\ addr' = [ addr EXCEPT ![p] = None ]
  /\ cache' = Remaining(shmKey, addr')
  /\ Uninit(p)
  /\ UNCHANGED <<semKey, semVal, shmKey, flash, crashes>>

(* config_api_release_library: the segment loses its key and lives on for  *)
(* those who attached it; then the semaphore goes. Looking it up and       *)
(* taking its key away are one step: one that was released in between only *)
(* makes the call return.                                                  *)
CallRelease(p) ==
  /\ pc[p] = "idle" /\ "release" \in Calls[p]
  /\ shmKey # None
  /\ shmKey' = None
  /\ cache' = Remaining(None, addr)
  /\ Uninit(p)
  /\ UNCHANGED <<semKey, semVal, flash, addr, crashes>>
-----------------------------------------------------------------------------
(* init_cache_lock                                                         *)

(* Mutant: without IPC_EXCL, the semaphore of another is set again.        *)
SemGetShared(p) ==
  /\ pc[p] = "semget"
  /\ \E i \in IF semKey = None THEN FreshSem ELSE { semKey } :
       /\ semKey' = i
       /\ sem' = [ sem EXCEPT ![p] = i ]
  /\ semVal' = IF semKey = None THEN 0 ELSE semVal
  /\ Goto(p, "setval")
  /\ UNCHANGED <<shmKey, cache, flash, addr, op, buf, dflt, rm, crashes>>

SemGetExcl(p) ==
  /\ pc[p] = "semget"
  /\ \/ /\ semKey = None
        /\ \E i \in FreshSem :
             /\ semKey' = i
             /\ semVal' = 0
             /\ sem' = [ sem EXCEPT ![p] = i ]
        /\ Goto(p, "setval")
     \/ /\ semKey # None
        /\ Goto(p, "exists")
        /\ UNCHANGED <<semKey, semVal, sem>>
  /\ UNCHANGED <<shmKey, cache, flash, addr, op, buf, dflt, rm, crashes>>

SemGetAgain(p) ==
  /\ pc[p] = "exists"
  /\ \/ semKey # None /\ Goto(p, "get") /\ UNCHANGED locals
     \/ semKey = None /\ Return(p)
  /\ UNCHANGED <<kernel, addr, crashes>>

SetVal(p) ==
  /\ pc[p] = "setval"
  /\ \/ /\ Exists(sem[p])
        /\ semVal' = 1
        /\ sem' = [ sem EXCEPT ![p] = None ]
        /\ Goto(p, "get")
        /\ UNCHANGED <<op, buf, dflt, rm>>
     \/ /\ ~Exists(sem[p])
        /\ Return(p)
        /\ UNCHANGED semVal
  /\ UNCHANGED <<semKey, shmKey, cache, flash, addr, crashes>>

(* get_sem_id, in every call that locks                                    *)
GetSemId(p) ==
  /\ pc[p] = "get"
  /\ \/ /\ semKey # None
        /\ sem' = [ sem EXCEPT ![p] = semKey ]
        /\ Goto(p, "lock")
        /\ UNCHANGED <<op, buf, dflt, rm>>
     \/ semKey = None /\ Return(p)
  /\ UNCHANGED <<kernel, addr, crashes>>

(* Mutant: the lock is taken without waiting.                              *)
LockCacheAtOnce(p) ==
  /\ pc[p] = "lock"
  /\ \/ /\ Exists(sem[p])
        /\ semVal' = semVal - 1
        /\ Goto(p, "critical")
        /\ UNCHANGED locals
     \/ ~Exists(sem[p]) /\ Return(p) /\ UNCHANGED semVal
  /\ UNCHANGED <<semKey, shmKey, cache, flash, addr, crashes>>

(* lock_cache: semop with -1. A waiter wakes with an error when the        *)
(* semaphore is removed; init then calls uninit_cache_lock.                *)
LockCache(p) ==
  /\ pc[p] = "lock"
  /\ \/ /\ Exists(sem[p]) /\ semVal > 0
        /\ semVal' = semVal - 1
        /\ Goto(p, "critical")
        /\ UNCHANGED locals
     \/ /\ ~Exists(sem[p])
        /\ UNCHANGED semVal
        /\ \/ op[p] = "init" /\ Uninit(p)
           \/ op[p] # "init" /\ Return(p)
  /\ UNCHANGED <<semKey, shmKey, cache, flash, addr, crashes>>

(* unlock_cache: its result is not looked at.                              *)
UnlockCache(p) ==
  /\ pc[p] = "unlock"
  /\ semVal' = IF Exists(sem[p]) THEN semVal + 1 ELSE semVal
  /\ \/ rm[p] /\ Uninit(p)
     \/ ~rm[p] /\ Return(p)
  /\ UNCHANGED <<semKey, shmKey, cache, flash, addr, crashes>>

(* uninit_cache_lock: get_sem_id, then IPC_RMID.                           *)
UninitGet(p) ==
  /\ pc[p] = "unget"
  /\ \/ /\ semKey # None
        /\ sem' = [ sem EXCEPT ![p] = semKey ]
        /\ Goto(p, "rmid")
        /\ UNCHANGED <<op, buf, dflt, rm>>
     \/ semKey = None /\ Return(p)
  /\ UNCHANGED <<kernel, addr, crashes>>

UninitRemove(p) ==
  /\ pc[p] = "rmid"
  /\ \/ Exists(sem[p]) /\ semKey' = None /\ semVal' = 0
     \/ ~Exists(sem[p]) /\ UNCHANGED <<semKey, semVal>>
  /\ Return(p)
  /\ UNCHANGED <<shmKey, cache, flash, addr, crashes>>
-----------------------------------------------------------------------------
(* Under the lock: config_api_init_library and init_library                *)

(* Mutant: a second call of a process returns with the lock taken.         *)
InitLookupLocked(p) ==
  /\ pc[p] = "critical" /\ op[p] = "init"
  /\ \/ addr[p] # None /\ Return(p)
     \/ /\ addr[p] = None
        /\ rm' = [ rm EXCEPT ![p] = (shmKey = None) ]
        /\ Goto(p, "build")
        /\ UNCHANGED <<op, sem, buf, dflt>>
  /\ UNCHANGED <<kernel, addr, crashes>>

(* The segment is looked up only to decide whether this is the first call. *)
InitLookup(p) ==
  /\ pc[p] = "critical" /\ op[p] = "init"
  /\ rm' = [ rm EXCEPT ![p] = (addr[p] # None \/ shmKey = None) ]
  /\ Goto(p, IF addr[p] # None THEN "unlock" ELSE "build")
  /\ UNCHANGED <<kernel, addr, op, sem, buf, dflt, crashes>>

(* shmget with IPC_CREAT: the segment under the key, or a new one, cleared *)
(* by the kernel.                                                          *)
ShmGet ==
  /\ shmKey' \in IF shmKey = None THEN FreshSeg ELSE { shmKey }
  /\ cache' = IF shmKey = None THEN [ cache EXCEPT ![shmKey'] = Blank ] ELSE cache

(* The way out of init_library and of what follows it when a system call   *)
(* fails: -1, by unlock_cache and uninit_cache_lock.                       *)
InitFails(p) ==
  /\ Faults
  /\ rm' = [ rm EXCEPT ![p] = TRUE ]
  /\ Goto(p, "unlock")

(* open_para_file and build_cache: attach the segment, create it if need   *)
(* be, and clear it. Nothing is done when no file opens or shmget fails;   *)
(* a segment shmget has made stays when shmat fails.                       *)
BuildCache(p) ==
  /\ pc[p] = "build"
  /\ \/ /\ shmKey' \in IF shmKey = None THEN FreshSeg ELSE { shmKey }
        /\ cache' = [ cache EXCEPT ![shmKey'] = Blank ]
        /\ buf' = [ buf EXCEPT ![p] = shmKey' ]
        /\ dflt' = [ dflt EXCEPT ![p] = (flash = Absent) ]
        /\ Goto(p, "fill")
        /\ UNCHANGED rm
     \/ InitFails(p) /\ UNCHANGED <<shmKey, cache, buf, dflt>>
     \/ InitFails(p) /\ ShmGet /\ UNCHANGED <<buf, dflt>>
  /\ UNCHANGED <<semKey, semVal, flash, addr, op, sem, crashes>>

(* build_para_table: what the file says when it is read.                   *)
FileContents(p) ==
  IF dflt[p] THEN DefaultV ELSE IF flash = Absent THEN Blank ELSE flash

FillCache(p) ==
  /\ pc[p] = "fill"
  /\ buf' = [ buf EXCEPT ![p] = None ]
  /\ dflt' = [ dflt EXCEPT ![p] = FALSE ]
  /\ \/ /\ cache' = [ cache EXCEPT ![buf[p]] = FileContents(p) ]
        /\ addr' = [ addr EXCEPT ![p] = buf[p] ]
        /\ Goto(p, IF rm[p] THEN "unlock" ELSE "reget")
        /\ UNCHANGED rm
     \/ InitFails(p) /\ UNCHANGED <<cache, addr>>
  /\ UNCHANGED <<semKey, semVal, shmKey, flash, op, sem, crashes>>

(* The shmget that ends a later call: it only makes sure that the key      *)
(* exists, and creates an empty segment when a release came in between.    *)
(* (check_library, compiled without its test, finds nothing wrong.)        *)
RegetShm(p) ==
  /\ pc[p] = "reget"
  /\ \/ ShmGet /\ Goto(p, "unlock") /\ UNCHANGED rm
     \/ InitFails(p) /\ UNCHANGED <<shmKey, cache>>
  /\ UNCHANGED <<semKey, semVal, flash, addr, op, sem, buf, dflt, crashes>>
-----------------------------------------------------------------------------
(* Under the lock: the writers. Each disjunct is one of the returns of the *)
(* function. Which one it takes depends on its arguments and on the table, *)
(* and a table without applications lets it find none.                     *)

Writing(p, o) ==
  /\ pc[p] = "critical" /\ op[p] = o
  /\ UNCHANGED <<semKey, semVal, shmKey, flash, addr, locals, crashes>>

FindsApp(p) == cache[addr[p]] # Blank
Changes(p) == FindsApp(p) /\ \E v \in Values : cache' = [ cache EXCEPT ![addr[p]] = v ]
Finds(p) == FindsApp(p) /\ UNCHANGED cache

WriteParameter(p) ==
  /\ Writing(p, "write_parameter")
  /\ \/ Changes(p) /\ Goto(p, "unlock")
     \/ Finds(p) /\ Goto(p, "unlock")         \* no such parameter
     \/ UNCHANGED cache /\ Goto(p, "unlock")  \* no such application

WriteTableParameter(p) ==
  /\ Writing(p, "write_table_parameter")
  /\ \/ Changes(p) /\ Goto(p, "unlock")
     \/ Finds(p) /\ Goto(p, "unlock")         \* no such parameter in the row
     \/ Finds(p) /\ Goto(p, "unlock")         \* no such row
     \/ UNCHANGED cache /\ Goto(p, "unlock")  \* no such application

AddTableRow(p) ==
  /\ Writing(p, "add_table_row")
  /\ \/ Finds(p) /\ Goto(p, "unlock")         \* the application has no table
     \/ Finds(p) /\ Goto(p, "unlock")         \* the index is out of range
     \/ Finds(p) /\ Goto(p, "unlock")         \* the row exists
     \/ Finds(p) /\ Goto(p, "unlock")         \* no free row node
     \/ Finds(p) /\ Goto(p, "unlock")         \* no first value
     \/ Changes(p) /\ Goto(p, "unlock")       \* no free parameter node: the row is there
     \/ Changes(p) /\ Goto(p, "unlock")
     \/ UNCHANGED cache /\ Goto(p, "unlock")  \* no such application

(* Mutant: the return in the loop over the rows forgets unlock_cache.      *)
DeleteTableRowLocked(p) ==
  /\ pc[p] = "critical" /\ op[p] = "delete_table_row"
  /\ \/ Finds(p) /\ Return(p)
     \/ Changes(p) /\ Goto(p, "unlock") /\ UNCHANGED locals
     \/ Finds(p) /\ Goto(p, "unlock") /\ UNCHANGED locals
     \/ UNCHANGED cache /\ Goto(p, "unlock") /\ UNCHANGED locals
  /\ UNCHANGED <<semKey, semVal, shmKey, flash, addr, crashes>>

DeleteTableRow(p) ==
  /\ Writing(p, "delete_table_row")
  /\ \/ Finds(p) /\ Goto(p, "unlock")         \* a row past it is met first
     \/ Changes(p) /\ Goto(p, "unlock")
     \/ Finds(p) /\ Goto(p, "unlock")         \* no such row
     \/ UNCHANGED cache /\ Goto(p, "unlock")  \* no such application

(* config_api_write_to_flash: fopen "w" empties the file, then the table   *)
(* is printed into it.                                                     *)
OpenFlash(p) ==
  /\ pc[p] = "critical" /\ op[p] = "flash"
  /\ \/ flash' = Blank /\ Goto(p, "flush")
     \/ Faults /\ Goto(p, "unlock") /\ UNCHANGED flash
  /\ UNCHANGED <<semKey, semVal, shmKey, cache, addr, locals, crashes>>

WriteFlash(p) ==
  /\ pc[p] = "flush"
  /\ flash' = cache[addr[p]]
  /\ Goto(p, "unlock")
  /\ UNCHANGED <<semKey, semVal, shmKey, cache, addr, locals, crashes>>
-----------------------------------------------------------------------------
(* A process is killed: the kernel detaches its memory, and does not undo  *)
(* its semaphore operations (sem_flg is 0).                                *)
Crash(p) ==
  /\ p \in Mortal /\ crashes < MaxCrashes
  /\ crashes' = crashes + 1
  /\ addr' = [ addr EXCEPT ![p] = None ]
  /\ cache' = Remaining(shmKey, addr')
  /\ Return(p)
  /\ UNCHANGED <<semKey, semVal, shmKey, flash>>

Call(p) == CallInit(p) \/ CallLocked(p) \/ CallUninit(p) \/ CallRelease(p)

(* The next step of the call a process is in.                              *)
Step(p) ==
  \/ SemGetExcl(p) \/ SemGetAgain(p) \/ SetVal(p) \/ GetSemId(p)
  \/ LockCache(p) \/ UnlockCache(p) \/ UninitGet(p) \/ UninitRemove(p)
  \/ InitLookup(p) \/ BuildCache(p) \/ FillCache(p) \/ RegetShm(p)
  \/ WriteParameter(p) \/ WriteTableParameter(p) \/ AddTableRow(p) \/ DeleteTableRow(p)
  \/ OpenFlash(p) \/ WriteFlash(p)

Next == \E p \in Procs : Call(p) \/ Step(p) \/ Crash(p)

Spec == Init /\ [][Next]_vars

(* A call runs on as long as it can. The kernel serves the waiters of a    *)
(* semaphore in the order in which they came, so one that could go on      *)
(* again and again goes on.                                                *)
FairSpec ==
  /\ Spec
  /\ \A p \in Procs : WF_vars(Step(p)) /\ SF_vars(LockCache(p))
-----------------------------------------------------------------------------
(* Properties                                                              *)

(* Between lock_cache and unlock_cache.                                    *)
Holding(p) == pc[p] \in { "critical", "build", "fill", "reget", "flush", "unlock" }

(* Those whose next steps rely on the value of semaphore i: the process    *)
(* that created it and has not set it yet, and the one that holds it.      *)
Users(i) == { p \in Procs : sem[p] = i /\ (Holding(p) \/ pc[p] = "setval") }

TypeOK ==
  /\ semKey \in Sems \cup { None } /\ semVal \in Nat
  /\ shmKey \in Segs \cup { None } /\ cache \in [ Segs -> Values \cup { Blank } ]
  /\ flash \in Values \cup { Blank, Absent }
  /\ addr \in [ Procs -> Segs \cup { None } ]
  /\ op \in [ Procs -> OpNames \cup { NoOp } ] /\ pc \in [ Procs -> Labels ]
  /\ sem \in [ Procs -> Sems \cup { None } ] /\ buf \in [ Procs -> Segs \cup { None } ]
  /\ dflt \in [ Procs -> BOOLEAN ] /\ rm \in [ Procs -> BOOLEAN ]
  /\ crashes \in Nat

(* However calls that create, remove and wait for the semaphore overlap,   *)
(* the one that exists admits one process: nobody raises it above one or   *)
(* sets it while it is held (init_cache_lock, lock_cache, unlock_cache).   *)
SemaphoreAdmitsOne ==
  semKey # None =>
    /\ semVal \in { 0, 1 }
    /\ \A p, q \in Users(semKey) : p = q
    /\ Users(semKey) # {} => semVal = 0

(* No way out of a call leaves the lock taken: a semaphore at zero has a   *)
(* holder, or one who was killed ("unlock befor return ,or blocked").      *)
SemaphoreIsGivenBack ==
  semKey # None /\ semVal = 0 => Users(semKey) # {} \/ crashes > 0

(* Every call returns, unless a process was killed: no waiter sleeps on a  *)
(* semaphore that was removed or that its creator has not set.             *)
CallsReturn == \A p \in Procs : pc[p] # "idle" ~> pc[p] = "idle" \/ crashes > 0

(* What "lock this function to make function calling safe under mutiple    *)
(* threads" says of config_api_init_library: nobody else is under the lock *)
(* while one process builds the cache.                                     *)
InitIsExclusive ==
  \A p, q \in Procs : pc[p] \in { "build", "fill" } /\ Holding(q) => p = q
=============================================================================
