--------------------------- MODULE MemoryManager ---------------------------
(***************************************************************************)
(* How a process gets its log: NVSStore::NVSStore calls                    *)
(* MemoryManager::FindLog and, if that fails, CreateLog, over the root     *)
(* heap of sheap/root.cc: an array of log ids in a persistent pool,        *)
(* guarded by one mutex in shared memory.  The mutex outlives the process  *)
(* that holds it; the log files and the pool outlive all of them.          *)
(***************************************************************************)
EXTENDS Naturals, FiniteSets

CONSTANTS
  Procs,      \* processes on the node
  Rank,       \* Rank[p]: the number in the store id of p
  IdRange,    \* how many values a LogId has (256: uint8_t)
  MaxLogs,    \* length of log_id[] (MAX_LOGS)
  Formatted,  \* heapFormatter has run already
  Free

ASSUME IdsAssumption ==
  /\ IdRange \in Nat \ {0} /\ MaxLogs \in Nat /\ IdRange <= MaxLogs
  /\ Rank \in [Procs -> Nat]
  /\ Formatted \in BOOLEAN /\ Free \notin Procs

Ids == 0..(IdRange - 1)
Slots == 0..(MaxLogs - 1)
\* std::stoi assigned to a LogId
IdOf(p) == Rank[p] % IdRange

VARIABLES
  pool,            \* the root pool file: "absent", "creating" or "ready"
  logId, length,   \* struct nvs_root as loads see it
  plogId, plength, \* and on the media
  mtx,             \* holder of the root mutex, or Free
  file,            \* each log file: "absent", "nohdr" or "ready"
  pc,              \* per process: where it is
  created,         \* history: ids for which CreateLog returned NO_ERROR
  torn             \* history: a power failure kept length and lost an id below it

root == <<logId, length, plogId, plength>>
vars == <<pool, root, mtx, file, pc, created, torn>>

LockStates == {"rootLock", "findLock", "checkLock", "makeLock", "addLock"}
Critical == {"rootUnlock", "findScan", "checkScan", "makeFile", "makeHdr",
             "makeUnlock", "addId", "addLen"}
PcStates == {"down", "map", "running"} \cup LockStates \cup Critical

TypeOK ==
  /\ pool \in {"absent", "creating", "ready"}
  /\ logId \in [Slots -> Ids] /\ plogId \in [Slots -> Ids]
  /\ length \in Nat /\ plength \in Nat
  /\ mtx \in Procs \cup {Free}
  /\ file \in [Ids -> {"absent", "nohdr", "ready"}]
  /\ pc \in [Procs -> PcStates]
  /\ created \in SUBSET Ids /\ torn \in BOOLEAN

Init ==
  /\ pool = IF Formatted THEN "ready" ELSE "absent"
  /\ logId = [s \in Slots |-> 0] /\ length = 0
  /\ plogId = logId /\ plength = 0
  /\ mtx = Free
  /\ file = [i \in Ids |-> "absent"]
  /\ pc = [p \in Procs |-> "down"]
  /\ created = {} /\ torn = FALSE

-----------------------------------------------------------------------------
(* heapFormatter: creates the pool if it cannot be opened, then length = 0. *)

FormatCreate ==
  /\ pool = "absent"
  /\ pool' = "creating"
  /\ UNCHANGED <<root, mtx, file, pc, created, torn>>

FormatRoot ==
  /\ pool = "creating"
  /\ pool' = "ready" /\ length' = 0
  /\ UNCHANGED <<logId, plogId, plength, mtx, file, pc, created, torn>>

-----------------------------------------------------------------------------
(* The mutex, and exit(1). *)

Goto(p, l) == pc' = [pc EXCEPT ![p] = l]
Unlock == mtx' = Free

\* exit(1) leaves the mutex as it is.
Exit(p) ==
  /\ Goto(p, "down")
  /\ UNCHANGED <<pool, root, mtx, file, created, torn>>

Lock(p, from, to) ==
  /\ pc[p] = from /\ mtx = Free
  /\ mtx' = p
  /\ Goto(p, to)
  /\ UNCHANGED <<pool, root, file, created, torn>>

\* RootHeap::Open in a critical section fails.
OpenFails(p) ==
  /\ pc[p] \in {"findScan", "checkScan", "addId"}
  /\ pool # "ready"
  /\ Exit(p)

IsLogExist(id) == \E s \in Slots : s < length /\ logId[s] = id

-----------------------------------------------------------------------------
(* The constructors of MemoryManager and RootHeap. *)

Start(p) ==
  /\ pc[p] = "down"
  /\ Goto(p, "rootLock")
  /\ UNCHANGED <<pool, root, mtx, file, created, torn>>

RootLock(p) == Lock(p, "rootLock", "rootUnlock")

RootUnlock(p) ==
  /\ pc[p] = "rootUnlock"
  /\ Unlock
  /\ Goto(p, "findLock")
  /\ UNCHANGED <<pool, root, file, created, torn>>

-----------------------------------------------------------------------------
(* FindLog.  The soft map is empty when the constructor of the store calls *)
(* it the first time.                                                      *)

FindLock(p) == Lock(p, "findLock", "findScan")

FindScan(p) ==
  /\ pc[p] = "findScan" /\ pool = "ready"
  /\ Unlock
  /\ Goto(p, IF IsLogExist(IdOf(p)) THEN "map" ELSE "checkLock")
  /\ UNCHANGED <<pool, root, file, created, torn>>

\* new Log(path, 0, id): maps the file of a listed log.
MapLog(p) ==
  /\ pc[p] = "map" /\ file[IdOf(p)] = "ready"
  /\ Goto(p, "running")
  /\ UNCHANGED <<pool, root, mtx, file, created, torn>>

\* The file is missing or its magic number is wrong.
MapLogFails(p) ==
  /\ pc[p] = "map" /\ file[IdOf(p)] # "ready"
  /\ Exit(p)

-----------------------------------------------------------------------------
(* CreateLog. *)

CheckLock(p) == Lock(p, "checkLock", "checkScan")

\* Mutant: isLogExist does not unlock when it finds nothing.
CheckScan_NoUnlock(p) ==
  /\ pc[p] = "checkScan" /\ pool = "ready"
  /\ ~IsLogExist(IdOf(p))
  /\ Goto(p, "makeLock")
  /\ UNCHANGED <<pool, root, mtx, file, created, torn>>

CheckScan(p) ==
  /\ pc[p] = "checkScan" /\ pool = "ready"
  /\ ~IsLogExist(IdOf(p))
  /\ Unlock
  /\ Goto(p, "makeLock")
  /\ UNCHANGED <<pool, root, file, created, torn>>

\* ID_IN_USE: the constructor of the store calls exit(1).
CheckScanInUse(p) ==
  /\ pc[p] = "checkScan" /\ pool = "ready"
  /\ IsLogExist(IdOf(p))
  /\ Unlock
  /\ Goto(p, "down")
  /\ UNCHANGED <<pool, root, file, created, torn>>

MakeLock(p) == Lock(p, "makeLock", "makeFile")

\* Mutant: the file is created without EXCL.
MakeFile_NoExcl(p) ==
  /\ pc[p] = "makeFile"
  /\ file' = [file EXCEPT ![IdOf(p)] = "nohdr"]
  /\ Goto(p, "makeHdr")
  /\ UNCHANGED <<pool, root, mtx, created, torn>>

\* Mutant: the header of a new log is not written.
MakeFile_NoHeader(p) ==
  /\ pc[p] = "makeFile" /\ file[IdOf(p)] = "absent"
  /\ file' = [file EXCEPT ![IdOf(p)] = "nohdr"]
  /\ Goto(p, "makeUnlock")
  /\ UNCHANGED <<pool, root, mtx, created, torn>>

\* new Log(path, size, id): CREATE | EXCL, then the header.
MakeFile(p) ==
  /\ pc[p] = "makeFile" /\ file[IdOf(p)] = "absent"
  /\ file' = [file EXCEPT ![IdOf(p)] = "nohdr"]
  /\ Goto(p, "makeHdr")
  /\ UNCHANGED <<pool, root, mtx, created, torn>>

\* The file exists; mapping it with a size and without CREATE fails as well.
MakeFileExists(p) ==
  /\ pc[p] = "makeFile" /\ file[IdOf(p)] # "absent"
  /\ Exit(p)

MakeHdr(p) ==
  /\ pc[p] = "makeHdr"
  /\ file' = [file EXCEPT ![IdOf(p)] = "ready"]
  /\ Goto(p, "makeUnlock")
  /\ UNCHANGED <<pool, root, mtx, created, torn>>

\* The mutex is released; the log enters the soft map.
MakeUnlock(p) ==
  /\ pc[p] = "makeUnlock"
  /\ Unlock
  /\ Goto(p, "addLock")
  /\ UNCHANGED <<pool, root, file, created, torn>>

AddLock(p) == Lock(p, "addLock", "addId")

\* Mutant: the rank is stored before its conversion to a LogId.
AddId_Rank(p) ==
  /\ pc[p] = "addId" /\ pool = "ready"
  /\ logId' = [logId EXCEPT ![length] = Rank[p]]
  /\ Goto(p, "addLen")
  /\ UNCHANGED <<pool, length, plogId, plength, mtx, file, created, torn>>

AddId(p) ==
  /\ pc[p] = "addId" /\ pool = "ready"
  /\ logId' = [logId EXCEPT ![length] = IdOf(p)]
  /\ Goto(p, "addLen")
  /\ UNCHANGED <<pool, length, plogId, plength, mtx, file, created, torn>>

\* The rest of addLog; CreateLog returns, and the second FindLog finds the log
\* in the soft map.
AddLen(p) ==
  /\ pc[p] = "addLen"
  /\ length' = length + 1
  /\ Unlock
  /\ created' = created \cup {IdOf(p)}
  /\ Goto(p, "running")
  /\ UNCHANGED <<pool, logId, plogId, plength, file, torn>>

-----------------------------------------------------------------------------
(* Failures. *)

\* A process ends or is killed.  The mutex stays in shared memory as it is.
Kill(p) ==
  /\ pc[p] # "down"
  /\ Goto(p, "down")
  /\ UNCHANGED <<pool, root, mtx, file, created, torn>>

\* Power fails: shared memory is gone, and of the words of the root that
\* addLog stored and nobody flushed any subset survives.  (The header of a log
\* is durable when its constructor goes on.)
PowerFail ==
  \E kept \in SUBSET {s \in Slots : logId[s] # plogId[s]}, len \in {length, plength} :
    /\ logId' = [s \in Slots |-> IF s \in kept THEN logId[s] ELSE plogId[s]]
    /\ length' = len
    /\ plogId' = logId' /\ plength' = length'
    /\ mtx' = Free
    /\ pc' = [p \in Procs |-> "down"]
    /\ torn' = (torn \/ \E s \in Slots : s < length' /\ logId'[s] # logId[s])
    /\ UNCHANGED <<pool, file, created>>

-----------------------------------------------------------------------------

Find(p) == FindLock(p) \/ FindScan(p) \/ MapLog(p) \/ MapLogFails(p)

Create(p) ==
  \/ CheckLock(p) \/ CheckScan(p) \/ CheckScanInUse(p)
  \/ MakeLock(p) \/ MakeFile(p) \/ MakeFileExists(p) \/ MakeHdr(p) \/ MakeUnlock(p)
  \/ AddLock(p) \/ AddId(p) \/ AddLen(p)

Startup(p) == RootLock(p) \/ RootUnlock(p) \/ Find(p) \/ Create(p) \/ OpenFails(p)

CalmNext == (\E p \in Procs : Start(p) \/ Startup(p)) \/ FormatCreate \/ FormatRoot
Next == CalmNext \/ (\E p \in Procs : Kill(p)) \/ PowerFail

Spec == Init /\ [][Next]_vars

\* Nothing is killed; a process that has started is scheduled.
FairSpec == Init /\ [][CalmNext]_vars /\ \A p \in Procs : WF_vars(Startup(p))

-----------------------------------------------------------------------------
(* Properties. *)

\* What FindLog relies on between isLogExist and new Log: a listed id has a log
\* file with a valid header, whoever was killed in CreateLog and whatever power
\* failures undid, as long as none of them kept length and lost an id below it.
ListedIsReady == ~torn => \A s \in Slots : s < length => file[logId[s]] = "ready"

\* CreateLog checks and adds in two critical sections with a third between them;
\* an id is still listed at most once, under the same condition.
UniqueIds ==
  ~torn => \A s, t \in Slots : s < length /\ t < length /\ logId[s] = logId[t] => s = t

\* addLog has no bound check and never needs one, even if power failures lose or
\* tear its stores: log_id[length] is inside the array.
ArrayInBounds ==
  /\ length <= MaxLogs
  /\ \A p \in Procs : pc[p] \in {"addId", "addLen"} => length < MaxLogs

\* With a formatted root heap and one process per id, every start-up succeeds:
\* nobody waits for the mutex for ever and nobody calls exit(1).
StartupCompletes == \A p \in Procs : pc[p] # "down" ~> pc[p] = "running"

\* Start-up ends one way or the other: the root mutex is always given back.
StartupReturns == \A p \in Procs : pc[p] = "rootLock" ~> pc[p] \in {"running", "down"}

\* A log whose creation was acknowledged can be found from then on.
CreatedStaysListed == \A i \in created : IsLogExist(i)

-----------------------------------------------------------------------------
(* The inductive invariant.  A creator  owns its id from the moment the    *)
(* file exists until it is listed: EXCL lets one process in.               *)

Making == {"makeHdr", "makeUnlock", "addLock", "addId", "addLen"}

\* Who holds what.
OwnerInv ==
  \A p \in Procs :
    /\ pc[p] \in Critical => mtx = p
    /\ pc[p] = "addLen" => pool = "ready"
    /\ pc[p] = "makeHdr" => file[IdOf(p)] = "nohdr"
    /\ pc[p] \in Making \ {"makeHdr"} => file[IdOf(p)] = "ready"
    /\ \A q \in Procs : p # q /\ pc[p] \in Making /\ pc[q] \in Making => IdOf(p) # IdOf(q)

\* A log being made is not listed yet.
ListInv ==
  ~torn => \A p \in Procs :
    /\ pc[p] \in Making => ~IsLogExist(IdOf(p))
    /\ pc[p] = "addLen" /\ length \in Slots => logId[length] = IdOf(p)

\* Every slot in use was paid for with a log file, and the logs being made have
\* theirs already.
MakingIds == {IdOf(p) : p \in {q \in Procs : pc[q] \in Making}}
MadeIds == {i \in Ids : file[i] # "absent"}
CountInv ==
  /\ length + Cardinality(MakingIds) <= Cardinality(MadeIds)
  /\ plength <= length
  /\ pool # "ready" => length = 0

IInv == TypeOK /\ OwnerInv /\ CountInv /\ ListInv /\ ListedIsReady /\ UniqueIds
=============================================================================
