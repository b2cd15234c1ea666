------------------------- MODULE MemoryManagerProofs -------------------------
(***************************************************************************)
(* Proofs about MemoryManager, for any number of processes, ranks and ids: *)
(* with kills and power failures, the list of logs is sound                *)
(* (ListedIsReady, UniqueIds) and addLog stays inside its array            *)
(* (ArrayInBounds).                                                        *)
(***************************************************************************)
EXTENDS MemoryManager, FiniteSetTheorems, TLAPS

\* The log id of a process is a LogId.
LEMMA IdType == \A p \in Procs : IdOf(p) \in Ids
  BY IdsAssumption DEF IdOf, Ids

-----------------------------------------------------------------------------
(* TypeOK and OwnerInv. *)

Base == TypeOK /\ OwnerInv

LEMMA InitBase == Init => Base
  <1> SUFFICES ASSUME Init PROVE Base
    OBVIOUS
  <1>1. 0 \in Ids
    BY IdsAssumption DEF Ids
  <1>2. TypeOK
    BY <1>1, IdsAssumption DEF Init, TypeOK, PcStates
  <1>3. OwnerInv
    BY DEF Init, OwnerInv, Critical, Making
  <1> QED
    BY <1>2, <1>3 DEF Base

\* A step of one process that moves it from a place to another.
LEMMA TypeStep == TypeOK /\ [Next]_vars => TypeOK'
  <1> USE IdType, IdsAssumption DEF TypeOK, PcStates, LockStates, Critical, Goto
  <1> SUFFICES ASSUME TypeOK, [Next]_vars PROVE TypeOK'
    OBVIOUS
  <1>1. CASE UNCHANGED vars
    BY <1>1 DEF vars, root
  <1>2. ASSUME NEW p \in Procs, Start(p) \/ Kill(p) PROVE TypeOK'
    BY <1>2 DEF Start, Kill, root
  <1>3. ASSUME NEW p \in Procs, RootLock(p) \/ FindLock(p) \/ CheckLock(p) \/ MakeLock(p) \/ AddLock(p)
        PROVE TypeOK'
    BY <1>3 DEF RootLock, FindLock, CheckLock, MakeLock, AddLock, Lock, root
  <1>4. ASSUME NEW p \in Procs, RootUnlock(p) \/ FindScan(p) \/ CheckScan(p) \/ CheckScanInUse(p)
                                \/ MakeUnlock(p)
        PROVE TypeOK'
    BY <1>4 DEF RootUnlock, FindScan, CheckScan, CheckScanInUse, MakeUnlock, Unlock, root
  <1>5. ASSUME NEW p \in Procs, MapLog(p) \/ MapLogFails(p) \/ OpenFails(p) \/ MakeFileExists(p)
        PROVE TypeOK'
    BY <1>5 DEF MapLog, MapLogFails, OpenFails, MakeFileExists, Exit, root
  <1>6. ASSUME NEW p \in Procs, MakeFile(p) \/ MakeHdr(p) PROVE TypeOK'
    BY <1>6 DEF MakeFile, MakeHdr, root
  <1>7. ASSUME NEW p \in Procs, AddId(p) \/ AddLen(p) PROVE TypeOK'
    BY <1>7 DEF AddId, AddLen, Unlock, root
  <1>8. CASE FormatCreate \/ FormatRoot
    BY <1>8 DEF FormatCreate, FormatRoot, root
  <1>9. CASE PowerFail
    BY <1>9, SMTT(60) DEF PowerFail, root
  <1> QED
    BY <1>1, <1>2, <1>3, <1>4, <1>5, <1>6, <1>7, <1>8, <1>9
    DEF Next, CalmNext, Startup, Find, Create

\* EXCL: a creator's id has a file, so no other process can begin to create it.
LEMMA OwnerStep == TypeOK /\ OwnerInv /\ [Next]_vars => OwnerInv'
  <1> USE IdType, IdsAssumption DEF TypeOK, OwnerInv, Critical, Making, Goto
  <1> SUFFICES ASSUME TypeOK, OwnerInv, [Next]_vars PROVE OwnerInv'
    OBVIOUS
  <1>1. CASE UNCHANGED vars
    BY <1>1 DEF vars, root
  <1>2. ASSUME NEW p \in Procs, Start(p) \/ Kill(p) PROVE OwnerInv'
    BY <1>2 DEF Start, Kill, root
  <1>3. ASSUME NEW p \in Procs, RootLock(p) \/ FindLock(p) \/ CheckLock(p) \/ MakeLock(p)
        PROVE OwnerInv'
    BY <1>3 DEF RootLock, FindLock, CheckLock, MakeLock, Lock, root
  <1>4. ASSUME NEW p \in Procs, AddLock(p) PROVE OwnerInv'
    BY <1>4 DEF AddLock, Lock, root
  <1>5. ASSUME NEW p \in Procs, RootUnlock(p) \/ FindScan(p) \/ CheckScan(p) \/ CheckScanInUse(p)
        PROVE OwnerInv'
    BY <1>5 DEF RootUnlock, FindScan, CheckScan, CheckScanInUse, Unlock, root
  <1>6. ASSUME NEW p \in Procs, MakeUnlock(p) PROVE OwnerInv'
    BY <1>6 DEF MakeUnlock, Unlock, root
  <1>7. ASSUME NEW p \in Procs, MapLog(p) \/ MapLogFails(p) \/ OpenFails(p) \/ MakeFileExists(p)
        PROVE OwnerInv'
    BY <1>7 DEF MapLog, MapLogFails, OpenFails, MakeFileExists, Exit, root
  <1>8. ASSUME NEW p \in Procs, MakeFile(p) PROVE OwnerInv'
    BY <1>8 DEF MakeFile, root
  <1>9. ASSUME NEW p \in Procs, MakeHdr(p) PROVE OwnerInv'
    BY <1>9 DEF MakeHdr, root
  <1>10. ASSUME NEW p \in Procs, AddId(p) PROVE OwnerInv'
    BY <1>10 DEF AddId, root
  <1>11. ASSUME NEW p \in Procs, AddLen(p) PROVE OwnerInv'
    BY <1>11 DEF AddLen, Unlock, root
  <1>12. CASE FormatCreate \/ FormatRoot
    BY <1>12 DEF FormatCreate, FormatRoot, root
  <1>13. CASE PowerFail
    BY <1>13 DEF PowerFail, root
  <1> QED
    BY <1>1, <1>2, <1>3, <1>4, <1>5, <1>6, <1>7, <1>8, <1>9, <1>10, <1>11, <1>12, <1>13, SMTT(60)
    DEF Next, CalmNext, Startup, Find, Create

\* The steps that leave the list, the files and the set of creators alone, or
\* make the latter smaller.
Quiet(p) ==
  \/ Start(p) \/ Kill(p) \/ RootLock(p) \/ RootUnlock(p) \/ Find(p)
  \/ CheckLock(p) \/ CheckScan(p) \/ CheckScanInUse(p)
  \/ MakeLock(p) \/ MakeFileExists(p) \/ MakeUnlock(p) \/ AddLock(p) \/ OpenFails(p)

LEMMA QuietStep ==
  ASSUME TypeOK, NEW p \in Procs, Quiet(p)
  PROVE  /\ UNCHANGED <<pool, root, file, torn>>
         /\ \A q \in Procs : pc'[q] \in Making => pc[q] \in Making
         /\ \A q \in Procs : pc'[q] = "addLen" => pc[q] = "addLen"
  <1> USE DEF TypeOK, Making, Goto
  <1>1. CASE Start(p) \/ Kill(p)
    BY <1>1 DEF Start, Kill
  <1>2. CASE RootLock(p) \/ FindLock(p) \/ CheckLock(p) \/ MakeLock(p) \/ AddLock(p)
    BY <1>2 DEF RootLock, FindLock, CheckLock, MakeLock, AddLock, Lock
  <1>3. CASE RootUnlock(p) \/ FindScan(p) \/ CheckScan(p) \/ CheckScanInUse(p) \/ MakeUnlock(p)
    BY <1>3 DEF RootUnlock, FindScan, CheckScan, CheckScanInUse, MakeUnlock, root
  <1>4. CASE MapLog(p) \/ MapLogFails(p) \/ OpenFails(p) \/ MakeFileExists(p)
    BY <1>4 DEF MapLog, MapLogFails, OpenFails, MakeFileExists, Exit
  <1> QED
    BY <1>1, <1>2, <1>3, <1>4, Zenon DEF Quiet, Find

LEMMA Cases ==
  ASSUME Next
  PROVE  \/ \E p \in Procs : Quiet(p) \/ MakeFile(p) \/ MakeHdr(p) \/ AddId(p) \/ AddLen(p)
         \/ FormatCreate \/ FormatRoot \/ PowerFail
  BY Zenon DEF Next, CalmNext, Startup, Create, Quiet

-----------------------------------------------------------------------------
(* The list. *)

LEMMA ListStep == IInv /\ [Next]_vars => (ListInv /\ ListedIsReady /\ UniqueIds)'
  <1> DEFINE L == ListInv /\ ListedIsReady /\ UniqueIds
  <1> USE IdType DEF ListInv, ListedIsReady, UniqueIds, IsLogExist
  <1> SUFFICES ASSUME IInv, [Next]_vars PROVE L'
    OBVIOUS
  <1>0. TypeOK /\ OwnerInv /\ CountInv /\ L
    BY DEF IInv
  <1>1. CASE UNCHANGED vars
    BY <1>0, <1>1 DEF vars, root
  <1>2. ASSUME NEW p \in Procs, Quiet(p) PROVE L'
    BY <1>0, <1>2, QuietStep DEF root
  <1>3. ASSUME NEW p \in Procs, MakeFile(p) PROVE L'
    BY <1>0, <1>3 DEF MakeFile, root, TypeOK, OwnerInv, Making, Goto
  <1>4. ASSUME NEW p \in Procs, MakeHdr(p) PROVE L'
    BY <1>0, <1>4 DEF MakeHdr, root, TypeOK, OwnerInv, Making, Goto
  <1>5. ASSUME NEW p \in Procs, AddId(p) PROVE L'
    BY <1>0, <1>5 DEF AddId, root, TypeOK, OwnerInv, Making, Critical, Goto, Slots
  <1>6. ASSUME NEW p \in Procs, AddLen(p) PROVE L'
    BY <1>0, <1>6 DEF AddLen, root, TypeOK, OwnerInv, Making, Critical, Goto, Slots
  <1>7. CASE FormatCreate
    BY <1>0, <1>7 DEF FormatCreate, root
  <1>8. CASE FormatRoot
    BY <1>0, <1>8 DEF FormatRoot, TypeOK, OwnerInv, Slots
  <1>9. CASE PowerFail
    <2> SUFFICES ASSUME ~torn' PROVE L'
      OBVIOUS
    <2>1. ~torn /\ \A s \in Slots : s < length' => logId'[s] = logId[s]
      BY <1>9 DEF PowerFail
    <2>2. length' \in Nat /\ length' <= length /\ file' = file
      BY <1>0, <1>9 DEF PowerFail, CountInv, TypeOK
    <2>3. \A p \in Procs : pc'[p] = "down"
      BY <1>9 DEF PowerFail
    <2> QED
      BY <1>0, <2>1, <2>2, <2>3 DEF Making, TypeOK, Slots
  <1> QED
    BY <1>1, <1>2, <1>3, <1>4, <1>5, <1>6, <1>7, <1>8, <1>9, Cases

LEMMA InitList == Init => ListInv /\ ListedIsReady /\ UniqueIds
  BY DEF Init, ListInv, ListedIsReady, UniqueIds, IsLogExist, Making, Slots

-----------------------------------------------------------------------------
(* The array: a counting argument. *)

LEMMA IdsFinite ==
  /\ IsFiniteSet(Ids) /\ Cardinality(Ids) = IdRange
  /\ \A S \in SUBSET Ids : /\ IsFiniteSet(S) /\ Cardinality(S) \in Nat
                           /\ Cardinality(S) <= IdRange
  <1>1. 0 \in Int /\ IdRange - 1 \in Int
    BY IdsAssumption
  <1>2. IsFiniteSet(Ids) /\ Cardinality(Ids) = IdRange
    BY <1>1, FS_Interval, IdsAssumption DEF Ids
  <1> QED
    BY <1>2, FS_Subset, FS_CardinalityType

\* The ids being made have files.
LEMMA MakingHaveFiles == TypeOK /\ OwnerInv => MakingIds \subseteq MadeIds /\ MadeIds \subseteq Ids
  BY IdType DEF TypeOK, OwnerInv, MakingIds, MadeIds, Making

LEMMA CountStep == IInv /\ [Next]_vars => CountInv'
  <1> SUFFICES ASSUME IInv, [Next]_vars PROVE CountInv'
    OBVIOUS
  <1>0. TypeOK /\ OwnerInv /\ CountInv /\ TypeOK' /\ OwnerInv'
    BY TypeStep, OwnerStep DEF IInv
  <1>a. /\ MakingIds \subseteq MadeIds /\ MadeIds \subseteq Ids
        /\ MakingIds' \subseteq MadeIds' /\ MadeIds' \subseteq Ids
    BY <1>0, MakingHaveFiles, IdType DEF TypeOK, OwnerInv, MakingIds, MadeIds, Making
  <1>b. /\ IsFiniteSet(MakingIds) /\ IsFiniteSet(MadeIds)
        /\ Cardinality(MakingIds) \in Nat /\ Cardinality(MadeIds) \in Nat
        /\ Cardinality(MakingIds') \in Nat /\ Cardinality(MadeIds') \in Nat
    BY <1>a, IdsFinite
  <1>c. length \in Nat /\ plength \in Nat
    BY <1>0 DEF TypeOK
  <1>1. ASSUME UNCHANGED <<length, plength, file>>, MakingIds' \subseteq MakingIds,
               pool' # "ready" => pool # "ready"
        PROVE CountInv'
    <2>1. MadeIds' = MadeIds
      BY <1>1 DEF MadeIds
    <2>2. Cardinality(MakingIds') <= Cardinality(MakingIds)
      BY <1>1, <1>b, FS_Subset
    <2> QED
      BY <1>0, <1>1, <1>b, <1>c, <2>1, <2>2 DEF CountInv
  <1>2. CASE UNCHANGED vars
    BY <1>1, <1>2 DEF vars, root, MakingIds
  <1>3. ASSUME NEW p \in Procs, Quiet(p) PROVE CountInv'
    <2>1. MakingIds' \subseteq MakingIds
      BY <1>0, <1>3, QuietStep DEF MakingIds
    <2> QED
      BY <1>0, <1>1, <1>3, <2>1, QuietStep DEF root
  <1>4. ASSUME NEW p \in Procs, MakeFile(p) PROVE CountInv'
    <2>1. MadeIds' = MadeIds \cup {IdOf(p)} /\ IdOf(p) \notin MadeIds
      BY <1>0, <1>4, IdType DEF MakeFile, MadeIds, TypeOK
    <2>2. MakingIds' = MakingIds \cup {IdOf(p)} /\ IdOf(p) \notin MakingIds
      BY <1>0, <1>4, <1>a, <2>1 DEF MakeFile, MakingIds, Making, TypeOK, Goto
    <2>3. Cardinality(MadeIds') = Cardinality(MadeIds) + 1
      BY <1>b, <2>1, FS_AddElement, Zenon
    <2>4. Cardinality(MakingIds') = Cardinality(MakingIds) + 1
      BY <1>b, <2>2, FS_AddElement, Zenon
    <2> QED
      BY <1>0, <1>4, <1>b, <1>c, <2>3, <2>4 DEF CountInv, MakeFile, root
  <1>5. ASSUME NEW p \in Procs, MakeHdr(p) PROVE CountInv'
    <2>1. MadeIds' = MadeIds
      BY <1>0, <1>5, IdType DEF MakeHdr, MadeIds, TypeOK, OwnerInv
    <2>2. MakingIds' = MakingIds
      BY <1>0, <1>5 DEF MakeHdr, MakingIds, Making, TypeOK, Goto
    <2> QED
      BY <1>0, <1>5, <2>1, <2>2 DEF CountInv, MakeHdr, root
  <1>6. ASSUME NEW p \in Procs, AddId(p) PROVE CountInv'
    <2>1. MakingIds' \subseteq MakingIds
      BY <1>0, <1>6 DEF AddId, MakingIds, Making, TypeOK, Goto
    <2> QED
      BY <1>1, <1>6, <2>1 DEF AddId
  <1>7. ASSUME NEW p \in Procs, AddLen(p) PROVE CountInv'
    <2>1. MadeIds' = MadeIds
      BY <1>7 DEF AddLen, MadeIds
    <2>2. MakingIds' = MakingIds \ {IdOf(p)} /\ IdOf(p) \in MakingIds
      BY <1>0, <1>7 DEF AddLen, MakingIds, Making, TypeOK, OwnerInv, Goto
    <2>3. Cardinality(MakingIds') = Cardinality(MakingIds) - 1
      BY <1>b, <2>2, FS_RemoveElement, Zenon
    <2>4. pool = "ready" /\ pool' = pool
      BY <1>0, <1>7 DEF AddLen, OwnerInv
    <2> QED
      BY <1>0, <1>7, <1>b, <1>c, <2>1, <2>3, <2>4 DEF CountInv, AddLen, root
  <1>8. CASE FormatCreate
    BY <1>1, <1>8 DEF FormatCreate, root, MakingIds
  <1>9. CASE FormatRoot
    <2>1. MadeIds' = MadeIds /\ MakingIds' = MakingIds
      BY <1>9 DEF FormatRoot, MadeIds, MakingIds
    <2> QED
      BY <1>0, <1>9, <1>b, <1>c, <2>1 DEF CountInv, FormatRoot
  <1>10. CASE PowerFail
    <2>1. MadeIds' = MadeIds
      BY <1>10 DEF PowerFail, MadeIds
    <2>2. MakingIds' = {}
      BY <1>10 DEF PowerFail, MakingIds, Making
    <2>3. Cardinality(MakingIds') = 0
      BY <2>2, FS_EmptySet
    <2>4. length' \in {length, plength} /\ plength' = length' /\ pool' = pool
      BY <1>10 DEF PowerFail
    <2> QED
      BY <1>0, <1>b, <1>c, <2>1, <2>3, <2>4 DEF CountInv
  <1> QED
    BY <1>2, <1>3, <1>4, <1>5, <1>6, <1>7, <1>8, <1>9, <1>10, Cases

LEMMA InitCount == Init => CountInv
  <1> SUFFICES ASSUME Init PROVE CountInv
    OBVIOUS
  <1>1. MakingIds = {} /\ MadeIds = {}
    BY DEF Init, MakingIds, MadeIds, Making
  <1>2. Cardinality(MakingIds) = 0 /\ Cardinality(MadeIds) = 0
    BY <1>1, FS_EmptySet
  <1> QED
    BY <1>2 DEF Init, CountInv

\* The inductive invariant of the root heap holds, with kills at any point of
\* start-up and power failures, for every number of processes and every
\* assignment of ranks.
THEOREM ListInvariance == Spec => []IInv
  <1>1. Init => IInv
    BY InitBase, InitCount, InitList DEF IInv, Base
  <1>2. IInv /\ [Next]_vars => IInv'
    BY TypeStep, OwnerStep, ListStep, CountStep DEF IInv
  <1> QED
    BY <1>1, <1>2, PTL DEF Spec

\* FindLog never maps a log file without a valid header because of a kill, nor
\* because of a power failure that left the ids below length alone.
THEOREM ListedSafety == Spec => []ListedIsReady
  <1>1. IInv => ListedIsReady
    BY DEF IInv
  <1> QED
    BY <1>1, ListInvariance, PTL

\* CreateLog lists no id twice, whoever races it and whoever is killed.
THEOREM UniqueSafety == Spec => []UniqueIds
  <1>1. IInv => UniqueIds
    BY DEF IInv
  <1> QED
    BY <1>1, ListInvariance, PTL

\* Every process stays at a step of the code with the locals that step has.
THEOREM ListTypes == Spec => []TypeOK
  <1>1. IInv => TypeOK
    BY DEF IInv
  <1> QED
    BY <1>1, ListInvariance, PTL

\* addLog, which checks no bound, never writes outside log_id[], for every set of
\* processes and ranks, as long as a LogId has at most MAX_LOGS values.
THEOREM ArraySafety == Spec => []ArrayInBounds
  <1>1. IInv => ArrayInBounds
    <2> SUFFICES ASSUME IInv PROVE ArrayInBounds
      OBVIOUS
    <2>1. TypeOK /\ OwnerInv /\ CountInv
      BY DEF IInv
    <2>2. /\ MakingIds \subseteq Ids /\ MadeIds \subseteq Ids
      BY <2>1, MakingHaveFiles
    <2>3. /\ Cardinality(MakingIds) \in Nat /\ Cardinality(MadeIds) \in Nat
          /\ Cardinality(MadeIds) <= IdRange /\ IsFiniteSet(MakingIds)
      BY <2>2, IdsFinite
    <2>4. ASSUME NEW p \in Procs, pc[p] \in {"addId", "addLen"}
          PROVE Cardinality(MakingIds) # 0
      <3>1. IdOf(p) \in MakingIds
        BY <2>4 DEF MakingIds, Making
      <3> QED
        BY <2>3, <3>1, FS_EmptySet
    <2> QED
      BY <2>1, <2>3, <2>4, IdsAssumption DEF ArrayInBounds, CountInv, TypeOK
  <1> QED
    BY <1>1, ListInvariance, PTL
=============================================================================
