------------------------- MODULE StoreManagerProofs -------------------------
(***************************************************************************)
(* Proofs about StoreManager::GetInstance, for every set of threads: the   *)
(* store is constructed once, its callers see it constructed, and the      *)
(* double-checked locking implements OneInstance.                          *)
(***************************************************************************)
EXTENDS StoreManager, TLAPS

LEMMA InitInv == SMInit => SMInv
  BY ThreadsAssumption, Zenon DEF SMInit, SMInv, SMTypeOK, HolderInv, InstanceInv, Places, InLock

LEMMA TypeStep == SMTypeOK /\ [SMNext]_smVars => SMTypeOK'
  <1> USE ThreadsAssumption DEF SMTypeOK, Places, InLock, At
  <1> SUFFICES ASSUME SMTypeOK, [SMNext]_smVars PROVE SMTypeOK'
    OBVIOUS
  <1>1. CASE UNCHANGED smVars
    BY <1>1 DEF smVars, syncVars
  <1>2. ASSUME NEW t \in Threads, FirstLoad(t) PROVE SMTypeOK'
    BY <1>2 DEF FirstLoad, RelaxedLoad
  <1>3. ASSUME NEW t \in Threads, AcquireFence(t) PROVE SMTypeOK'
    BY <1>3 DEF AcquireFence
  <1>4. ASSUME NEW t \in Threads, Acquire(t) PROVE SMTypeOK'
    BY <1>4 DEF Acquire
  <1>5. ASSUME NEW t \in Threads, SecondLoad(t) PROVE SMTypeOK'
    BY <1>5 DEF SecondLoad, RelaxedLoad
  <1>6. ASSUME NEW t \in Threads, Build(t) PROVE SMTypeOK'
    BY <1>6 DEF Build
  <1>7. ASSUME NEW t \in Threads, Publish(t) PROVE SMTypeOK'
    BY <1>7 DEF Publish
  <1>8. ASSUME NEW t \in Threads, Unlock(t) PROVE SMTypeOK'
    BY <1>8 DEF Unlock
  <1>9. ASSUME NEW t \in Threads, Again(t) PROVE SMTypeOK'
    BY <1>9 DEF Again, syncVars
  <1>10. CASE ProcessEnds
    BY <1>10, Zenon DEF ProcessEnds
  <1> QED
    BY <1>1, <1>2, <1>3, <1>4, <1>5, <1>6, <1>7, <1>8, <1>9, <1>10
    DEF SMNext, Call, GetInstanceStep

LEMMA InvStep == SMInv /\ [SMNext]_smVars => (HolderInv /\ InstanceInv)'
  <1> DEFINE I == HolderInv /\ InstanceInv
  <1> USE ThreadsAssumption DEF HolderInv, InstanceInv, Sees, InLock, At, SMTypeOK
  <1> SUFFICES ASSUME SMInv, [SMNext]_smVars PROVE I'
    OBVIOUS
  <1>0. SMTypeOK /\ I
    BY DEF SMInv
  <1>1. CASE UNCHANGED smVars
    BY <1>0, <1>1 DEF smVars, syncVars
  <1>2. ASSUME NEW t \in Threads, FirstLoad(t) PROVE I'
    <2>1. PICK r \in {instance} \cup (IF knows[t] THEN {} ELSE {Null}) :
            /\ tmp' = [tmp EXCEPT ![t] = r]
            /\ knows' = [knows EXCEPT ![t] = @ \/ r # Null]
      BY <1>2, Zenon DEF FirstLoad, RelaxedLoad
    <2>2. /\ thr' = [thr EXCEPT ![t] = "fence"] /\ thr[t] = "out"
          /\ UNCHANGED <<instance, mutex, built, view, lockView, lockKnows, fenceView>>
      BY <1>2 DEF FirstLoad
    <2>a. tmp'[t] = r /\ \A u \in Threads \ {t} : tmp'[u] = tmp[u]
      BY <1>0, <2>1
    <2>b. knows'[t] = (knows[t] \/ r # Null)
      BY <1>0, <2>1, Zenon
    <2>c. \A u \in Threads \ {t} : knows'[u] = knows[u]
      BY <1>0, <2>1, Zenon
    <2>3. /\ tmp'[t] = r /\ (knows'[t] <=> knows[t] \/ r # Null)
          /\ \A u \in Threads \ {t} : tmp'[u] = tmp[u] /\ (knows'[u] <=> knows[u])
      BY <2>a, <2>b, <2>c, Zenon
    <2>4. r = instance \/ r = Null
      BY <2>1
    <2>5. HolderInv'
      BY <1>0, <2>2, <2>3, <2>4
    <2>6. InstanceInv'
      BY <1>0, <2>2
    <2> QED
      BY <2>5, <2>6
  <1>3. ASSUME NEW t \in Threads, AcquireFence(t) PROVE I'
    BY <1>0, <1>3 DEF AcquireFence
  <1>4. ASSUME NEW t \in Threads, Acquire(t) PROVE I'
    BY <1>0, <1>4 DEF Acquire
  <1>5. ASSUME NEW t \in Threads, SecondLoad(t) PROVE I'
    BY <1>0, <1>5 DEF SecondLoad, RelaxedLoad
  <1>6. ASSUME NEW t \in Threads, Build(t) PROVE I'
    BY <1>0, <1>6 DEF Build
  <1>7. ASSUME NEW t \in Threads, Publish(t) PROVE I'
    BY <1>0, <1>7 DEF Publish
  <1>8. ASSUME NEW t \in Threads, Unlock(t) PROVE I'
    BY <1>0, <1>8 DEF Unlock
  <1>9. ASSUME NEW t \in Threads, Again(t) PROVE I'
    BY <1>0, <1>9 DEF Again, syncVars
  <1>10. CASE ProcessEnds
    BY <1>10 DEF ProcessEnds
  <1> QED
    BY <1>1, <1>2, <1>3, <1>4, <1>5, <1>6, <1>7, <1>8, <1>9, <1>10
    DEF SMNext, Call, GetInstanceStep

\* The inductive invariant of double-checked locking holds.
THEOREM SMInvariance == SMSpec => []SMInv
  <1>1. SMInv /\ [SMNext]_smVars => SMInv'
    BY TypeStep, InvStep DEF SMInv
  <1> QED
    BY <1>1, InitInv, PTL DEF SMSpec

\* However many threads race GetInstance, one of them runs the constructor.
THEOREM OneStoreSafety == SMSpec => []OneStore
  <1>1. SMInv => OneStore
    BY DEF SMInv, SMTypeOK, HolderInv, InstanceInv, OneStore
  <1> QED
    BY <1>1, SMInvariance, PTL

\* The two fences are enough: a thread that returns without having taken the
\* mutex sees what the constructor wrote.
THEOREM ReturnsBuiltSafety == SMSpec => []ReturnsBuilt
  <1>1. SMInv => ReturnsBuilt
    BY DEF SMInv, HolderInv, Sees, ReturnsBuilt
  <1> QED
    BY <1>1, SMInvariance, PTL

-----------------------------------------------------------------------------
(* The refinement. *)

LEMMA InitRefines == SMInit => Chosen!OIInit
  BY DEF SMInit, Chosen!OIInit, got

LEMMA StepRefines == SMInv /\ [SMNext]_smVars => [Chosen!OINext]_<<instance, got>>
  <1> USE DEF got, At
  <1> SUFFICES ASSUME SMInv, [SMNext]_smVars PROVE Chosen!OINext \/ UNCHANGED <<instance, got>>
    OBVIOUS
  <1>0. SMTypeOK /\ HolderInv
    BY DEF SMInv
  <1>1. CASE UNCHANGED smVars
    BY <1>1 DEF smVars
  <1>2. ASSUME NEW t \in Threads, FirstLoad(t) \/ Acquire(t) \/ SecondLoad(t) \/ Build(t)
        PROVE UNCHANGED <<instance, got>>
    BY <1>0, <1>2 DEF FirstLoad, Acquire, SecondLoad, Build, RelaxedLoad, SMTypeOK
  <1>3. ASSUME NEW t \in Threads, AcquireFence(t)
        PROVE Chosen!Return(t) \/ UNCHANGED <<instance, got>>
    BY <1>0, <1>3, Zenon DEF AcquireFence, SMTypeOK, HolderInv, Chosen!Return
  <1>4. ASSUME NEW t \in Threads, Publish(t) PROVE Chosen!Choose
    BY <1>0, <1>4 DEF Publish, SMTypeOK, HolderInv, Chosen!Choose
  <1>5. ASSUME NEW t \in Threads, Unlock(t) PROVE Chosen!Return(t)
    BY <1>0, <1>5, Zenon DEF Unlock, SMTypeOK, HolderInv, Chosen!Return
  <1>6. ASSUME NEW t \in Threads, Again(t) PROVE Chosen!Forget(t)
    BY <1>0, <1>6, Zenon DEF Again, SMTypeOK, Chosen!Forget
  <1>7. CASE ProcessEnds
    BY <1>7 DEF ProcessEnds, Chosen!OINext, Chosen!End
  <1> QED
    BY <1>1, <1>2, <1>3, <1>4, <1>5, <1>6, <1>7
    DEF SMNext, Call, GetInstanceStep, Chosen!OINext

\* Double-checked locking implements OneInstance: initial states are initial
\* states, and every step is a step of OneInstance or changes nothing of it.
THEOREM Refinement == SMSpec => ImplementsOneInstance
  <1> QED
    BY InitRefines, StepRefines, SMInvariance, PTL DEF SMSpec, ImplementsOneInstance, Chosen!OISpec
=============================================================================
