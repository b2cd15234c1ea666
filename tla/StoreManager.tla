---------------------------- MODULE StoreManager ----------------------------
(***************************************************************************)
(* StoreManager::GetInstance of kvstore/store_manager.cc: double-checked   *)
(* locking with relaxed accesses to instance_ and two fences.  The threads *)
(* of one process call it, any of them any number of times; the process    *)
(* ends and starts again.                                                  *)
(*                                                                         *)
(* Memory order is modelled by what happens before a thread's next step:   *)
(* view[t] are the stores whose construction t is certain to see, knows[t] *)
(* says that it is certain to see the assignment to instance_.  A relaxed  *)
(* load of a thread without that certainty may still return nullptr.       *)
(***************************************************************************)
EXTENDS FiniteSets

CONSTANTS
  Threads,     \* threads of the process; a store is named after its creator
  Null, Free

ASSUME ThreadsAssumption == Null \notin Threads /\ Free \notin Threads

VARIABLES
  instance,    \* instance_
  mutex,       \* holder of mutex_, or Free
  thr,         \* per thread: where it is in GetInstance
  tmp,         \* per thread: tmp
  built,       \* stores that were constructed
  view, knows, \* per thread: what happens before its next step
  lockView, lockKnows, \* the same at the last unlock
  fenceView    \* the same at the release fence before instance_ was assigned

syncVars == <<view, knows, lockView, lockKnows, fenceView>>
smVars == <<instance, mutex, thr, tmp, built, syncVars>>

InLock == {"load", "build", "publish", "unlock"}
Places == {"out", "fence", "lock", "in"} \cup InLock

SMTypeOK ==
  /\ instance \in Threads \cup {Null}
  /\ mutex \in Threads \cup {Free}
  /\ thr \in [Threads -> Places]
  /\ tmp \in [Threads -> Threads \cup {Null}]
  /\ built \in SUBSET Threads
  /\ view \in [Threads -> SUBSET Threads]
  /\ knows \in [Threads -> BOOLEAN]
  /\ lockView \in SUBSET Threads /\ lockKnows \in BOOLEAN
  /\ fenceView \in SUBSET Threads

SMInit ==
  /\ instance = Null /\ mutex = Free
  /\ thr = [t \in Threads |-> "out"]
  /\ tmp = [t \in Threads |-> Null]
  /\ built = {}
  /\ view = [t \in Threads |-> {}] /\ knows = [t \in Threads |-> FALSE]
  /\ lockView = {} /\ lockKnows = FALSE
  /\ fenceView = {}

-----------------------------------------------------------------------------

At(t, here, there) ==
  /\ thr[t] = here
  /\ thr' = [thr EXCEPT ![t] = there]

\* instance_.load(memory_order_relaxed): what it returned is in tmp'.
RelaxedLoad(t) ==
  \E r \in {instance} \cup (IF knows[t] THEN {} ELSE {Null}) :
    /\ tmp' = [tmp EXCEPT ![t] = r]
    /\ knows' = [knows EXCEPT ![t] = @ \/ r # Null]

FirstLoad(t) ==
  /\ At(t, "out", "fence")
  /\ RelaxedLoad(t)
  /\ UNCHANGED <<instance, mutex, built, view, lockView, lockKnows, fenceView>>

\* The acquire fence after a load that returned the store makes visible what
\* came before the release fence.
AcquireFence(t) ==
  /\ At(t, "fence", IF tmp[t] = Null THEN "lock" ELSE "in")
  /\ view' = [view EXCEPT ![t] = IF tmp[t] = Null THEN @ ELSE @ \cup fenceView]
  /\ UNCHANGED <<instance, mutex, tmp, built, knows, lockView, lockKnows, fenceView>>

Acquire(t) ==
  /\ At(t, "lock", "load")
  /\ mutex = Free /\ mutex' = t
  /\ view' = [view EXCEPT ![t] = @ \cup lockView]
  /\ knows' = [knows EXCEPT ![t] = @ \/ lockKnows]
  /\ UNCHANGED <<instance, tmp, built, lockView, lockKnows, fenceView>>

\* Mutant: the second test of tmp is missing.
SecondLoad_NoTest(t) ==
  /\ RelaxedLoad(t)
  /\ At(t, "load", "build")
  /\ UNCHANGED <<instance, mutex, built, view, lockView, lockKnows, fenceView>>

SecondLoad(t) ==
  /\ RelaxedLoad(t)
  /\ At(t, "load", IF tmp'[t] = Null THEN "build" ELSE "unlock")
  /\ UNCHANGED <<instance, mutex, built, view, lockView, lockKnows, fenceView>>

\* The constructor of the store (and the assignment to ds_object).
Build(t) ==
  /\ At(t, "build", "publish")
  /\ tmp' = [tmp EXCEPT ![t] = t]
  /\ built' = built \cup {t}
  /\ view' = [view EXCEPT ![t] = @ \cup {t}]
  /\ UNCHANGED <<instance, mutex, knows, lockView, lockKnows, fenceView>>

\* Mutant: no release fence.
Publish_NoFence(t) ==
  /\ At(t, "publish", "unlock")
  /\ instance' = tmp[t] /\ fenceView' = {}
  /\ knows' = [knows EXCEPT ![t] = TRUE]
  /\ UNCHANGED <<mutex, tmp, built, view, lockView, lockKnows>>

\* The release fence, then the relaxed store to instance_.
Publish(t) ==
  /\ At(t, "publish", "unlock")
  /\ instance' = tmp[t] /\ fenceView' = view[t]
  /\ knows' = [knows EXCEPT ![t] = TRUE]
  /\ UNCHANGED <<mutex, tmp, built, view, lockView, lockKnows>>

\* Mutant: the thread that built the store returns without releasing the mutex.
Unlock_NotByBuilder(t) ==
  /\ At(t, "unlock", "in")
  /\ mutex' = IF tmp[t] = t THEN mutex ELSE Free
  /\ lockView' = view[t] /\ lockKnows' = knows[t]
  /\ UNCHANGED <<instance, tmp, built, view, knows, fenceView>>

\* The destructor of the lock_guard; GetInstance returns tmp.
Unlock(t) ==
  /\ At(t, "unlock", "in")
  /\ mutex' = Free
  /\ lockView' = view[t] /\ lockKnows' = knows[t]
  /\ UNCHANGED <<instance, tmp, built, view, knows, fenceView>>

\* The thread will call GetInstance again.
Again(t) ==
  /\ At(t, "in", "out")
  /\ UNCHANGED <<instance, mutex, tmp, built, syncVars>>

\* The process ends, in exit(1) or otherwise, and starts again.
ProcessEnds ==
  /\ instance' = Null /\ mutex' = Free
  /\ thr' = [t \in Threads |-> "out"]
  /\ tmp' = [t \in Threads |-> Null]
  /\ built' = {}
  /\ view' = [t \in Threads |-> {}] /\ knows' = [t \in Threads |-> FALSE]
  /\ lockView' = {} /\ lockKnows' = FALSE
  /\ fenceView' = {}

-----------------------------------------------------------------------------

GetInstanceStep(t) ==
  \/ AcquireFence(t) \/ Acquire(t) \/ SecondLoad(t)
  \/ Build(t) \/ Publish(t) \/ Unlock(t)

Call(t) == FirstLoad(t) \/ Again(t)

SMNext == (\E t \in Threads : Call(t) \/ GetInstanceStep(t)) \/ ProcessEnds

SMSpec == SMInit /\ [][SMNext]_smVars

-----------------------------------------------------------------------------
(* Properties. *)

\* The constructor runs once per process, however many threads race GetInstance
\* and however stale the nullptr they read.
OneStore == \A s, u \in built : s = u

\* A caller of GetInstance gets a store whose constructor has run and whose
\* writes it sees, on the path without the mutex as well.
ReturnsBuilt == \A t \in Threads : thr[t] = "in" => tmp[t] \in view[t]

-----------------------------------------------------------------------------
(* The abstract specification: one store is chosen, everybody gets it.     *)

got == [t \in Threads |-> IF thr[t] = "in" THEN tmp[t] ELSE Null]

Chosen == INSTANCE OneInstance WITH value <- instance

\* GetInstance implements OneInstance: all callers hold the same store at all
\* times, and nobody holds one before it was published.
ImplementsOneInstance == Chosen!OISpec

-----------------------------------------------------------------------------
(* The inductive invariant.  Who holds the mutex while there is no instance *)
(* is alone with built; once there is one, the mutex hands its visibility   *)
(* on from holder to holder.                                                *)

Sees(t) == knows[t] /\ instance \in view[t]

HolderInv ==
  /\ \A t \in Threads : thr[t] \in InLock => mutex = t
  /\ \A t \in Threads :
       /\ thr[t] = "load" /\ instance # Null => Sees(t)
       /\ thr[t] = "build" => instance = Null /\ built = {}
       /\ thr[t] = "publish" => instance = Null /\ built = {t} /\ tmp[t] = t /\ t \in view[t]
       /\ thr[t] \in {"unlock", "in"} => instance # Null /\ tmp[t] = instance /\ Sees(t)
       /\ thr[t] = "fence" /\ tmp[t] # Null => tmp[t] = instance /\ knows[t]
       /\ knows[t] => instance # Null

InstanceInv ==
  /\ instance # Null => built = {instance} /\ instance \in fenceView
  /\ instance # Null /\ mutex = Free => lockKnows /\ instance \in lockView
  /\ instance = Null /\ built # {} => \E t \in Threads : thr[t] = "publish"
  /\ lockKnows => instance # Null

SMInv == SMTypeOK /\ HolderInv /\ InstanceInv
=============================================================================
