----------------------------- MODULE TimingStore ----------------------------
(***************************************************************************)
(* TimingStore of kvstore/timing_store.h around the file store: the clock  *)
(* is read before and after each put_all, and an iteration lasts from the  *)
(* end of one put_all to the end of the next.  The totals that only stats  *)
(* prints are left out.                                                    *)
(***************************************************************************)
EXTENDS FileStore

CONSTANTS
  MaxTime,  \* bound on the clock
  MaxIters  \* bound on the put_alls of a process

VARIABLES
  tsc,          \* the time stamp counter when it was last read
  appStart, snapTime, putallStart,
  plist, tlist, slist

timing == <<appStart, snapTime, putallStart, plist, tlist, slist>>
vars == <<fileVars, tsc, timing>>

Times == 0..MaxTime

ASSUME TimeAssumption == MaxTime \in Nat \ {0}

TypeOK ==
  /\ FileTypeOK
  /\ tsc \in Times /\ appStart \in Times /\ snapTime \in Times /\ putallStart \in Times
  /\ plist \in Seq(Times) /\ tlist \in Seq(Times) /\ slist \in Seq(Nat)

\* read_tsc: time has passed since it was last read.
ReadTsc == tsc' \in tsc..MaxTime

NewStore ==
  /\ ReadTsc /\ appStart' = tsc' /\ snapTime' = 0 /\ putallStart' = 0
  /\ plist' = <<>> /\ tlist' = <<>> /\ slist' = <<>>

Init ==
  /\ FileInit
  /\ tsc = 1 /\ appStart = 1 /\ snapTime = 0 /\ putallStart = 0
  /\ plist = <<>> /\ tlist = <<>> /\ slist = <<>>

-----------------------------------------------------------------------------

TimedPutAll ==
  /\ Len(plist) < MaxIters
  /\ ReadTsc /\ putallStart' = tsc'
  /\ PutAllStart
  /\ UNCHANGED <<appStart, snapTime, plist, tlist, slist>>

\* Mutant: the first iteration is never told from the others.
IterTime_NoFirst(end) == end - snapTime

IterTime(end) == end - (IF snapTime = 0 THEN appStart ELSE snapTime)

\* put_all after the store's put_all has returned total_size.
TimedPutAllReturn ==
  /\ PutAllReturn
  /\ ReadTsc /\ snapTime' = tsc'
  /\ plist' = Append(plist, tsc' - putallStart)
  /\ slist' = Append(slist, total)
  /\ tlist' = Append(tlist, IterTime(tsc'))
  /\ putallStart' = 0  \* not read before the next put_all
  /\ UNCHANGED appStart

\* The process ends, or is killed, and starts again.
Restart ==
  /\ \/ Ends
     \/ \E k \in Keys :
          \/ CreateObjExists(k) \/ FreeObj(k)
          \/ \E v \in PutVers : GetTooLong(k, v)
  /\ NewStore

\* The steps that TimingStore only passes on, and those inside put_all.
Passed ==
  /\ \/ Fwrite \/ PutClose \/ PutAllOpen \/ PutAllClose
     \/ \E k \in Keys :
          \/ CreateObj(k) \/ \E x \in Vals : Store(k, x)
          \/ \E v \in PutVers : PutOpen(k, v) \/ GetWithMalloc(k, v)
     \/ ReaderStep
  /\ UNCHANGED <<tsc, timing>>

Next ==
  \/ Restart \/ Passed
  \/ TimedPutAll \/ TimedPutAllReturn

Spec == Init /\ [][Next]_vars

-----------------------------------------------------------------------------
(* Properties. *)

\* The iterations cover the run without gap or overlap, and the snapshot of an
\* iteration is part of it: the iteration times of a process add up to the time
\* from its start to its last put_all, and no snapshot took longer than its
\* iteration.
TimesAddUp ==
  /\ tlist # <<>> => SumFunction(tlist) = snapTime - appStart
  /\ \A i \in DOMAIN tlist : plist[i] <= tlist[i]

-----------------------------------------------------------------------------
(* The inductive invariant. *)

\* When the current iteration began.
IterStart == IF snapTime = 0 THEN appStart ELSE snapTime

TimeInv ==
  /\ appStart \in 1..tsc /\ IterStart \in appStart..tsc
  /\ snapTime = 0 <=> tlist = <<>>
  /\ Len(plist) = Len(tlist)
  /\ InPutAll => putallStart \in IterStart..tsc

IInv == TypeOK /\ FileInv /\ TimeInv /\ TimesAddUp
=============================================================================
