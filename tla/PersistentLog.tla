--------------------------- MODULE PersistentLog ---------------------------
(***************************************************************************)
(* The persistent log of sheap/log.cc: one memory-mapped file with a       *)
(* header (struct lhdr_t) and an append-only run of entries, shared by the *)
(* processes that map it.  A producer appends with appendv / appendmv,     *)
(* consumers walk from head to tail without a lock.                        *)
(*                                                                         *)
(* A store is visible to every process at once and durable only after the  *)
(* process that made it drains: mem and hdr are what a load returns, pm    *)
(* and phdr what the media holds.  A power failure keeps any subset of the *)
(* words that were not drained; a killed process loses only its own        *)
(* volatile state.  The data is abstracted to cells: a cell of an entry    *)
(* knows the entry and its position in it.                                 *)
(***************************************************************************)
EXTENDS Integers, Sequences, FiniteSets

CONSTANTS
  Procs,       \* processes that map the log
  Writers,     \* those that append to it (the rank that owns the log)
  Entries,     \* what can be appended: one I/O vector each
  Cut,         \* Cut[e][i]: cells of e in its first i I/O vectors
  MappedLen,   \* mapped_len, in cells
  LhdrSize,    \* sizeof(struct lhdr_t)
  LehdrSize,   \* sizeof(struct lehdr_t)
  WordLength,  \* WORD_LENGTH, the length of the commit flag
  PageSize,    \* stride of the page-touching loop of the constructor
  MagicNumber, \* MAGIC_NUMBER
  NoEntry, CommitFlag

ASSUME ProcsAssumption == Writers \subseteq Procs

ASSUME SizesAssumption ==
  /\ LhdrSize \in Nat \ {0} /\ LehdrSize \in Nat \ {0}
  /\ WordLength \in Nat \ {0} /\ PageSize \in Nat \ {0}
  /\ MagicNumber \in Nat \ {0}
  /\ MappedLen \in Nat /\ LhdrSize < MappedLen

\* The first vector of an entry is its struct lehdr_t.
ASSUME CutAssumption ==
  \A e \in Entries :
    /\ Cut[e] \in Seq(Nat) /\ Len(Cut[e]) > 0
    /\ Cut[e][1] = LehdrSize
    /\ \A i, j \in 1..Len(Cut[e]) : i <= j => Cut[e][i] <= Cut[e][j]

ASSUME MarkersAssumption ==
  NoEntry \notin Entries /\ CommitFlag \notin Entries /\ NoEntry # CommitFlag

Offsets == 0..(MappedLen - 1)
EndOffset == MappedLen - 1
HdrWords == {"magic", "len", "head", "tail"}
Cells == [ent : Entries \cup {NoEntry, CommitFlag}, pos : Nat]
Zero == [ent |-> NoEntry, pos |-> 0]
Flag == [ent |-> CommitFlag, pos |-> 0]

Iovcnt(e) == Len(Cut[e])
Size(e) == Cut[e][Len(Cut[e])]
IovStart(e, i) == IF i = 1 THEN 0 ELSE Cut[e][i - 1]
\* The len field the stores put in the header of an entry.
HdrLen(e) == Size(e) - LehdrSize

VARIABLES
  file,     \* the log file exists
  listed,   \* the root heap lists the log
  mem, hdr, \* contents as loads see them
  pm, phdr, \* contents on the media
  pc,       \* per process: what its Log object is doing
  wo,       \* write_offset
  ent, iov, \* entry being appended and index of its next I/O vector
  pend, pendHdr, \* cells and header words stored and not yet drained
  rtail, tmp,    \* walk: the tail it loaded and tmp_offset
  ents,     \* history: the entries published below hdr.tail, with offsets
  dn,       \* history: how many of them lie below the durable tail
  acked     \* history: how many of them belong to appends that returned

procVars == <<pc, wo, ent, iov, pend, pendHdr, rtail, tmp>>
media == <<mem, hdr, pm, phdr>>
history == <<ents, dn, acked>>
vars == <<file, listed, media, procVars, history>>

\* Process states in which an append is in progress.
Appending == {"copy", "drainData", "flag", "drainFlag", "tail", "drainTail"}
Ctor == {"ctor", "ctorDrain", "touch", "addLog"}
PcStates == {"down", "idle", "walkHead", "walk"} \cup Appending \cup Ctor

TypeOK ==
  /\ file \in BOOLEAN /\ listed \in BOOLEAN
  /\ mem \in [Offsets -> Cells] /\ pm \in [Offsets -> Cells]
  /\ hdr \in [HdrWords -> Nat] /\ phdr \in [HdrWords -> Nat]
  /\ pc \in [Procs -> PcStates]
  /\ wo \in [Procs -> Nat]
  /\ ent \in [Procs -> Entries \cup {NoEntry}]
  /\ iov \in [Procs -> Nat]
  /\ pend \in [Procs -> SUBSET Offsets]
  /\ pendHdr \in [Procs -> SUBSET HdrWords]
  /\ rtail \in [Procs -> Nat] /\ tmp \in [Procs -> Nat]
  /\ ents \in Seq([off : Nat, ent : Entries])
  /\ dn \in Nat /\ acked \in Nat

Init ==
  /\ file = FALSE /\ listed = FALSE
  /\ mem = [o \in Offsets |-> Zero] /\ pm = mem
  /\ hdr = [w \in HdrWords |-> 0] /\ phdr = hdr
  /\ pc = [p \in Procs |-> "down"]
  /\ wo = [p \in Procs |-> 0]
  /\ ent = [p \in Procs |-> NoEntry]
  /\ iov = [p \in Procs |-> 0]
  /\ pend = [p \in Procs |-> {}]
  /\ pendHdr = [p \in Procs |-> {}]
  /\ rtail = [p \in Procs |-> 0] /\ tmp = [p \in Procs |-> 0]
  /\ ents = <<>> /\ dn = 0 /\ acked = 0

-----------------------------------------------------------------------------
(* Stores and drains. *)

Goto(p, l) == pc' = [pc EXCEPT ![p] = l]

\* pmem_memcpy_nodrain of the cells data[o].
Store(p, data) ==
  /\ mem' = [o \in Offsets |-> IF o \in DOMAIN data THEN data[o] ELSE mem[o]]
  /\ pend' = [pend EXCEPT ![p] = @ \cup (DOMAIN data \cap Offsets)]

\* pmem_drain: everything this process stored reaches the media.
Drain(p) ==
  /\ pm' = [o \in Offsets |-> IF o \in pend[p] THEN mem[o] ELSE pm[o]]
  /\ phdr' = [w \in HdrWords |-> IF w \in pendHdr[p] THEN hdr[w] ELSE phdr[w]]
  /\ pend' = [pend EXCEPT ![p] = {}]
  /\ pendHdr' = [pendHdr EXCEPT ![p] = {}]

-----------------------------------------------------------------------------
(* Log::Log.  A process creates the log when its look-up of the id failed; *)
(* pmem_map_file with CREATE | EXCL and a non-zero size works only on a    *)
(* file that does not exist, and otherwise the process exits before it has *)
(* done anything.  It opens the log (size 0) when the root heap lists it.  *)

CtorCreate(p) ==
  /\ pc[p] = "down" /\ ~file
  /\ file' = TRUE
  /\ Goto(p, "ctor")
  /\ UNCHANGED <<listed, media, wo, ent, iov, pend, pendHdr, rtail, tmp, history>>

CtorHeader(p) ==
  /\ pc[p] = "ctor"
  /\ hdr' = [w \in HdrWords |-> IF w = "magic" THEN MagicNumber
                                ELSE IF w = "len" THEN MappedLen
                                ELSE LhdrSize]          \* head and tail
  /\ pendHdr' = [pendHdr EXCEPT ![p] = HdrWords]
  /\ wo' = [wo EXCEPT ![p] = LhdrSize]
  /\ Goto(p, "ctorDrain")
  /\ UNCHANGED <<file, listed, mem, pm, phdr, ent, iov, pend, rtail, tmp, history>>

\* Mutant: the header is not made durable before the log is listed.
CtorDrain_NoDrain(p) ==
  /\ pc[p] = "ctorDrain"
  /\ Goto(p, "touch")
  /\ pendHdr' = [pendHdr EXCEPT ![p] = {}]
  /\ UNCHANGED <<file, listed, media, wo, ent, iov, pend, rtail, tmp, history>>

CtorDrain(p) ==
  /\ pc[p] = "ctorDrain"
  /\ Drain(p)
  /\ Goto(p, "touch")
  /\ UNCHANGED <<file, listed, mem, hdr, wo, ent, iov, rtail, tmp, history>>

\* One byte of every page is set to 0 with a plain store.
CtorTouch(p) ==
  /\ pc[p] = "touch"
  /\ mem' = [o \in Offsets |->
               IF LhdrSize <= o /\ o < EndOffset /\ (o - LhdrSize) % PageSize = 0
               THEN Zero ELSE mem[o]]
  /\ Goto(p, "addLog")
  /\ UNCHANGED <<file, listed, hdr, pm, phdr, wo, ent, iov, pend, pendHdr,
                 rtail, tmp, history>>

\* MemoryManager::CreateLog lists the id once the constructor is done.
AddLog(p) ==
  /\ pc[p] = "addLog"
  /\ listed' = TRUE
  /\ Goto(p, "idle")
  /\ UNCHANGED <<file, media, wo, ent, iov, pend, pendHdr, rtail, tmp, history>>

\* Mutant: an existing log is reopened at its head instead of its tail.
CtorOpen_AtHead(p) ==
  /\ pc[p] = "down" /\ listed
  /\ hdr["magic"] = MagicNumber /\ hdr["len"] = MappedLen
  /\ wo' = [wo EXCEPT ![p] = hdr["head"]]
  /\ Goto(p, "idle")
  /\ UNCHANGED <<file, listed, media, ent, iov, pend, pendHdr, rtail, tmp, history>>

\* A wrong magic number or length ends the process.
CtorOpen(p) ==
  /\ pc[p] = "down" /\ listed
  /\ hdr["magic"] = MagicNumber /\ hdr["len"] = MappedLen
  /\ wo' = [wo EXCEPT ![p] = hdr["tail"]]
  /\ Goto(p, "idle")
  /\ UNCHANGED <<file, listed, media, ent, iov, pend, pendHdr, rtail, tmp, history>>

-----------------------------------------------------------------------------
(* Log::appendv, and Log::appendmv, which only flattens a table of vectors *)
(* first; Log::persist is its second half.                                 *)

\* Mutant: the bound check forgets the commit flag.
Fits_NoFlag(p, e) ==
  /\ wo[p] < EndOffset
  /\ Size(e) <= EndOffset - wo[p]

Fits(p, e) ==
  /\ wo[p] < EndOffset
  /\ Size(e) + WordLength <= EndOffset - wo[p]

Appendv(p, e) ==
  /\ pc[p] = "idle" /\ p \in Writers
  /\ Fits(p, e)
  /\ ent' = [ent EXCEPT ![p] = e]
  /\ iov' = [iov EXCEPT ![p] = 1]
  /\ Goto(p, "copy")
  /\ UNCHANGED <<file, listed, media, wo, pend, pendHdr, rtail, tmp, history>>

\* Everything a process forgets when it ends.
Forget(p) ==
  /\ Goto(p, "down")
  /\ wo' = [wo EXCEPT ![p] = 0]
  /\ ent' = [ent EXCEPT ![p] = NoEntry]
  /\ iov' = [iov EXCEPT ![p] = 0]
  /\ pend' = [pend EXCEPT ![p] = {}]
  /\ pendHdr' = [pendHdr EXCEPT ![p] = {}]
  /\ rtail' = [rtail EXCEPT ![p] = 0]
  /\ tmp' = [tmp EXCEPT ![p] = 0]

\* Not enough space: exit(1).
AppendvNoSpace(p, e) ==
  /\ pc[p] = "idle" /\ p \in Writers
  /\ ~Fits(p, e)
  /\ Forget(p)
  /\ UNCHANGED <<file, listed, media, history>>

\* Mutant: the write offset moves the wrong way.
CopyIov_Backwards(p) ==
  LET e == ent[p]
      from == IovStart(e, iov[p])
      n == Cut[e][iov[p]] - from
  IN /\ pc[p] = "copy"
     /\ Store(p, [o \in wo[p]..(wo[p] + n - 1) |->
                   [ent |-> e, pos |-> from + (o - wo[p])]])
     /\ wo' = [wo EXCEPT ![p] = @ - n]
     /\ iov' = [iov EXCEPT ![p] = @ + 1]
     /\ Goto(p, IF iov[p] = Iovcnt(e) THEN "drainData" ELSE "copy")
     /\ UNCHANGED <<file, listed, hdr, pm, phdr, ent, pendHdr, rtail, tmp, history>>

\* Mutant: the loop does not go on to the next vector.
CopyIov_SameIov(p) ==
  LET e == ent[p]
      n == Cut[e][iov[p]] - IovStart(e, iov[p])
  IN /\ pc[p] = "copy"
     /\ Store(p, [o \in wo[p]..(wo[p] + n - 1) |->
                   [ent |-> e, pos |-> IovStart(e, iov[p]) + (o - wo[p])]])
     /\ UNCHANGED <<file, listed, hdr, pm, phdr, pc, wo, ent, iov, pendHdr, rtail, tmp,
                    history>>

CopyIov(p) ==
  LET e == ent[p]
      from == IovStart(e, iov[p])
      n == Cut[e][iov[p]] - from
  IN /\ pc[p] = "copy"
     /\ Store(p, [o \in wo[p]..(wo[p] + n - 1) |->
                   [ent |-> e, pos |-> from + (o - wo[p])]])
     /\ wo' = [wo EXCEPT ![p] = @ + n]
     /\ iov' = [iov EXCEPT ![p] = @ + 1]
     /\ Goto(p, IF iov[p] = Iovcnt(e) THEN "drainData" ELSE "copy")
     /\ UNCHANGED <<file, listed, hdr, pm, phdr, ent, pendHdr, rtail, tmp, history>>

PersistDrainData(p) ==
  /\ pc[p] = "drainData"
  /\ Drain(p)
  /\ Goto(p, "flag")
  /\ UNCHANGED <<file, listed, mem, hdr, wo, ent, iov, rtail, tmp, history>>

\* The commit flag is stored twice, with the same bytes at the same place.
PersistFlag(p) ==
  /\ pc[p] = "flag"
  /\ Store(p, [o \in wo[p]..(wo[p] + WordLength - 1) |-> Flag])
  /\ Goto(p, "drainFlag")
  /\ UNCHANGED <<file, listed, hdr, pm, phdr, wo, ent, iov, pendHdr, rtail, tmp, history>>

\* Mutant: no drain between the commit flag and the tail.
PersistDrainFlag_NoDrain(p) ==
  /\ pc[p] = "drainFlag"
  /\ Goto(p, "tail")
  /\ UNCHANGED <<file, listed, media, wo, ent, iov, pend, pendHdr, rtail, tmp, history>>

PersistDrainFlag(p) ==
  /\ pc[p] = "drainFlag"
  /\ Drain(p)
  /\ Goto(p, "tail")
  /\ UNCHANGED <<file, listed, mem, hdr, wo, ent, iov, rtail, tmp, history>>

PersistTail(p) ==
  /\ pc[p] = "tail"
  /\ wo' = [wo EXCEPT ![p] = @ + WordLength]
  /\ hdr' = [hdr EXCEPT !["tail"] = wo[p] + WordLength]
  /\ pendHdr' = [pendHdr EXCEPT ![p] = {"tail"}]
  /\ ents' = Append(ents, [off |-> wo[p] - Size(ent[p]), ent |-> ent[p]])
  /\ Goto(p, "drainTail")
  /\ UNCHANGED <<file, listed, mem, pm, phdr, ent, iov, pend, rtail, tmp, dn, acked>>

\* Mutant: appendv returns without the last drain.
PersistDrainTail_NoDrain(p) ==
  /\ pc[p] = "drainTail"
  /\ acked' = Len(ents)
  /\ ent' = [ent EXCEPT ![p] = NoEntry]
  /\ iov' = [iov EXCEPT ![p] = 0]
  /\ pendHdr' = [pendHdr EXCEPT ![p] = {}]
  /\ Goto(p, "idle")
  /\ UNCHANGED <<file, listed, media, wo, pend, rtail, tmp, ents, dn>>

\* The last drain, after which appendv returns NO_ERROR.
PersistDrainTail(p) ==
  /\ pc[p] = "drainTail"
  /\ Drain(p)
  /\ dn' = Len(ents) /\ acked' = Len(ents)
  /\ ent' = [ent EXCEPT ![p] = NoEntry]
  /\ iov' = [iov EXCEPT ![p] = 0]
  /\ Goto(p, "idle")
  /\ UNCHANGED <<file, listed, mem, hdr, wo, rtail, tmp, ents>>

-----------------------------------------------------------------------------
(* Log::walk, which takes no lock: it loads tail, then head, then visits   *)
(* the entries in between.  The callback decides whether to go on.         *)

WalkLoadTail(p) ==
  /\ pc[p] = "idle"
  /\ rtail' = [rtail EXCEPT ![p] = hdr["tail"]]
  /\ Goto(p, "walkHead")
  /\ UNCHANGED <<file, listed, media, wo, ent, iov, pend, pendHdr, tmp, history>>

WalkLoadHead(p) ==
  /\ pc[p] = "walkHead"
  /\ IF hdr["head"] >= rtail[p]
     THEN /\ Goto(p, "idle")                             \* ID_NOT_FOUND
          /\ rtail' = [rtail EXCEPT ![p] = 0]
          /\ UNCHANGED tmp
     ELSE /\ Goto(p, "walk")
          /\ tmp' = [tmp EXCEPT ![p] = hdr["head"]]
          /\ UNCHANGED rtail
  /\ UNCHANGED <<file, listed, media, wo, ent, iov, pend, pendHdr, history>>

\* What the len field of a struct lehdr_t read at o can hold: the length the
\* appender put there, 0 in a fresh file, anything in the middle of an entry.
LenAt(m, o) ==
  IF o \in Offsets /\ m[o].ent \in Entries /\ m[o].pos = 0 THEN {HdrLen(m[o].ent)}
  ELSE IF o \in Offsets /\ m[o] = Zero THEN {0}
  ELSE 0..MappedLen

WalkDone(p) ==
  /\ Goto(p, "idle")
  /\ rtail' = [rtail EXCEPT ![p] = 0]
  /\ tmp' = [tmp EXCEPT ![p] = 0]

\* The callback returned 0: the walk ends here.
WalkStop(p) ==
  /\ pc[p] = "walk"
  /\ WalkDone(p)
  /\ UNCHANGED <<file, listed, media, wo, ent, iov, pend, pendHdr, history>>

\* Mutant: the step to the next entry forgets the commit flag.
WalkNext_NoFlag(p) ==
  /\ pc[p] = "walk"
  /\ \E n \in LenAt(mem, tmp[p]) :
       LET next == tmp[p] + LehdrSize + n
       IN IF next < rtail[p]
          THEN /\ tmp' = [tmp EXCEPT ![p] = next]
               /\ UNCHANGED <<pc, rtail>>
          ELSE WalkDone(p)
  /\ UNCHANGED <<file, listed, media, wo, ent, iov, pend, pendHdr, history>>

\* Mutant: the loop does not move to the next entry.
WalkNext_SameEntry(p) ==
  /\ pc[p] = "walk"
  /\ \E n \in LenAt(mem, tmp[p]) :
       IF tmp[p] + LehdrSize + n + WordLength < rtail[p]
       THEN UNCHANGED <<pc, rtail, tmp>>
       ELSE WalkDone(p)
  /\ UNCHANGED <<file, listed, media, wo, ent, iov, pend, pendHdr, history>>

WalkNext(p) ==
  /\ pc[p] = "walk"
  /\ \E n \in LenAt(mem, tmp[p]) :
       LET next == tmp[p] + LehdrSize + n + WordLength
       IN IF next < rtail[p]
          THEN /\ tmp' = [tmp EXCEPT ![p] = next]
               /\ UNCHANGED <<pc, rtail>>
          ELSE WalkDone(p)
  /\ UNCHANGED <<file, listed, media, wo, ent, iov, pend, pendHdr, history>>

-----------------------------------------------------------------------------
(* Failures. *)

\* A process ends or is killed.  What it had stored stays visible, and what
\* it had not drained is now drained by nobody.
Kill(p) ==
  /\ pc[p] # "down"
  /\ Forget(p)
  /\ UNCHANGED <<file, listed, media, history>>

\* Power fails: every process ends, and each word that was not drained keeps
\* its old or its new contents.  The root heap's entry for the log is never
\* drained (root.cc: "TODO: persist"), so it can be lost as well.
PowerFail ==
  \E kept \in SUBSET {o \in Offsets : mem[o] # pm[o]},
     keptHdr \in SUBSET {w \in HdrWords : hdr[w] # phdr[w]} :
    /\ mem' = [o \in Offsets |-> IF o \in kept THEN mem[o] ELSE pm[o]]
    /\ pm' = mem'
    /\ hdr' = [w \in HdrWords |-> IF w \in keptHdr THEN hdr[w] ELSE phdr[w]]
    /\ phdr' = hdr'
    /\ listed' \in {listed, FALSE}
    /\ pc' = [p \in Procs |-> "down"]
    /\ wo' = [p \in Procs |-> 0]
    /\ ent' = [p \in Procs |-> NoEntry]
    /\ iov' = [p \in Procs |-> 0]
    /\ pend' = [p \in Procs |-> {}]
    /\ pendHdr' = [p \in Procs |-> {}]
    /\ rtail' = [p \in Procs |-> 0] /\ tmp' = [p \in Procs |-> 0]
    /\ ents' = IF hdr'["tail"] = hdr["tail"] THEN ents ELSE SubSeq(ents, 1, dn)
    /\ dn' = Len(ents')
    /\ UNCHANGED <<file, acked>>

-----------------------------------------------------------------------------

Step(p) ==
  \/ CtorCreate(p) \/ CtorHeader(p) \/ CtorDrain(p) \/ CtorTouch(p)
  \/ AddLog(p) \/ CtorOpen(p)
  \/ \E e \in Entries : Appendv(p, e) \/ AppendvNoSpace(p, e)
  \/ CopyIov(p) \/ PersistDrainData(p) \/ PersistFlag(p) \/ PersistDrainFlag(p)
  \/ PersistTail(p) \/ PersistDrainTail(p)
  \/ WalkLoadTail(p) \/ WalkLoadHead(p) \/ WalkStop(p) \/ WalkNext(p)

Next == (\E p \in Procs : Step(p) \/ Kill(p)) \/ PowerFail

Spec == Init /\ [][Next]_vars

-----------------------------------------------------------------------------
(* Properties. *)

\* Where the entry x ends, its commit flag included, and the cells between.
EndOf(x) == x.off + Size(x.ent) + WordLength
Intact(m, x) ==
  /\ \A k \in 0..(Size(x.ent) - 1) : m[x.off + k] = [ent |-> x.ent, pos |-> k]
  /\ \A k \in 0..(WordLength - 1) : m[x.off + Size(x.ent) + k] = Flag

\* Crash consistency of appendv/persist: every append that returned lies below
\* the durable tail, and every entry below the durable tail is on the media
\* whole, header, data and commit flag, whatever was killed or lost power when.
DurablePrefix ==
  /\ acked <= dn /\ dn <= Len(ents)
  /\ \A i \in 1..dn : EndOf(ents[i]) <= phdr["tail"] /\ Intact(pm, ents[i])

\* Lock-free Log::walk: each place a walk visits is the start of an entry that
\* is completely visible, however appends, kills and walks interleave.
WalkSeesWholeEntries ==
  \A p \in Procs : pc[p] = "walk" =>
    \E i \in 1..Len(ents) : ents[i].off = tmp[p] /\ Intact(mem, ents[i])

\* appendv never stores outside the mapping: while it copies, the rest of the
\* entry and its commit flag end below end_offset.
AppendInBounds ==
  \A p \in Procs :
    /\ pc[p] = "copy" => wo[p] + (Size(ent[p]) - IovStart(ent[p], iov[p]))
                               + WordLength <= EndOffset
    /\ pc[p] \in {"drainData", "flag", "drainFlag", "tail"} =>
         wo[p] + WordLength <= EndOffset

\* A log that was added to the root heap always has a valid header, visible and
\* durable, so the "wrong magic number" exit and the length assertion of the
\* constructor are unreachable after any crash that leaves it listed.
ListedLogOpens ==
  listed => /\ hdr["magic"] = MagicNumber /\ phdr["magic"] = MagicNumber
            /\ hdr["len"] = MappedLen /\ phdr["len"] = MappedLen
            /\ hdr["head"] = LhdrSize /\ phdr["head"] = LhdrSize

\* An acknowledged append is never undone, moved or replaced: no step (crash
\* and recovery included) changes the acknowledged prefix of the log.
AckedForever ==
  [][ /\ acked' >= acked
      /\ \A i \in 1..acked : i <= Len(ents') /\ ents'[i] = ents[i] ]_vars

\* A reader never loses what it was promised: every entry of a returned append
\* stays whole in the mapped memory.  With one producer per log this is a
\* consequence of the invariant below; appendv takes no lock, so with two
\* producers it is the property at stake.
AckedReadable == \A i \in 1..acked : Intact(mem, ents[i])

-----------------------------------------------------------------------------
(* Progress of the operations a process has begun. *)

Progress(p) ==
  \/ CtorHeader(p) \/ CtorDrain(p) \/ CtorTouch(p) \/ AddLog(p)
  \/ CopyIov(p) \/ PersistDrainData(p) \/ PersistFlag(p) \/ PersistDrainFlag(p)
  \/ PersistTail(p) \/ PersistDrainTail(p)
  \/ WalkLoadHead(p) \/ WalkNext(p)

\* A running process is scheduled: it goes on with what it has begun.  The
\* callback of a walk may stop it and need not.
FairSpec == Spec /\ \A p \in Procs : WF_vars(Progress(p))

\* Log::walk ends even while the producer keeps appending, because it goes by
\* the tail it loaded and every entry moves tmp_offset forward.
WalkTerminates ==
  \A p \in Procs : pc[p] \in {"walkHead", "walk"} ~> pc[p] \in {"idle", "down"}

\* appendv returns or its process ends: no step of persist waits for anybody.
AppendReturns ==
  \A p \in Procs : pc[p] \in Appending ~> pc[p] \in {"idle", "down"}

-----------------------------------------------------------------------------
(* The inductive invariant behind the safety properties, for a log with    *)
(* one producer.                                                           *)

SingleWriter == \A p, q \in Writers : p = q

HdrOK(h) == h["magic"] = MagicNumber /\ h["len"] = MappedLen /\ h["head"] = LhdrSize

\* Who can be running, given what has happened to the file.
LifeInv ==
  /\ listed => file
  /\ ~file => ents = <<>>
  /\ \A p \in Procs :
       /\ pc[p] # "down" => file
       /\ pc[p] \in Ctor => /\ ~listed /\ ents = <<>>
                           /\ \A q \in Procs : q # p => pc[q] = "down"
       /\ pc[p] \notin Ctor \cup {"down"} => listed

HeaderInv ==
  /\ listed => HdrOK(hdr) /\ HdrOK(phdr)
  /\ \A p \in Procs :
       /\ pc[p] = "ctorDrain" => /\ HdrOK(hdr) /\ hdr["tail"] = LhdrSize
                                /\ pendHdr[p] = HdrWords /\ wo[p] = LhdrSize
       /\ pc[p] \in {"touch", "addLog"} =>
            /\ HdrOK(hdr) /\ HdrOK(phdr) /\ wo[p] = LhdrSize
            /\ hdr["tail"] = LhdrSize /\ phdr["tail"] = LhdrSize
       /\ pc[p] = "drainTail" => pendHdr[p] = {"tail"}
       /\ pc[p] \notin {"ctorDrain", "drainTail"} => pendHdr[p] = {}

\* Where the first n entries end.
Bound(n) == IF n = 0 THEN LhdrSize ELSE EndOf(ents[n])

\* The entries tile the log from head to tail, and are whole in both copies.
ChainInv ==
  /\ acked <= dn /\ dn <= Len(ents)
  /\ listed \/ ents # <<>> => hdr["tail"] = Bound(Len(ents)) /\ phdr["tail"] = Bound(dn)
  /\ \A i \in 1..Len(ents) :
       /\ ents[i].off = Bound(i - 1)
       /\ EndOf(ents[i]) <= hdr["tail"] /\ EndOf(ents[i]) <= EndOffset
       /\ i <= dn => EndOf(ents[i]) <= phdr["tail"]
       /\ Intact(mem, ents[i]) /\ Intact(pm, ents[i])

WalkInv ==
  \A p \in Procs :
    /\ pc[p] \in {"walkHead", "walk"} => rtail[p] <= hdr["tail"]
    /\ pc[p] = "walk" => /\ tmp[p] < rtail[p]
                         /\ \E i \in 1..Len(ents) : ents[i].off = tmp[p]

\* The first n cells of the entry being appended, in m.
Written(m, e, n) == \A k \in 0..(n - 1) : m[hdr["tail"] + k] = [ent |-> e, pos |-> k]
FlagWritten(m, e) == \A k \in 0..(WordLength - 1) : m[hdr["tail"] + Size(e) + k] = Flag

AppendInv ==
  \A p \in Procs :
    /\ pc[p] \in {"idle", "walkHead", "walk", "drainTail"} /\ p \in Writers =>
         wo[p] = hdr["tail"]
    /\ pc[p] \in Appending => p \in Writers /\ ent[p] \in Entries
    /\ pc[p] \in Appending \ {"drainTail"} =>
         hdr["tail"] + Size(ent[p]) + WordLength <= EndOffset
    /\ pc[p] = "copy" =>
         /\ iov[p] \in 1..Iovcnt(ent[p])
         /\ wo[p] = hdr["tail"] + IovStart(ent[p], iov[p])
         /\ Written(mem, ent[p], IovStart(ent[p], iov[p]))
         /\ \A o \in hdr["tail"]..(wo[p] - 1) : o \in pend[p]
    /\ pc[p] \in {"drainData", "flag", "drainFlag", "tail"} =>
         /\ wo[p] = hdr["tail"] + Size(ent[p])
         /\ Written(mem, ent[p], Size(ent[p]))
    /\ pc[p] = "drainData" => \A o \in hdr["tail"]..(wo[p] - 1) : o \in pend[p]
    /\ pc[p] \in {"flag", "drainFlag", "tail"} => Written(pm, ent[p], Size(ent[p]))
    /\ pc[p] = "drainFlag" => \A o \in wo[p]..(wo[p] + WordLength - 1) : o \in pend[p]
    /\ pc[p] \in {"drainFlag", "tail"} => FlagWritten(mem, ent[p])
    /\ pc[p] = "tail" => FlagWritten(pm, ent[p])
    /\ pc[p] = "drainTail" => ents # <<>>

\* Everything a restart or a walk relies on, in inductive form: the entries tile
\* the log, both tails are entry boundaries, and an append in progress touches
\* only cells at or above the visible tail.
IInv == TypeOK /\ LifeInv /\ HeaderInv /\ ChainInv /\ WalkInv /\ AppendInv

=============================================================================
