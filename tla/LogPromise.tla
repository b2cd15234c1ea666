----------------------------- MODULE LogPromise -----------------------------
(***************************************************************************)
(* The persistent log as its users see it: the bytes between head and tail *)
(* read the way Log::walk reads them, in the mapped memory and on the      *)
(* media, are the two sequences of AtomicLog.                              *)
(***************************************************************************)
EXTENDS PersistentLog

\* Where the walk goes from an entry at o.
NextEntry(m, o) == o + LehdrSize + (CHOOSE n \in LenAt(m, o) : TRUE) + WordLength

\* The entries of m between two offsets.
Parse(m, from, to) ==
  LET entriesFrom[o \in Nat] ==
        IF o >= to THEN <<>> ELSE <<m[o].ent>> \o entriesFrom[NextEntry(m, o)]
  IN IF from = 0 THEN <<>> ELSE entriesFrom[from]

Promise == INSTANCE AtomicLog WITH
  vlog <- Parse(mem, hdr["head"], hdr["tail"]),
  dlog <- Parse(pm, phdr["head"], phdr["tail"]),
  nack <- acked

\* The log implements AtomicLog: what walk parses out of the visible bytes, and
\* out of the bytes on the media, behaves as one sequence of atomic appends.
ImplementsAtomicLog == Promise!ASpec

-----------------------------------------------------------------------------
(* What IInv lacks for the proof: the header words of a log that is not      *)
(* listed, yet or any more.                                                  *)

HeadInv ==
  \A h \in {hdr, phdr} :
    /\ h["head"] \in {0, LhdrSize}
    /\ ents # <<>> => h["head"] = LhdrSize
    /\ ents = <<>> => h["tail"] \in {0, LhdrSize}
=============================================================================
