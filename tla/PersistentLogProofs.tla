------------------------- MODULE PersistentLogProofs ------------------------
(***************************************************************************)
(* Proofs about PersistentLog for every set of processes and entries, all  *)
(* sizes, and one producer: the second half of an append, which publishes  *)
(* the entry by moving the tail, and a power failure preserve IInv; so IInv *)
(* is inductive and implies the safety properties, and an acknowledged     *)
(* append survives any crash.  The last part is the refinement: the log    *)
(* implements AtomicLog.                                                   *)
(***************************************************************************)
EXTENDS PersistentLogAppendProofs, LogPromise, WellFoundedInduction

LEMMA PersistDrainFlagStep ==
  ASSUME IInv, SingleWriter, NEW p \in Procs, PersistDrainFlag(p)
  PROVE  IInv'
<1> USE DEF IInv, PersistDrainFlag, Goto, history
<1>0. pc[p] \in Appending \ {"drainTail"} /\ pendHdr[p] = {}
  BY DEF Appending, HeaderInv
<1>1. TypeOK'
  BY DEF TypeOK, PcStates, Drain, Appending
<1>2. LifeInv'
  BY DEF LifeInv, TypeOK, Ctor
<1>3. phdr' = phdr /\ pendHdr' = pendHdr
  BY <1>0 DEF Drain, TypeOK
<1>4. HeaderInv'
  BY <1>3 DEF HeaderInv, TypeOK, HdrOK
<1>5. ChainInv'
  BY <1>3, DrainKeepsIntact DEF ChainInv, Bound
<1>6. WalkInv'
  BY Zenon DEF WalkInv, TypeOK
<1>7. AppendInv'
  <2> DEFINE e == ent[p]
             t == hdr["tail"]
  <2>1. /\ t \in Nat /\ Size(e) \in Nat
        /\ t..(t + Size(e) + WordLength - 1) \subseteq Offsets
    BY <1>0, AppendRange
  <2>2. /\ wo[p] = t + Size(e) /\ Written(mem, e, Size(e)) /\ Written(pm, e, Size(e))
        /\ FlagWritten(mem, e)
        /\ \A o \in wo[p]..(wo[p] + WordLength - 1) : o \in pend[p]
    BY DEF AppendInv
  <2>3. ASSUME NEW k \in 0..(Size(e) - 1)
        PROVE  pm'[t + k] = [ent |-> e, pos |-> k]
    <3>1. t + k \in Offsets
      BY <2>1, SizesAssumption
    <3> QED BY <2>2, <3>1 DEF Drain, Written
  <2>4. ASSUME NEW k \in 0..(WordLength - 1)
        PROVE  pm'[t + Size(e) + k] = Flag
    <3>1. t + Size(e) + k \in Offsets /\ t + Size(e) + k \in pend[p]
      BY <2>1, <2>2, SizesAssumption
    <3> QED BY <2>2, <3>1 DEF Drain, FlagWritten
  <2>5. Written(pm', e, Size(e)) /\ FlagWritten(pm', e)
    BY <2>3, <2>4 DEF Written, FlagWritten
  <2>6. ASSUME NEW q \in Procs, q # p
        PROVE  q \notin Writers /\ pc'[q] \notin Appending
    BY <1>0, <2>6, OnlyAppender, SMTT(60) DEF Appending, TypeOK
  <2>7. pc'[p] = "tail" /\ p \in Writers /\ e \in Entries
        /\ t + Size(e) + WordLength <= EndOffset
    BY <1>0 DEF AppendInv, TypeOK, Appending
  <2> QED BY <2>2, <2>5, <2>6, <2>7 DEF AppendInv, Written, FlagWritten, Appending
<1> QED BY <1>1, <1>2, <1>4, <1>5, <1>6, <1>7

LEMMA PersistTailStep ==
  ASSUME IInv, SingleWriter, NEW p \in Procs, PersistTail(p)
  PROVE  IInv'
<1> USE DEF IInv, PersistTail, Goto
<1> DEFINE e == ent[p]
           t == hdr["tail"]
           x == [off |-> wo[p] - Size(e), ent |-> e]
           R == [off : Nat, ent : Entries]
<1>0. pc[p] \in Appending \ {"drainTail"}
  BY DEF Appending
<1>1. /\ t \in Nat /\ e \in Entries /\ Size(e) \in Nat
      /\ t + Size(e) + WordLength <= EndOffset
  BY <1>0, AppendRange
<1>2. /\ p \in Writers /\ wo[p] = t + Size(e)
      /\ Written(mem, e, Size(e)) /\ Written(pm, e, Size(e))
      /\ FlagWritten(mem, e) /\ FlagWritten(pm, e)
  BY <1>0 DEF AppendInv
<1>3. listed /\ HdrOK(hdr) /\ HdrOK(phdr)
  BY DEF LifeInv, HeaderInv, Ctor
<1>4. /\ x.off = t /\ x.ent = e /\ x \in R /\ EndOf(x) = wo[p] + WordLength
      /\ EndOf(x) = t + Size(e) + WordLength /\ EndOf(x) \in Nat /\ t < EndOf(x)
  BY <1>1, <1>2, SizesAssumption DEF EndOf
<1>5. Intact(mem, x) /\ Intact(pm, x)
  <2>1. Intact(mem, x)
    BY <1>2, <1>4 DEF Intact, Written, FlagWritten
  <2>2. Intact(pm, x)
    BY <1>2, <1>4 DEF Intact, Written, FlagWritten
  <2> QED BY <2>1, <2>2
<1>6. ents \in Seq(R) /\ Len(ents) \in Nat
  BY DEF TypeOK
<1>7. /\ hdr' = [hdr EXCEPT !["tail"] = EndOf(x)] /\ hdr'["tail"] = EndOf(x)
      /\ ents' = Append(ents, x)
  BY <1>4, Zenon DEF TypeOK, HdrWords
<1> HIDE DEF x, R
<1>8. /\ ents' \in Seq(R) /\ Len(ents') = Len(ents) + 1 /\ ents'[Len(ents) + 1] = x
      /\ \A i \in 1..Len(ents) : ents'[i] = ents[i]
  BY <1>4, <1>6, <1>7
<1>9. TypeOK'
  <2>1. hdr' \in [HdrWords -> Nat]
    BY <1>4, <1>7 DEF TypeOK
  <2>2. wo' \in [Procs -> Nat] /\ pendHdr' \in [Procs -> SUBSET HdrWords]
    BY SizesAssumption, SMTT(60) DEF TypeOK, HdrWords
  <2>3. pc' \in [Procs -> PcStates]
    BY DEF TypeOK, PcStates, Appending
  <2> QED BY <1>8, <2>1, <2>2, <2>3, SMTT(60) DEF TypeOK, R
<1>10. LifeInv'
  BY DEF LifeInv, TypeOK, Ctor
<1>11. HeaderInv'
  <2>1. HdrOK(hdr')
    BY <1>3, <1>7 DEF HdrOK, TypeOK, HdrWords
  <2>2. \A q \in Procs : pc[q] \notin Ctor
    BY <1>3, SMTT(60) DEF LifeInv
  <2> QED BY <1>3, <2>1, <2>2, SMTT(60) DEF HeaderInv, TypeOK, HdrOK, Ctor
<1>12. ChainInv'
  <2>1. /\ t = Bound(Len(ents)) /\ phdr["tail"] = Bound(dn)
        /\ acked <= dn /\ dn <= Len(ents) /\ dn \in Nat
    BY <1>3 DEF ChainInv, TypeOK
  <2> DEFINE B(n) == IF n = 0 THEN LhdrSize ELSE EndOf(ents'[n])
  <2>2. \A n \in 0..Len(ents) : B(n) = Bound(n)
    BY <1>6, <1>8, SMTT(60) DEF Bound
  <2>3. ASSUME NEW i \in 1..Len(ents)
        PROVE  /\ ents'[i].off = B(i - 1) /\ EndOf(ents'[i]) <= hdr'["tail"]
               /\ EndOf(ents'[i]) <= EndOffset
               /\ i <= dn => EndOf(ents'[i]) <= phdr["tail"]
               /\ Intact(mem, ents'[i]) /\ Intact(pm, ents'[i])
    <3>1. i - 1 \in 0..Len(ents) /\ EndOf(ents[i]) \in Nat
      BY EntryFacts
    <3>2. /\ EndOf(ents[i]) <= t /\ EndOf(ents[i]) <= EndOffset
          /\ i <= dn => EndOf(ents[i]) <= phdr["tail"]
          /\ Intact(mem, ents[i]) /\ Intact(pm, ents[i]) /\ ents[i].off = Bound(i - 1)
      BY DEF ChainInv
    <3>3. ents'[i] = ents[i] /\ B(i - 1) = Bound(i - 1)
      BY <1>8, <2>2, <3>1
    <3>4. EndOf(ents[i]) <= hdr'["tail"]
      BY <1>1, <1>4, <1>7, <3>1, <3>2, SMTT(60)
    <3> HIDE DEF B
    <3> QED BY <3>2, <3>3, <3>4
  <2>4. /\ x.off = B(Len(ents)) /\ EndOf(x) <= hdr'["tail"]
        /\ EndOf(x) <= EndOffset /\ Intact(mem, x) /\ Intact(pm, x)
    BY <1>1, <1>4, <1>5, <1>6, <1>7, <2>1, <2>2, SMTT(60)
  <2>5. hdr'["tail"] = B(Len(ents')) /\ phdr["tail"] = B(dn)
    <3>1. B(Len(ents')) = EndOf(x)
      BY <1>6, <1>8, SMTT(60)
    <3> QED BY <1>6, <1>7, <2>1, <2>2, <3>1
  <2>6. ASSUME NEW i \in 1..Len(ents')
        PROVE  /\ ents'[i].off = B(i - 1) /\ EndOf(ents'[i]) <= hdr'["tail"]
               /\ EndOf(ents'[i]) <= EndOffset
               /\ i <= dn => EndOf(ents'[i]) <= phdr["tail"]
               /\ Intact(mem, ents'[i]) /\ Intact(pm, ents'[i])
    <3>1. CASE i \in 1..Len(ents)
      BY <2>3, <3>1
    <3>2. CASE i = Len(ents) + 1
      BY <1>6, <1>8, <2>1, <2>4, <3>2, SMTT(60)
    <3> QED BY <1>6, <1>8, <3>1, <3>2
  <2> QED BY <1>6, <1>8, <2>1, <2>5, <2>6, SMTT(60) DEF ChainInv, Bound, history
<1>13. WalkInv'
  BY <1>1, <1>4, <1>6, <1>7, <1>8, SMTT(60) DEF WalkInv, TypeOK
<1>14. AppendInv'
  <2>1. ASSUME NEW q \in Procs, q # p
        PROVE  q \notin Writers /\ pc'[q] \notin Appending
    BY <1>0, <2>1, OnlyAppender, SMTT(60) DEF Appending, TypeOK
  <2>2. pc'[p] = "drainTail" /\ wo'[p] = hdr'["tail"] /\ ent'[p] \in Entries
    BY <1>1, <1>4, <1>7 DEF TypeOK
  <2>3. ents' # <<>>
    BY <1>6, <1>8
  <2> QED BY <1>2, <2>1, <2>2, <2>3 DEF AppendInv, Appending
<1> QED BY <1>9, <1>10, <1>11, <1>12, <1>13, <1>14

LEMMA PersistDrainTailStep ==
  ASSUME IInv, SingleWriter, NEW p \in Procs, PersistDrainTail(p)
  PROVE  IInv'
<1> USE DEF IInv, PersistDrainTail, Goto
<1>0. pc[p] \in Appending /\ pendHdr[p] = {"tail"} /\ listed /\ ents # <<>>
  BY DEF Appending, HeaderInv, LifeInv, Ctor, AppendInv
<1>1. TypeOK'
  BY DEF TypeOK, PcStates, Drain
<1>2. LifeInv'
  BY DEF LifeInv, TypeOK, Ctor
<1>3. /\ phdr'["tail"] = hdr["tail"]
      /\ \A w \in HdrWords \ {"tail"} : phdr'[w] = phdr[w]
      /\ pendHdr' = [pendHdr EXCEPT ![p] = {}]
  BY <1>0 DEF Drain, TypeOK, HdrWords
<1>4. HeaderInv'
  <2>1. \A q \in Procs : pc[q] \notin Ctor
    BY <1>0 DEF LifeInv
  <2>2. HdrOK(phdr') /\ HdrOK(hdr)
    BY <1>0, <1>3 DEF HeaderInv, HdrOK, HdrWords
  <2> QED BY <1>3, <2>1, <2>2, SMTT(60) DEF HeaderInv, TypeOK, HdrOK, Ctor
<1>5. ChainInv'
  <2>1. \A i \in 1..Len(ents) : Intact(pm', ents[i])
    BY DrainKeepsIntact, SMTT(60)
  <2>2. hdr["tail"] = Bound(Len(ents)) /\ acked <= dn /\ dn <= Len(ents)
        /\ dn \in Nat /\ acked \in Nat /\ Len(ents) \in Nat
    BY <1>0 DEF ChainInv, TypeOK
  <2>3. mem' = mem /\ hdr' = hdr /\ ents' = ents /\ dn' = Len(ents) /\ acked' = Len(ents)
    OBVIOUS
  <2> QED BY <1>3, <2>1, <2>2, <2>3 DEF ChainInv, Bound
<1>6. WalkInv'
  BY SMTT(60) DEF WalkInv, TypeOK
<1>7. AppendInv'
  <2>1. ASSUME NEW q \in Procs, q # p
        PROVE  q \notin Writers /\ pc'[q] \notin Appending
    BY <1>0, <2>1, OnlyAppender, SMTT(60) DEF Appending, TypeOK
  <2>2. pc'[p] = "idle" /\ wo'[p] = hdr'["tail"]
    BY <1>0 DEF TypeOK, AppendInv
  <2> QED BY <2>1, <2>2 DEF AppendInv, Appending
<1> QED BY <1>1, <1>2, <1>4, <1>5, <1>6, <1>7

-----------------------------------------------------------------------------
(* A power failure: both copies hold every published entry, so no choice   *)
(* of surviving words can damage one, and the tail that survives is one of *)
(* two entry boundaries.                                                   *)

LEMMA PowerFailStep ==
  ASSUME IInv, PowerFail
  PROVE  IInv'
<1> USE DEF IInv
<1> DEFINE R == [off : Nat, ent : Entries]
<1>1. PICK kept \in SUBSET Offsets, keptHdr \in SUBSET HdrWords :
        /\ mem' = [o \in Offsets |-> IF o \in kept THEN mem[o] ELSE pm[o]]
        /\ hdr' = [w \in HdrWords |-> IF w \in keptHdr THEN hdr[w] ELSE phdr[w]]
  <2>1. PICK kept \in SUBSET {o \in Offsets : mem[o] # pm[o]},
             keptHdr \in SUBSET {w \in HdrWords : hdr[w] # phdr[w]} :
        /\ mem' = [o \in Offsets |-> IF o \in kept THEN mem[o] ELSE pm[o]]
        /\ hdr' = [w \in HdrWords |-> IF w \in keptHdr THEN hdr[w] ELSE phdr[w]]
    BY Zenon DEF PowerFail
  <2>2. kept \in SUBSET Offsets /\ keptHdr \in SUBSET HdrWords
    OBVIOUS
  <2> QED BY <2>1, <2>2
<1>2. /\ pm' = mem' /\ phdr' = hdr' /\ listed' \in {listed, FALSE} /\ file' = file
      /\ pc' = [p \in Procs |-> "down"] /\ pendHdr' = [p \in Procs |-> {}]
      /\ ents' = IF hdr'["tail"] = hdr["tail"] THEN ents ELSE SubSeq(ents, 1, dn)
      /\ dn' = Len(ents') /\ acked' = acked
  BY Zenon DEF PowerFail
<1>3. /\ wo' = [p \in Procs |-> 0] /\ ent' = [p \in Procs |-> NoEntry]
      /\ iov' = [p \in Procs |-> 0] /\ pend' = [p \in Procs |-> {}]
      /\ rtail' = [p \in Procs |-> 0] /\ tmp' = [p \in Procs |-> 0]
  BY DEF PowerFail
<1>4. /\ ents \in Seq(R) /\ Len(ents) \in Nat /\ dn \in Nat /\ dn <= Len(ents)
      /\ acked \in Nat /\ acked <= dn
  BY SMTT(60) DEF TypeOK, ChainInv
<1> HIDE DEF R
<1>5. /\ ents' \in Seq(R) /\ Len(ents') \in Nat /\ Len(ents') <= Len(ents)
      /\ Len(ents') = IF hdr'["tail"] = hdr["tail"] THEN Len(ents) ELSE dn
      /\ \A i \in 1..Len(ents') : ents'[i] = ents[i]
  <2>1. CASE hdr'["tail"] = hdr["tail"]
    BY <1>2, <1>4, <2>1
  <2>2. CASE hdr'["tail"] # hdr["tail"]
    BY <1>2, <1>4, <2>2
  <2> QED BY <2>1, <2>2
<1>6. TypeOK'
  <2>1. mem' \in [Offsets -> Cells] /\ pm' \in [Offsets -> Cells]
    BY <1>1, <1>2 DEF TypeOK
  <2>2. hdr' \in [HdrWords -> Nat] /\ phdr' \in [HdrWords -> Nat]
    BY <1>1, <1>2 DEF TypeOK
  <2>3. file' \in BOOLEAN /\ listed' \in BOOLEAN
    BY <1>2, Zenon DEF TypeOK
  <2>4. pc' \in [Procs -> PcStates]
    BY <1>2 DEF PcStates
  <2>5. /\ wo' \in [Procs -> Nat] /\ iov' \in [Procs -> Nat]
        /\ rtail' \in [Procs -> Nat] /\ tmp' \in [Procs -> Nat]
        /\ ent' \in [Procs -> Entries \cup {NoEntry}]
        /\ pend' \in [Procs -> SUBSET Offsets]
        /\ pendHdr' \in [Procs -> SUBSET HdrWords]
    BY <1>2, <1>3
  <2> QED BY <1>2, <1>4, <1>5, <2>1, <2>2, <2>3, <2>4, <2>5 DEF TypeOK, R
<1>a. listed' => listed
  BY <1>2, Zenon DEF TypeOK
<1>7. LifeInv'
  <2>1. ents = <<>> => ents' = <<>>
    BY <1>4, <1>5
  <2>2. \A p \in Procs : pc'[p] = "down"
    BY <1>2
  <2>3. file' = file
    BY <1>2
  <2> QED BY <1>a, <2>1, <2>2, <2>3 DEF LifeInv, Ctor
<1>8. HeaderInv'
  <2>1. \A p \in Procs : pc'[p] = "down" /\ pendHdr'[p] = {}
    BY <1>2
  <2>2. listed' => HdrOK(hdr')
    BY <1>a, <1>1, SMTT(60) DEF HeaderInv, HdrOK, HdrWords
  <2> QED BY <1>2, <2>1, <2>2 DEF HeaderInv, HdrOK
<1>9. ChainInv'
  <2>1. /\ hdr'["tail"] \in {hdr["tail"], phdr["tail"]}
        /\ hdr["tail"] \in Nat /\ phdr["tail"] \in Nat
    BY <1>1, SMTT(60) DEF TypeOK, HdrWords
  <2>2. ASSUME NEW i \in 1..Len(ents')
        PROVE  /\ ents'[i] = ents[i] /\ i \in 1..Len(ents) /\ EndOf(ents[i]) \in Nat
               /\ ents[i].off = Bound(i - 1) /\ EndOf(ents[i]) <= EndOffset
               /\ EndOf(ents[i]) <= hdr'["tail"] /\ Intact(mem', ents[i])
    <3>1. ents'[i] = ents[i] /\ i \in 1..Len(ents)
      BY <1>4, <1>5, SMTT(60)
    <3>2. /\ ents[i].off \in Nat /\ Size(ents[i].ent) \in Nat /\ EndOf(ents[i]) \in Nat
          /\ ents[i].off..(EndOf(ents[i]) - 1) \subseteq Offsets
      BY <3>1, EntryFacts
    <3>3. /\ ents[i].off = Bound(i - 1) /\ EndOf(ents[i]) <= EndOffset
          /\ EndOf(ents[i]) <= hdr["tail"] /\ (i <= dn => EndOf(ents[i]) <= phdr["tail"])
          /\ Intact(mem, ents[i]) /\ Intact(pm, ents[i])
      BY <3>1 DEF ChainInv
    <3>4. \A o \in ents[i].off..(EndOf(ents[i]) - 1) : mem'[o] = mem[o] \/ mem'[o] = pm[o]
      BY <1>1, <3>2, SMTT(60)
    <3>5. Intact(mem', ents[i])
      BY <3>2, <3>3, <3>4, IntactMixed, SMTT(60)
    <3>6. EndOf(ents[i]) <= hdr'["tail"]
      BY <1>4, <1>5, <2>1, <3>1, <3>3, SMTT(60)
    <3> QED BY <3>1, <3>2, <3>3, <3>5, <3>6
  <2> DEFINE B(n) == IF n = 0 THEN LhdrSize ELSE EndOf(ents'[n])
  <2>3. \A n \in 0..Len(ents') : B(n) = Bound(n)
    BY <1>5 DEF Bound
  <2> HIDE DEF B
  <2>4. listed' \/ ents' # <<>> => hdr'["tail"] = B(Len(ents'))
    <3>1. SUFFICES ASSUME listed' \/ ents' # <<>>
                   PROVE  hdr'["tail"] = B(Len(ents'))
      OBVIOUS
    <3>2. listed \/ ents # <<>>
      <4>1. ents = <<>> => ents' = <<>>
        BY <1>4, <1>5
      <4> QED BY <1>a, <3>1, <4>1
    <3>3. hdr["tail"] = Bound(Len(ents)) /\ phdr["tail"] = Bound(dn)
      BY <3>2 DEF ChainInv
    <3> QED BY <1>4, <1>5, <2>1, <2>3, <3>3
  <2>5. ASSUME NEW i \in 1..Len(ents')
        PROVE  ents'[i].off = B(i - 1)
    <3>1. i - 1 \in 0..Len(ents')
      BY <1>5
    <3> QED BY <2>2, <2>3, <3>1, SMTT(60)
  <2>6. acked' <= dn' /\ dn' <= Len(ents')
    BY <1>2, <1>4, <1>5
  <2>7. phdr'["tail"] = hdr'["tail"] /\ pm' = mem' /\ dn' = Len(ents')
    BY <1>2
  <2>8. ASSUME NEW i \in 1..Len(ents')
        PROVE  /\ ents'[i].off = B(i - 1)
               /\ EndOf(ents'[i]) <= hdr'["tail"] /\ EndOf(ents'[i]) <= EndOffset
               /\ EndOf(ents'[i]) <= phdr'["tail"]
               /\ Intact(mem', ents'[i]) /\ Intact(pm', ents'[i])
    BY <2>2, <2>5, <2>7
  <2>9. listed' \/ ents' # <<>> => /\ hdr'["tail"] = B(Len(ents'))
                                  /\ phdr'["tail"] = B(dn')
    BY <2>4, <2>7, SMTT(60)
  <2> QED BY <2>6, <2>8, <2>9 DEF ChainInv, Bound, B
<1>10. WalkInv' /\ AppendInv'
  BY <1>2 DEF WalkInv, AppendInv, Appending
<1> QED BY <1>6, <1>7, <1>8, <1>9, <1>10

-----------------------------------------------------------------------------
(* The inductive step and the theorems. *)

LEMMA NextIInv ==
  ASSUME SingleWriter, IInv, [Next]_vars
  PROVE  IInv'
<1>1. CASE UNCHANGED vars
  <2> USE <1>1 DEF vars, media, procVars, history
  <2>1. TypeOK'
    BY DEF IInv, TypeOK
  <2>2. LifeInv' /\ HeaderInv'
    BY DEF IInv, LifeInv, HeaderInv, HdrOK
  <2>3. ChainInv'
    BY DEF IInv, ChainInv, Bound
  <2>4. WalkInv'
    BY DEF IInv, WalkInv
  <2>5. AppendInv'
    BY DEF IInv, AppendInv, Written, FlagWritten
  <2> QED BY <2>1, <2>2, <2>3, <2>4, <2>5 DEF IInv
<1>2. CASE PowerFail
  BY <1>2, PowerFailStep
<1>3. ASSUME NEW p \in Procs, Kill(p)
      PROVE  IInv'
  BY <1>3, ForgetStep DEF Kill
<1>4. ASSUME NEW p \in Procs, Step(p)
      PROVE  IInv'
  <2>1. CASE \E e \in Entries : Appendv(p, e) \/ AppendvNoSpace(p, e)
    BY <2>1, AppendvStep, ForgetStep DEF AppendvNoSpace
  <2>2. CASE \/ CtorCreate(p) \/ CtorHeader(p) \/ CtorDrain(p) \/ CtorTouch(p)
             \/ AddLog(p) \/ CtorOpen(p)
    BY <2>2, CtorCreateStep, CtorHeaderStep, CtorDrainStep, CtorTouchStep,
       AddLogStep, CtorOpenStep
  <2>3. CASE \/ CopyIov(p) \/ PersistDrainData(p) \/ PersistFlag(p)
             \/ PersistDrainFlag(p) \/ PersistTail(p) \/ PersistDrainTail(p)
    BY <2>3, CopyIovStep, PersistDrainDataStep, PersistFlagStep,
       PersistDrainFlagStep, PersistTailStep, PersistDrainTailStep
  <2>4. CASE \/ WalkLoadTail(p) \/ WalkLoadHead(p) \/ WalkStop(p) \/ WalkNext(p)
    BY <2>4, WalkSteps
  <2> QED BY <1>4, <2>1, <2>2, <2>3, <2>4 DEF Step
<1> QED BY <1>1, <1>2, <1>3, <1>4 DEF Next

\* The log of one producer keeps its inductive invariant, for every number of
\* consumers, every set of entries and all sizes: the code of Log::Log, appendv,
\* persist and walk under kills and power failures.
THEOREM Invariance == ASSUME SingleWriter PROVE Spec => []IInv
<1>1. Init => IInv
  BY InitIInv
<1>2. IInv /\ [Next]_vars => IInv'
  BY NextIInv
<1> QED BY <1>1, <1>2, PTL DEF Spec

\* Type correctness of the log's state.
THEOREM TypeCorrect == ASSUME SingleWriter PROVE Spec => []TypeOK
<1>1. IInv => TypeOK
  BY DEF IInv
<1> QED BY <1>1, Invariance, PTL

\* Crash consistency of appendv/persist: an append that returned is below the
\* durable tail, and everything below it is whole on the media.
THEOREM Durability == ASSUME SingleWriter PROVE Spec => []DurablePrefix
<1>1. IInv => DurablePrefix
  <2> SUFFICES ASSUME IInv PROVE DurablePrefix
    OBVIOUS
  <2>1. acked <= dn /\ dn <= Len(ents) /\ dn \in Nat /\ Len(ents) \in Nat
    BY DEF IInv, ChainInv, TypeOK
  <2>2. ASSUME NEW i \in 1..dn
        PROVE  EndOf(ents[i]) <= phdr["tail"] /\ Intact(pm, ents[i])
    <3>1. i \in 1..Len(ents) /\ i <= dn
      BY <2>1
    <3> QED BY <3>1 DEF IInv, ChainInv
  <2> QED BY <2>1, <2>2 DEF DurablePrefix
<1> QED BY <1>1, Invariance, PTL

\* Lock-free reading: every place Log::walk visits is the start of an entry that
\* is completely visible.
THEOREM WalkSafety == ASSUME SingleWriter PROVE Spec => []WalkSeesWholeEntries
<1>1. IInv => WalkSeesWholeEntries
  BY DEF IInv, WalkInv, ChainInv, WalkSeesWholeEntries
<1> QED BY <1>1, Invariance, PTL

\* appendv never stores outside the mapping.
THEOREM BoundsSafety == ASSUME SingleWriter PROVE Spec => []AppendInBounds
<1>1. IInv => AppendInBounds
  <2> SUFFICES ASSUME IInv, NEW p \in Procs
               PROVE  /\ pc[p] = "copy" =>
                           wo[p] + (Size(ent[p]) - IovStart(ent[p], iov[p]))
                             + WordLength <= EndOffset
                      /\ pc[p] \in {"drainData", "flag", "drainFlag", "tail"} =>
                           wo[p] + WordLength <= EndOffset
    BY DEF AppendInBounds
  <2>1. CASE pc[p] \in Appending \ {"drainTail"}
    <3>1. /\ hdr["tail"] \in Nat /\ ent[p] \in Entries /\ Size(ent[p]) \in Nat
          /\ hdr["tail"] + Size(ent[p]) + WordLength <= EndOffset
      BY <2>1, AppendRange
    <3>2. CASE pc[p] = "copy"
      <4>1. iov[p] \in 1..Iovcnt(ent[p]) /\ wo[p] = hdr["tail"] + IovStart(ent[p], iov[p])
        BY <3>2 DEF IInv, AppendInv
      <4>2. IovStart(ent[p], iov[p]) \in Nat
        BY <3>1, <4>1, CutFacts
      <4> QED BY <3>1, <3>2, <4>1, <4>2, SizesAssumption
    <3>3. CASE pc[p] # "copy"
      <4>1. pc[p] \in {"drainData", "flag", "drainFlag", "tail"}
        BY <2>1, <3>3 DEF Appending
      <4>2. wo[p] = hdr["tail"] + Size(ent[p])
        BY <4>1 DEF IInv, AppendInv
      <4> QED BY <3>1, <3>3, <4>2
    <3> QED BY <3>2, <3>3
  <2>2. CASE pc[p] \notin Appending \ {"drainTail"}
    BY <2>2 DEF Appending
  <2> QED BY <2>1, <2>2
<1> QED BY <1>1, Invariance, PTL

\* A listed log always passes the header checks of the constructor.
THEOREM OpenSafety == ASSUME SingleWriter PROVE Spec => []ListedLogOpens
<1>1. IInv => ListedLogOpens
  BY DEF IInv, HeaderInv, HdrOK, ListedLogOpens
<1> QED BY <1>1, Invariance, PTL

\* What a step can do to the published, durable and acknowledged entries.
LEMMA HistoryStep ==
  ASSUME IInv, [Next]_vars
  PROVE  \/ UNCHANGED <<ents, dn, acked>>
         \/ \E x \in [off : Nat, ent : Entries] :
              ents' = Append(ents, x) /\ UNCHANGED <<dn, acked>>
         \/ ents' = ents /\ dn' = Len(ents) /\ acked' = Len(ents)
         \/ /\ ents' = ents \/ ents' = SubSeq(ents, 1, dn)
            /\ dn' = Len(ents') /\ acked' = acked
<1>1. CASE UNCHANGED vars
  BY <1>1 DEF vars, history
<1>2. CASE PowerFail
  <2>1. /\ ents' = IF hdr'["tail"] = hdr["tail"] THEN ents ELSE SubSeq(ents, 1, dn)
        /\ dn' = Len(ents') /\ acked' = acked
    BY <1>2, Zenon DEF PowerFail
  <2> QED BY <2>1, Zenon
<1>3. ASSUME NEW p \in Procs, Kill(p)
      PROVE  UNCHANGED <<ents, dn, acked>>
  BY <1>3 DEF Kill, history
<1>4. ASSUME NEW p \in Procs, PersistTail(p)
      PROVE  \E x \in [off : Nat, ent : Entries] :
               ents' = Append(ents, x) /\ UNCHANGED <<dn, acked>>
  <2> DEFINE x == [off |-> wo[p] - Size(ent[p]), ent |-> ent[p]]
  <2>1. /\ hdr["tail"] \in Nat /\ ent[p] \in Entries /\ Size(ent[p]) \in Nat
        /\ wo[p] = hdr["tail"] + Size(ent[p])
    BY <1>4, AppendRange DEF PersistTail, IInv, AppendInv, Appending
  <2>2. wo[p] - Size(ent[p]) \in Nat
    BY <2>1
  <2>3. x \in [off : Nat, ent : Entries]
    BY <2>1, <2>2
  <2>4. ents' = Append(ents, x) /\ UNCHANGED <<dn, acked>>
    BY <1>4 DEF PersistTail
  <2> HIDE DEF x
  <2> QED BY <2>3, <2>4, Zenon
<1>5. ASSUME NEW p \in Procs, PersistDrainTail(p)
      PROVE  ents' = ents /\ dn' = Len(ents) /\ acked' = Len(ents)
  BY <1>5 DEF PersistDrainTail
<1>6. ASSUME NEW p \in Procs, Step(p), ~PersistTail(p), ~PersistDrainTail(p)
      PROVE  UNCHANGED <<ents, dn, acked>>
  BY <1>6, Zenon DEF Step, CtorCreate, CtorHeader, CtorDrain, CtorTouch, AddLog, CtorOpen,
     Appendv, AppendvNoSpace, CopyIov, PersistDrainData, PersistFlag, PersistDrainFlag,
     WalkLoadTail, WalkLoadHead, WalkStop, WalkNext, history
<1> QED BY <1>1, <1>2, <1>3, <1>4, <1>5, <1>6, Zenon DEF Next

\* No step, crash and recovery included, changes the acknowledged prefix.
THEOREM AckedSafety == ASSUME SingleWriter PROVE Spec => AckedForever
<1> DEFINE A == /\ acked' >= acked
                /\ \A i \in 1..acked : i <= Len(ents') /\ ents'[i] = ents[i]
<1>1. ASSUME IInv, [Next]_vars PROVE A
  <2> DEFINE R == [off : Nat, ent : Entries]
  <2>1. /\ ents \in Seq(R) /\ Len(ents) \in Nat /\ dn \in Nat /\ dn <= Len(ents)
        /\ acked \in Nat /\ acked <= dn
    BY <1>1 DEF IInv, TypeOK, ChainInv
  <2>2. \/ ents' = ents /\ acked' = acked
        \/ \E x \in R : ents' = Append(ents, x) /\ acked' = acked
        \/ ents' = ents /\ acked' = Len(ents)
        \/ ents' = SubSeq(ents, 1, dn) /\ acked' = acked
    BY <1>1, HistoryStep
  <2> HIDE DEF R
  <2> QED BY <2>1, <2>2, SMTT(60)
<1> QED BY <1>1, Invariance, PTL DEF AckedForever, Spec

\* With one producer, what was acknowledged also stays whole in memory.
THEOREM ReadableSafety == ASSUME SingleWriter PROVE Spec => []AckedReadable
<1>1. IInv => AckedReadable
  <2> SUFFICES ASSUME IInv, NEW i \in 1..acked
               PROVE  Intact(mem, ents[i])
    BY DEF AckedReadable
  <2>1. acked <= dn /\ dn <= Len(ents) /\ acked \in Nat /\ dn \in Nat /\ Len(ents) \in Nat
    BY DEF IInv, ChainInv, TypeOK
  <2>2. i \in 1..Len(ents)
    BY <2>1
  <2> QED BY <2>2 DEF IInv, ChainInv
<1> QED BY <1>1, Invariance, PTL

-----------------------------------------------------------------------------
(* The refinement of AtomicLog.  First what a parse reads. *)

\* g is the entries from each offset on, right for the offsets from to - n on.
Parses(m, to, n, g) ==
  /\ DOMAIN g = Nat
  /\ \A o \in Nat : o + n >= to =>
       g[o] = IF o >= to THEN <<>> ELSE <<m[o].ent>> \o g[NextEntry(m, o)]

LEMMA NextEntryFact ==
  ASSUME NEW m, NEW o \in Nat
  PROVE  NextEntry(m, o) \in Nat /\ o < NextEntry(m, o)
<1> DEFINE n == CHOOSE l \in LenAt(m, o) : TRUE
<1>1. \A e \in Entries : HdrLen(e) \in Nat
  BY CutFacts, SizesAssumption DEF HdrLen
<1>2. LenAt(m, o) \subseteq Nat /\ LenAt(m, o) # {}
  <2>1. MappedLen \in Nat /\ 0 \in 0..MappedLen
    BY SizesAssumption
  <2> QED BY <1>1, <2>1 DEF LenAt
<1>3. n \in LenAt(m, o)
  BY <1>2
<1>4. n \in Nat
  BY <1>2, <1>3
<1>5. NextEntry(m, o) = o + LehdrSize + n + WordLength
  BY DEF NextEntry
<1> HIDE DEF n
<1> QED BY <1>4, <1>5, SizesAssumption

LEMMA ParseExists ==
  ASSUME NEW m, NEW to \in Nat
  PROVE  \A n \in Nat : \E g : Parses(m, to, n, g)
<1> DEFINE Bad == {n \in Nat : ~ \E g : Parses(m, to, n, g)}
<1>1. ASSUME Bad # {} PROVE FALSE
  <2>1. PICK n \in Bad : \A k \in Bad : ~ (<<k, n>> \in OpToRel(<, Nat))
    <3>1. Bad \subseteq Nat
      OBVIOUS
    <3> HIDE DEF Bad
    <3> QED BY <1>1, <3>1, WFMin, NatLessThanWellFounded, Zenon
  <2>2. CASE n = 0
    <3> DEFINE g == [o \in Nat |-> <<>>]
    <3>1. Parses(m, to, 0, g)
      BY DEF Parses
    <3> HIDE DEF g
    <3> QED BY <2>1, <2>2, <3>1
  <2>3. CASE n # 0
    <3>1. n - 1 \in Nat /\ n \in Nat
      BY <2>3
    <3>2. n - 1 \notin Bad
      <4>1. /\ <<n - 1, n>> \in Nat \X Nat /\ <<n - 1, n>>[1] = n - 1 /\ <<n - 1, n>>[2] = n
            /\ n - 1 < n
        BY <3>1
      <4> HIDE DEF Bad
      <4> QED BY <2>1, <4>1, Zenon DEF OpToRel
    <3>3. PICK g : Parses(m, to, n - 1, g)
      BY <3>1, <3>2
    <3> DEFINE h == [o \in Nat |-> IF o >= to THEN <<>> ELSE <<m[o].ent>> \o g[NextEntry(m, o)]]
    <3>4. ASSUME NEW o \in Nat, o + n >= to
          PROVE  h[o] = IF o >= to THEN <<>> ELSE <<m[o].ent>> \o h[NextEntry(m, o)]
      <4> DEFINE x == NextEntry(m, o)
      <4>1. x \in Nat /\ o < x
        BY NextEntryFact
      <4>2. x + (n - 1) >= to
        <5> HIDE DEF x
        <5> QED BY <3>1, <3>4, <4>1
      <4>3. h[x] = g[x]
        <5> HIDE DEF x
        <5> QED BY <3>3, <4>1, <4>2, Zenon DEF Parses
      <4> QED BY <4>3, Zenon
    <3>5. DOMAIN h = Nat
      OBVIOUS
    <3> HIDE DEF h
    <3>6. Parses(m, to, n, h)
      BY <3>4, <3>5, Zenon DEF Parses
    <3> QED BY <2>1, <3>6
  <2> QED BY <2>2, <2>3
<1> QED BY <1>1

Reads(m, to, g) ==
  \A o \in Nat : g[o] = IF o >= to THEN <<>> ELSE <<m[o].ent>> \o g[NextEntry(m, o)]

LEMMA ParseFact ==
  ASSUME NEW m, NEW to \in Nat, NEW from \in Nat
  PROVE  \E g : Reads(m, to, g) /\ Parse(m, from, to) = IF from = 0 THEN <<>> ELSE g[from]
<1> DEFINE Body(g) == [o \in Nat |-> IF o >= to THEN <<>>
                                     ELSE <<m[o].ent>> \o g[NextEntry(m, o)]]
           f == CHOOSE g : g = Body(g)
<1>1. PICK h : Parses(m, to, to, h)
  BY ParseExists
<1> DEFINE k == [o \in Nat |-> h[o]]
<1>2. \A o \in Nat : h[o] = IF o >= to THEN <<>> ELSE <<m[o].ent>> \o h[NextEntry(m, o)]
  <2>1. \A o \in Nat : o + to >= to
    OBVIOUS
  <2> QED BY <1>1, <2>1, Zenon DEF Parses
<1>3. \A o \in Nat : k[NextEntry(m, o)] = h[NextEntry(m, o)]
  BY NextEntryFact
<1>4. k = Body(k)
  BY <1>2, <1>3, Zenon
<1>5. f = Body(f)
  <2> HIDE DEF k
  <2> QED BY <1>4, Zenon
<1>6. Parse(m, from, to) = IF from = 0 THEN <<>> ELSE f[from]
  BY Zenon DEF Parse
<1> HIDE DEF f
<1>7. \A o \in Nat : f[o] = Body(f)[o]
  BY <1>5, Zenon
<1>8. \A o \in Nat : f[o] = IF o >= to THEN <<>> ELSE <<m[o].ent>> \o f[NextEntry(m, o)]
  BY <1>7, Zenon
<1> QED BY <1>6, <1>8, Zenon DEF Reads

LEMMA ConsFact ==
  ASSUME NEW S, NEW s \in Seq(S), NEW t \in Seq(S), Len(t) = Len(s) + 1,
         \A i \in 1..Len(s) : t[i + 1] = s[i]
  PROVE  <<t[1]>> \o s = t
OBVIOUS

\* The payloads of the entries after the first k, up to the n-th.
Payloads(k, n) == [i \in 1..(n - k) |-> ents[k + i].ent]

LEMMA PayloadFacts ==
  ASSUME IInv, NEW n \in 0..Len(ents), NEW k \in 0..n
  PROVE  /\ Payloads(k, n) \in Seq(Entries) /\ Len(Payloads(k, n)) = n - k
         /\ \A i \in 1..(n - k) : Payloads(k, n)[i] = ents[k + i].ent
<1>1. Len(ents) \in Nat
  BY DEF IInv, TypeOK
<1>2. n - k \in Nat /\ \A i \in 1..(n - k) : k + i \in 1..Len(ents)
  BY <1>1
<1>3. \A i \in 1..(n - k) : ents[k + i].ent \in Entries
  BY <1>2, EntryFacts
<1> QED BY <1>2, <1>3 DEF Payloads

LEMMA PayloadCons ==
  ASSUME IInv, NEW n \in 0..Len(ents), NEW k \in 0..n, k < n
  PROVE  Payloads(k, n) = <<ents[k + 1].ent>> \o Payloads(k + 1, n)
<1>0. Len(ents) \in Nat /\ n \in Nat /\ k \in Nat
  BY DEF IInv, TypeOK
<1>1. k + 1 \in 0..n /\ 1 \in 1..(n - k)
  BY <1>0
<1> DEFINE t == Payloads(k, n)
           s == Payloads(k + 1, n)
<1>2. /\ t \in Seq(Entries) /\ Len(t) = n - k
      /\ \A i \in 1..(n - k) : t[i] = ents[k + i].ent
  BY PayloadFacts
<1>3. /\ s \in Seq(Entries) /\ Len(s) = n - (k + 1)
      /\ \A i \in 1..(n - (k + 1)) : s[i] = ents[(k + 1) + i].ent
  BY <1>1, PayloadFacts
<1> HIDE DEF s, t
<1>4. Len(t) = Len(s) + 1 /\ t[1] = ents[k + 1].ent
  BY <1>0, <1>1, <1>2, <1>3
<1>5. \A i \in 1..Len(s) : t[i + 1] = s[i]
  <2> SUFFICES ASSUME NEW i \in 1..Len(s) PROVE t[i + 1] = s[i]
    OBVIOUS
  <2>1. i + 1 \in 1..(n - k) /\ k + (i + 1) = (k + 1) + i /\ i \in 1..(n - (k + 1))
    BY <1>0, <1>3
  <2>2. t[i + 1] = ents[k + (i + 1)].ent
    BY <1>2, <2>1, Zenon
  <2> QED BY <1>3, <2>1, <2>2, Zenon
<1>6. <<t[1]>> \o s = t
  BY <1>2, <1>3, <1>4, <1>5, ConsFact
<1> QED BY <1>4, <1>6 DEF s, t

\* Entries that are whole in m and end below the n-th bound are what walk reads.
LEMMA ParseEntries ==
  ASSUME IInv, NEW m, NEW n \in 0..Len(ents),
         \A i \in 1..n : Intact(m, ents[i]) /\ EndOf(ents[i]) <= Bound(n)
  PROVE  Parse(m, LhdrSize, Bound(n)) = Payloads(0, n)
<1>0. Len(ents) \in Nat /\ n \in Nat /\ LhdrSize \in Nat \ {0} /\ n <= Len(ents)
  BY SizesAssumption DEF IInv, TypeOK
<1>1. \A k \in 0..n : Bound(k) \in Nat
  <2> SUFFICES ASSUME NEW k \in 0..n PROVE Bound(k) \in Nat
    OBVIOUS
  <2>1. k = 0 \/ k \in 1..Len(ents)
    BY <1>0
  <2> QED BY <1>0, <2>1, EntryFacts DEF Bound
<1> DEFINE to == Bound(n)
<1>2. to \in Nat
  BY <1>0, <1>1
<1>3. PICK g : /\ Reads(m, to, g)
               /\ Parse(m, LhdrSize, to) = IF LhdrSize = 0 THEN <<>> ELSE g[LhdrSize]
  BY <1>0, <1>2, ParseFact, Zenon
<1>4. ASSUME NEW k \in 0..n, k < n
      PROVE  /\ Bound(k) \in Nat /\ ~(Bound(k) >= to)
             /\ m[Bound(k)].ent = ents[k + 1].ent
             /\ NextEntry(m, Bound(k)) = Bound(k + 1)
  <2> DEFINE i == k + 1
             o == ents[i].off
             e == ents[i].ent
  <2>1. i \in 1..n /\ i \in 1..Len(ents) /\ i - 1 = k /\ i # 0
    BY <1>0, <1>4
  <2>2. /\ o \in Nat /\ e \in Entries /\ Size(e) \in Nat /\ LehdrSize <= Size(e)
        /\ EndOf(ents[i]) \in Nat /\ o..(EndOf(ents[i]) - 1) \subseteq Offsets
    BY <2>1, EntryFacts
  <2>3. o = Bound(k)
    BY <2>1 DEF IInv, ChainInv
  <2>4. EndOf(ents[i]) = o + Size(e) + WordLength /\ EndOf(ents[i]) <= to
        /\ Bound(i) = EndOf(ents[i])
    BY <2>1 DEF EndOf, Bound
  <2> DEFINE z == EndOf(ents[i])
             s == Size(e)
  <2>5. o < z /\ o \in o..(z - 1) /\ 0 \in 0..(s - 1)
    <3>1. o \in Nat /\ s \in Nat /\ LehdrSize <= s /\ z \in Nat /\ z = o + s + WordLength
      BY <2>2, <2>4
    <3> HIDE DEF o, s, z
    <3> QED BY <3>1, SizesAssumption
  <2>6. m[o] = [ent |-> e, pos |-> 0]
    <3>1. m[o + 0] = [ent |-> e, pos |-> 0]
      BY <2>1, <2>5, Zenon DEF Intact
    <3>2. o + 0 = o
      BY <2>2
    <3> QED BY <3>1, <3>2
  <2>7. LenAt(m, o) = {HdrLen(e)}
    BY <2>2, <2>5, <2>6 DEF LenAt
  <2>8. NextEntry(m, o) = z
    <3>1. (CHOOSE l \in LenAt(m, o) : TRUE) = HdrLen(e)
      BY <2>7
    <3>2. NextEntry(m, o) = o + LehdrSize + HdrLen(e) + WordLength
      BY <3>1 DEF NextEntry
    <3>3. HdrLen(e) = s - LehdrSize
      BY DEF HdrLen
    <3>4. z = o + s + WordLength
      BY <2>4
    <3> HIDE DEF o, e, s, z
    <3> QED BY <2>2, <3>2, <3>3, <3>4, SizesAssumption DEF o, e, s
  <2>9. ~(o >= to) /\ m[o].ent = e
    <3>1. z \in Nat /\ z <= to /\ o < z /\ o \in Nat
      BY <2>2, <2>4, <2>5
    <3>2. ~(o >= to)
      <4> HIDE DEF z, o, to
      <4> QED BY <1>2, <3>1
    <3> QED BY <2>6, <3>2
  <2> QED BY <2>2, <2>3, <2>4, <2>8, <2>9, Zenon
<1> DEFINE Bad == {j \in Nat : j <= n /\ g[Bound(n - j)] # Payloads(n - j, n)}
<1>5. ASSUME Bad # {} PROVE FALSE
  <2>1. PICK j \in Bad : \A l \in Bad : ~ (<<l, j>> \in OpToRel(<, Nat))
    <3>1. Bad \subseteq Nat
      OBVIOUS
    <3> HIDE DEF Bad
    <3> QED BY <1>5, <3>1, WFMin, NatLessThanWellFounded, Zenon
  <2>2. j \in Nat /\ j <= n /\ g[Bound(n - j)] # Payloads(n - j, n)
    BY <2>1
  <2>3. CASE j = 0
    <3>1. n - j = n
      BY <1>0, <2>3
    <3>2. g[to] = <<>>
      <4>1. to >= to
        BY <1>2
      <4> QED BY <1>2, <1>3, <4>1, Zenon DEF Reads
    <3>3. Payloads(n, n) = <<>>
      BY <1>0 DEF Payloads
    <3> QED BY <2>2, <3>1, <3>2, <3>3, Zenon
  <2>4. CASE j # 0
    <3> DEFINE k == n - j
    <3>1. j - 1 \in Nat /\ j - 1 <= n /\ k \in 0..n /\ k < n /\ n - (j - 1) = k + 1
      BY <1>0, <2>2, <2>4
    <3>2. j - 1 \notin Bad
      <4>1. /\ <<j - 1, j>> \in Nat \X Nat /\ <<j - 1, j>>[1] = j - 1 /\ <<j - 1, j>>[2] = j
            /\ j - 1 < j
        BY <2>2, <3>1
      <4> HIDE DEF Bad
      <4> QED BY <2>1, <4>1, Zenon DEF OpToRel
    <3>3. g[Bound(n - (j - 1))] = Payloads(n - (j - 1), n)
      BY <3>1, <3>2, Zenon
    <3>4. g[Bound(k + 1)] = Payloads(k + 1, n)
      BY <3>1, <3>3, Zenon
    <3> HIDE DEF k, to
    <3>5. g[Bound(k)] = <<m[Bound(k)].ent>> \o g[NextEntry(m, Bound(k))]
      BY <1>3, <1>4, <3>1, Zenon DEF Reads
    <3>6. g[Bound(k)] = <<ents[k + 1].ent>> \o Payloads(k + 1, n)
      BY <1>4, <3>1, <3>4, <3>5, Zenon
    <3>7. g[Bound(k)] = Payloads(k, n)
      BY <3>1, <3>6, PayloadCons, Zenon
    <3> QED BY <2>2, <3>7 DEF k
  <2> QED BY <2>3, <2>4
<1>6. g[Bound(0)] = Payloads(0, n)
  <2>1. n \notin Bad
    BY <1>5
  <2>2. n - n = 0 /\ n <= n
    BY <1>0
  <2> QED BY <1>0, <2>1, <2>2, Zenon
<1>7. Bound(0) = LhdrSize /\ LhdrSize # 0
  BY <1>0 DEF Bound
<1> QED BY <1>3, <1>6, <1>7


LEMMA ParseNothing ==
  ASSUME NEW m, NEW from \in Nat, NEW to \in Nat, from = 0 \/ from >= to
  PROVE  Parse(m, from, to) = <<>>
<1>1. PICK g : Reads(m, to, g) /\ Parse(m, from, to) = IF from = 0 THEN <<>> ELSE g[from]
  BY ParseFact
<1> QED BY <1>1, Zenon DEF Reads

\* The bytes of the log, visible and durable, are the published and the durable
\* entries.
LEMMA ParsedLogs ==
  ASSUME IInv, HeadInv
  PROVE  /\ Parse(mem, hdr["head"], hdr["tail"]) = Payloads(0, Len(ents))
         /\ Parse(pm, phdr["head"], phdr["tail"]) = Payloads(0, dn)
<1>1. /\ Len(ents) \in Nat /\ dn \in Nat /\ dn <= Len(ents) /\ LhdrSize \in Nat \ {0}
      /\ hdr["head"] \in Nat /\ hdr["tail"] \in Nat
      /\ phdr["head"] \in Nat /\ phdr["tail"] \in Nat
  BY SizesAssumption DEF IInv, TypeOK, ChainInv, HdrWords
<1>2. CASE ents # <<>>
  <2>1. /\ hdr["head"] = LhdrSize /\ phdr["head"] = LhdrSize
        /\ hdr["tail"] = Bound(Len(ents)) /\ phdr["tail"] = Bound(dn)
    BY <1>2, Zenon DEF HeadInv, IInv, ChainInv
  <2>2. \A i \in 1..Len(ents) : Intact(mem, ents[i]) /\ EndOf(ents[i]) <= Bound(Len(ents))
    BY <2>1, Zenon DEF IInv, ChainInv
  <2>3. \A i \in 1..dn : Intact(pm, ents[i]) /\ EndOf(ents[i]) <= Bound(dn)
    <3> SUFFICES ASSUME NEW i \in 1..dn
                 PROVE  Intact(pm, ents[i]) /\ EndOf(ents[i]) <= Bound(dn)
      OBVIOUS
    <3>1. i \in 1..Len(ents) /\ i <= dn
      BY <1>1
    <3> QED BY <2>1, <3>1, Zenon DEF IInv, ChainInv
  <2>4. Len(ents) \in 0..Len(ents) /\ dn \in 0..Len(ents)
    BY <1>1
  <2> QED BY <2>1, <2>2, <2>3, <2>4, ParseEntries
<1>3. CASE ents = <<>>
  <2>1. Len(ents) = 0 /\ dn = 0
    BY <1>1, <1>3
  <2>2. Payloads(0, 0) = <<>>
    BY DEF Payloads
  <2>3. /\ hdr["head"] = 0 \/ hdr["head"] >= hdr["tail"]
        /\ phdr["head"] = 0 \/ phdr["head"] >= phdr["tail"]
    BY <1>1, <1>3 DEF HeadInv
  <2> QED BY <1>1, <2>1, <2>2, <2>3, ParseNothing
<1> QED BY <1>2, <1>3

-----------------------------------------------------------------------------
(* The header words. *)

LEMMA MixedHeads ==
  ASSUME HeadInv, ents' = ents,
         \A w \in {"head", "tail"} :
           hdr'[w] \in {hdr[w], phdr[w]} /\ phdr'[w] \in {hdr[w], phdr[w]}
  PROVE  HeadInv'
BY DEF HeadInv

LEMMA DrainHeads ==
  ASSUME HeadInv, IInv, NEW p \in Procs, Drain(p), hdr' = hdr, ents' = ents
  PROVE  HeadInv'
<1>1. \A w \in {"head", "tail"} : phdr'[w] \in {hdr[w], phdr[w]}
  BY DEF Drain, HdrWords
<1> QED BY <1>1, MixedHeads

LEMMA HeadStep ==
  ASSUME IInv, HeadInv, [Next]_vars
  PROVE  HeadInv'
<1>0. ASSUME UNCHANGED <<hdr, phdr, ents>> PROVE HeadInv'
  BY <1>0, Zenon DEF HeadInv
<1>1. CASE UNCHANGED vars
  BY <1>0, <1>1 DEF vars, media, history
<1>2. CASE PowerFail
  <2>1. /\ \A w \in {"head", "tail"} : hdr'[w] \in {hdr[w], phdr[w]} /\ phdr' = hdr'
        /\ ents' = IF hdr'["tail"] = hdr["tail"] THEN ents ELSE SubSeq(ents, 1, dn)
    <3>1. PICK keptHdr \in SUBSET {w \in HdrWords : hdr[w] # phdr[w]} :
            /\ hdr' = [w \in HdrWords |-> IF w \in keptHdr THEN hdr[w] ELSE phdr[w]]
            /\ phdr' = hdr'
      BY <1>2, Zenon DEF PowerFail
    <3>2. \A w \in {"head", "tail"} : hdr'[w] \in {hdr[w], phdr[w]}
      BY <3>1 DEF HdrWords
    <3>3. ents' = IF hdr'["tail"] = hdr["tail"] THEN ents ELSE SubSeq(ents, 1, dn)
      BY <1>2, Zenon DEF PowerFail
    <3> QED BY <3>1, <3>2, <3>3
  <2>2. CASE ents' = ents
    BY <2>1, <2>2, MixedHeads
  <2>3. CASE ents' # ents
    <3>1. ents' = SubSeq(ents, 1, dn) /\ hdr'["tail"] = phdr["tail"]
      BY <2>1, <2>3
    <3> DEFINE R == [off : Nat, ent : Entries]
    <3>2. ents \in Seq(R) /\ dn \in Nat /\ dn <= Len(ents)
      BY DEF IInv, TypeOK, ChainInv
    <3>3. ents # <<>>
      <4> HIDE DEF R
      <4> QED BY <2>3, <3>1, <3>2
    <3>4. hdr'["head"] = LhdrSize /\ phdr' = hdr'
      BY <2>1, <3>3 DEF HeadInv
    <3>5. ents' = <<>> => hdr'["tail"] = LhdrSize
      <4>1. ents' = <<>> => dn = 0
        <5> HIDE DEF R
        <5> QED BY <3>1, <3>2
      <4>2. phdr["tail"] = Bound(dn)
        BY <3>3, Zenon DEF IInv, ChainInv
      <4> QED BY <3>1, <4>1, <4>2, Zenon DEF Bound
    <3> QED BY <3>4, <3>5, Zenon DEF HeadInv
  <2> QED BY <2>2, <2>3
<1>3. ASSUME NEW p \in Procs, Kill(p)
      PROVE  HeadInv'
  BY <1>0, <1>3 DEF Kill, media, history
<1>4. ASSUME NEW p \in Procs, PersistTail(p)
      PROVE  HeadInv'
  <2>1. hdr["head"] = LhdrSize /\ phdr["head"] = LhdrSize
    <3>1. pc[p] = "tail"
      BY <1>4 DEF PersistTail
    <3>2. listed
      BY <3>1 DEF IInv, LifeInv, Ctor
    <3> QED BY <3>2 DEF IInv, HeaderInv, HdrOK
  <2>2. hdr'["head"] = hdr["head"] /\ phdr' = phdr
    BY <1>4 DEF PersistTail, IInv, TypeOK, HdrWords
  <2>3. ents' # <<>>
    <3> DEFINE R == [off : Nat, ent : Entries]
               x == [off |-> wo[p] - Size(ent[p]), ent |-> ent[p]]
    <3>1. ents \in Seq(R) /\ ents' = Append(ents, x)
      BY <1>4 DEF PersistTail, IInv, TypeOK
    <3> HIDE DEF R, x
    <3> QED BY <3>1
  <2> QED BY <2>1, <2>2, <2>3, Zenon DEF HeadInv
<1>5. ASSUME NEW p \in Procs, CtorHeader(p)
      PROVE  HeadInv'
  <2>1. pc[p] = "ctor" /\ UNCHANGED <<phdr, ents>>
    BY <1>5 DEF CtorHeader, history
  <2>2. ents = <<>>
    BY <2>1 DEF IInv, LifeInv, Ctor
  <2>3. hdr'["head"] = LhdrSize /\ hdr'["tail"] = LhdrSize
    BY <1>5 DEF CtorHeader, HdrWords
  <2> QED BY <2>1, <2>2, <2>3, Zenon DEF HeadInv
<1>6. ASSUME NEW p \in Procs, \/ CtorDrain(p) \/ PersistDrainData(p) \/ PersistDrainFlag(p)
                              \/ PersistDrainTail(p)
      PROVE  HeadInv'
  <2>1. Drain(p) /\ hdr' = hdr /\ ents' = ents
    BY <1>6, Zenon DEF CtorDrain, PersistDrainData, PersistDrainFlag, PersistDrainTail, history
  <2> QED BY <2>1, DrainHeads
<1>7. ASSUME NEW p \in Procs, Step(p), ~PersistTail(p), ~CtorHeader(p), ~CtorDrain(p),
             ~PersistDrainData(p), ~PersistDrainFlag(p), ~PersistDrainTail(p)
      PROVE  HeadInv'
  <2>1. UNCHANGED <<hdr, phdr, ents>>
    BY <1>7, Zenon DEF Step, CtorCreate, CtorTouch, AddLog, CtorOpen, Appendv, AppendvNoSpace,
       CopyIov, PersistFlag, WalkLoadTail, WalkLoadHead, WalkStop, WalkNext, media, history
  <2> QED BY <1>0, <2>1
<1> QED BY <1>1, <1>2, <1>3, <1>4, <1>5, <1>6, <1>7, Zenon DEF Next

-----------------------------------------------------------------------------
(* The abstract steps. *)

EntriesOf(s, n) == [i \in 1..n |-> s[i].ent]

LEMMA EntriesAppend ==
  ASSUME NEW S, NEW s \in Seq(S), NEW x \in S
  PROVE  /\ EntriesOf(Append(s, x), Len(s) + 1) = Append(EntriesOf(s, Len(s)), x.ent)
         /\ \A n \in 0..Len(s) : EntriesOf(Append(s, x), n) = EntriesOf(s, n)
<1>1. /\ Append(s, x)[Len(s) + 1] = x /\ Len(s) \in Nat
      /\ \A i \in 1..Len(s) : Append(s, x)[i] = s[i]
  OBVIOUS
<1> DEFINE t == Append(s, x)
           n == Len(s)
<1>2. t[n + 1] = x /\ n \in Nat /\ \A i \in 1..n : t[i] = s[i]
  BY <1>1
<1> HIDE DEF t, n
<1>3. \A m \in 0..n : EntriesOf(t, m) = EntriesOf(s, m)
  BY <1>2 DEF EntriesOf
<1>4. EntriesOf(t, n + 1) = Append(EntriesOf(s, n), x.ent)
  <2> DEFINE T == {s[i].ent : i \in 1..n} \cup {x.ent}
             a == EntriesOf(t, n + 1)
             b == EntriesOf(s, n)
  <2>1. /\ b \in Seq(T) /\ Len(b) = n /\ x.ent \in T /\ \A i \in 1..n : b[i] = s[i].ent
    BY <1>2 DEF EntriesOf
  <2>2. /\ a \in Seq(T) /\ Len(a) = n + 1 /\ a[n + 1] = x.ent
        /\ \A i \in 1..n : a[i] = s[i].ent
    BY <1>2 DEF EntriesOf
  <2> HIDE DEF T, a, b
  <2>3. a = Append(b, x.ent)
    BY <1>2, <2>1, <2>2
  <2> QED BY <2>3 DEF a, b
<1> QED BY <1>3, <1>4 DEF t, n

LEMMA EntriesCut ==
  ASSUME NEW S, NEW s \in Seq(S), NEW n \in 0..Len(s)
  PROVE  Len(SubSeq(s, 1, n)) = n /\ EntriesOf(SubSeq(s, 1, n), n) = EntriesOf(s, n)
<1>1. Len(SubSeq(s, 1, n)) = n /\ \A i \in 1..n : SubSeq(s, 1, n)[i] = s[i]
  OBVIOUS
<1> QED BY <1>1, Zenon DEF EntriesOf

LEMMA AbstractStep ==
  ASSUME IInv, [Next]_vars,
         NEW v, NEW d, NEW w, NEW e,
         v = EntriesOf(ents, Len(ents)), d = EntriesOf(ents, dn),
         w = EntriesOf(ents', Len(ents')), e = EntriesOf(ents', dn')
  PROVE  \/ w = v /\ e = d /\ acked' = acked
         \/ \E x \in Entries : w = Append(v, x) /\ e = d /\ acked' = acked
         \/ e = v /\ w = v /\ acked' = Len(v)
         \/ (e = v \/ e = d) /\ w = e /\ acked' = acked
<1> DEFINE R == [off : Nat, ent : Entries]
<1>1. ents \in Seq(R) /\ Len(ents) \in Nat /\ dn \in 0..Len(ents)
  BY DEF IInv, TypeOK, ChainInv
<1>2. \A x \in R : x.ent \in Entries
  OBVIOUS
<1>3. CASE UNCHANGED <<ents, dn, acked>>
  BY <1>3
<1>4. ASSUME NEW x \in R, ents' = Append(ents, x), UNCHANGED <<dn, acked>>
      PROVE  w = Append(v, x.ent) /\ e = d /\ acked' = acked
  <2> HIDE DEF R
  <2>1. Len(ents') = Len(ents) + 1
    BY <1>1, <1>4
  <2> QED BY <1>1, <1>4, <2>1, EntriesAppend
<1>5. CASE ents' = ents /\ dn' = Len(ents) /\ acked' = Len(ents)
  <2>1. Len(v) = Len(ents)
    BY <1>1 DEF EntriesOf
  <2> QED BY <1>5, <2>1
<1>6. CASE /\ ents' = ents \/ ents' = SubSeq(ents, 1, dn)
           /\ dn' = Len(ents') /\ acked' = acked
  <2> HIDE DEF R
  <2>1. CASE ents' = ents
    BY <1>6, <2>1
  <2>2. CASE ents' = SubSeq(ents, 1, dn)
    <3>1. Len(ents') = dn /\ EntriesOf(ents', dn) = d
      BY <1>1, <2>2, EntriesCut
    <3> QED BY <1>6, <3>1
  <2> QED BY <1>6, <2>1, <2>2
<1>7. \/ UNCHANGED <<ents, dn, acked>>
      \/ \E x \in R : ents' = Append(ents, x) /\ UNCHANGED <<dn, acked>>
      \/ ents' = ents /\ dn' = Len(ents) /\ acked' = Len(ents)
      \/ /\ ents' = ents \/ ents' = SubSeq(ents, 1, dn)
         /\ dn' = Len(ents') /\ acked' = acked
  BY HistoryStep
<1> HIDE DEF R
<1> QED BY <1>2, <1>3, <1>4, <1>5, <1>6, <1>7, Zenon

\* The log of one producer implements AtomicLog: a step of the code publishes one
\* entry, makes all entries durable and acknowledges them, recovers one of the two
\* sequences, or changes nothing a reader or a restart could see.
THEOREM LogRefinement == ASSUME SingleWriter PROVE Spec => ImplementsAtomicLog
<1>1. Init => HeadInv
  BY DEF Init, HeadInv, HdrWords
<1>2. Init => Promise!AInit
  <2> SUFFICES ASSUME Init PROVE Promise!AInit
    OBVIOUS
  <2>1. IInv /\ HeadInv
    BY <1>1, InitIInv
  <2>2. Len(ents) = 0 /\ dn = 0 /\ acked = 0
    BY DEF Init
  <2>3. Payloads(0, 0) = <<>>
    BY DEF Payloads
  <2> QED BY <2>1, <2>2, <2>3, ParsedLogs DEF Promise!AInit
<1>3. IInv /\ HeadInv /\ [Next]_vars => HeadInv'
  BY HeadStep
<1> DEFINE v == Parse(mem, hdr["head"], hdr["tail"])
           d == Parse(pm, phdr["head"], phdr["tail"])
           Parsed == v = EntriesOf(ents, Len(ents)) /\ d = EntriesOf(ents, dn)
<1>4. IInv /\ HeadInv => Parsed
  <2> SUFFICES ASSUME IInv, HeadInv PROVE Parsed
    OBVIOUS
  <2>1. v = Payloads(0, Len(ents)) /\ d = Payloads(0, dn)
    BY ParsedLogs
  <2>2. \A n \in Nat : Payloads(0, n) = EntriesOf(ents, n)
    BY DEF Payloads, EntriesOf
  <2>3. Len(ents) \in Nat /\ dn \in Nat
    BY DEF IInv, TypeOK
  <2> QED BY <2>1, <2>2, <2>3
<1>5. Parsed /\ Parsed' /\ IInv /\ [Next]_vars => [Promise!ANext]_(Promise!avars)
  <2> SUFFICES ASSUME Parsed, Parsed', IInv, [Next]_vars
               PROVE  Promise!ANext \/ UNCHANGED <<v, d, acked>>
    BY DEF Promise!avars
  <2>1. /\ v = EntriesOf(ents, Len(ents)) /\ d = EntriesOf(ents, dn)
        /\ v' = EntriesOf(ents', Len(ents')) /\ d' = EntriesOf(ents', dn')
    BY DEF EntriesOf
  <2> HIDE DEF v, d
  <2>2. \/ v' = v /\ d' = d /\ acked' = acked
        \/ \E x \in Entries : v' = Append(v, x) /\ d' = d /\ acked' = acked
        \/ d' = v /\ v' = v /\ acked' = Len(v)
        \/ (d' = v \/ d' = d) /\ v' = d' /\ acked' = acked
    BY <2>1, AbstractStep, Zenon
  <2> QED BY <2>2, Zenon DEF Promise!ANext, Promise!Publish, Promise!Return, Promise!Recover, v, d
<1> QED
  BY <1>1, <1>2, <1>3, <1>4, <1>5, Invariance, PTL DEF Spec, ImplementsAtomicLog, Promise!ASpec
=============================================================================
