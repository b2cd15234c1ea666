--------------------- MODULE PersistentLogAppendProofs ----------------------
(***************************************************************************)
(* The first half of an append preserves IInv: the copy of the I/O vectors *)
(* and the commit flag.  The only process that can be appending is the one *)
(* that takes the step.                                                    *)
(***************************************************************************)
EXTENDS PersistentLogOpenProofs

LEMMA AppendvStep ==
  ASSUME IInv, NEW p \in Procs, NEW e \in Entries, Appendv(p, e)
  PROVE  IInv'
<1> USE DEF IInv, Appendv, Goto, media, history
<1>1. TypeOK'
  BY DEF TypeOK, PcStates, Appending
<1>2. LifeInv'
  BY DEF LifeInv, TypeOK, Ctor
<1>3. HeaderInv'
  BY DEF HeaderInv, TypeOK, HdrOK
<1>4. ChainInv'
  BY DEF ChainInv, Bound
<1>5. WalkInv'
  BY DEF WalkInv, TypeOK
<1>6. AppendInv'
  <2>1. wo[p] = hdr["tail"] /\ hdr["tail"] \in Nat
    BY DEF AppendInv, TypeOK, HdrWords
  <2>2. Size(e) \in Nat /\ Iovcnt(e) \in Nat \ {0} /\ IovStart(e, 1) = 0
    BY CutFacts DEF IovStart
  <2>3. hdr["tail"] + Size(e) + WordLength <= EndOffset
    BY <2>1, <2>2, SizesAssumption DEF Fits, EndOffset
  <2>4. Written(mem, e, 0) /\ \A o \in hdr["tail"]..(wo[p] - 1) : o \in pend[p]
    BY <2>1 DEF Written
  <2> QED BY <2>1, <2>2, <2>3, <2>4, SMTT(60)
       DEF AppendInv, TypeOK, Written, FlagWritten, Appending
<1> QED BY <1>1, <1>2, <1>3, <1>4, <1>5, <1>6

\* A process ends, in AppendvNoSpace or Kill.

LEMMA CopyIovStep ==
  ASSUME IInv, SingleWriter, NEW p \in Procs, CopyIov(p)
  PROVE  IInv'
<1> USE DEF IInv, history
<1> DEFINE e == ent[p]
           i == iov[p]
           from == IovStart(e, i)
           n == Cut[e][i] - from
           range == wo[p]..(wo[p] + n - 1)
           t == hdr["tail"]
<1>1. /\ t \in Nat /\ e \in Entries /\ Size(e) \in Nat
      /\ t + Size(e) + WordLength <= EndOffset
      /\ t..(t + Size(e) + WordLength - 1) \subseteq Offsets
  BY AppendRange, Zenon DEF CopyIov, Appending
<1>2. /\ i \in 1..Iovcnt(e) /\ wo[p] = t + from
      /\ Written(mem, e, from) /\ \A o \in t..(wo[p] - 1) : o \in pend[p]
  BY Zenon DEF CopyIov, AppendInv
<1>3. /\ from \in Nat /\ Cut[e][i] \in Nat /\ from <= Cut[e][i] /\ Cut[e][i] <= Size(e)
      /\ i = Iovcnt(e) => Cut[e][i] = Size(e)
      /\ i # Iovcnt(e) => i + 1 \in 1..Iovcnt(e) /\ IovStart(e, i + 1) = Cut[e][i]
  BY <1>1, <1>2, CutFacts
<1>4. n \in Nat /\ wo[p] \in Nat /\ wo[p] + n = t + Cut[e][i] /\ range \subseteq Offsets
  <2>1. n \in Nat /\ wo[p] \in Nat /\ wo[p] + n = t + Cut[e][i]
    BY <1>1, <1>2, <1>3
  <2>2. range \subseteq t..(t + Size(e) + WordLength - 1)
    BY <1>1, <1>2, <1>3, SizesAssumption
  <2> QED BY <1>1, <2>1, <2>2
<1>5. /\ pc[p] = "copy"
      /\ mem' = [o \in Offsets |-> IF o \in range
                    THEN [ent |-> e, pos |-> from + (o - wo[p])] ELSE mem[o]]
      /\ pend' = [pend EXCEPT ![p] = @ \cup (range \cap Offsets)]
      /\ wo' = [wo EXCEPT ![p] = @ + n] /\ iov' = [iov EXCEPT ![p] = @ + 1]
      /\ pc' = [pc EXCEPT ![p] = IF i = Iovcnt(e) THEN "drainData" ELSE "copy"]
      /\ UNCHANGED <<file, listed, hdr, pm, phdr, ent, pendHdr, rtail, tmp, history>>
  BY DEF CopyIov, Store, Goto
<1> HIDE DEF e, i, from, n, range, t
<1>6. TypeOK'
  <2>1. mem' \in [Offsets -> Cells]
    <3>1. ASSUME NEW o \in range
          PROVE  [ent |-> e, pos |-> from + (o - wo[p])] \in Cells
      <4>1. from + (o - wo[p]) \in Nat
        BY <1>3, <1>4 DEF range
      <4> QED BY <1>1, <4>1 DEF Cells
    <3> QED BY <1>5, <3>1 DEF TypeOK
  <2>2. pend' \in [Procs -> SUBSET Offsets]
    BY <1>5 DEF TypeOK
  <2>3. wo' \in [Procs -> Nat] /\ iov' \in [Procs -> Nat]
    BY <1>4, <1>5 DEF TypeOK
  <2>4. pc' \in [Procs -> PcStates]
    BY <1>5 DEF TypeOK, PcStates, Appending
  <2> QED BY <1>5, <2>1, <2>2, <2>3, <2>4, SMTT(60) DEF TypeOK
<1>7. LifeInv'
  BY <1>5 DEF LifeInv, TypeOK, Ctor
<1>8. HeaderInv'
  BY <1>5, SMTT(60) DEF HeaderInv, TypeOK, HdrOK
<1>9. ChainInv'
  <2>1. \A o \in range : o \in Int /\ o >= hdr["tail"]
    BY <1>1, <1>2, <1>3, <1>4 DEF range, t
  <2> QED BY <1>5, <2>1, StoreKeepsChain, SMTT(60)
<1>10. WalkInv'
  BY <1>5, Zenon DEF WalkInv, TypeOK
<1>11. AppendInv'
  <2>1. ASSUME NEW k \in 0..(Cut[e][i] - 1)
        PROVE  mem'[t + k] = [ent |-> e, pos |-> k] /\ t + k \in pend'[p]
    <3>1. t + k \in Offsets
      BY <1>1, <1>3, SizesAssumption
    <3>2. CASE k < from
      <4>1. k \in 0..(from - 1) /\ t + k \notin range
        BY <1>1, <1>2, <1>3, <1>4, <3>2 DEF range
      <4>2. t + k \in t..(wo[p] - 1)
        BY <1>1, <1>2, <1>3, <3>2
      <4> QED BY <1>2, <1>5, <3>1, <4>1, <4>2 DEF Written, t, TypeOK
    <3>3. CASE k >= from
      <4>1. t + k \in range /\ from + ((t + k) - wo[p]) = k
        BY <1>1, <1>2, <1>3, <1>4, <3>3, SMTT(60) DEF range
      <4> QED BY <1>5, <3>1, <4>1 DEF TypeOK
    <3> QED BY <1>3, <3>2, <3>3
  <2>2. /\ p \in Writers /\ ent'[p] = e /\ hdr' = hdr /\ iov'[p] = i + 1
        /\ wo'[p] = t + Cut[e][i]
        /\ pc'[p] = IF i = Iovcnt(e) THEN "drainData" ELSE "copy"
    BY <1>4, <1>5 DEF AppendInv, TypeOK, Appending, e, i
  <2>3. Written(mem', e, Cut[e][i])
    BY <2>1 DEF Written, t
  <2>4. \A o \in t..(wo'[p] - 1) : o \in pend'[p]
    <3>1. ASSUME NEW o \in t..(wo'[p] - 1)
          PROVE  o \in pend'[p]
      <4>1. o - t \in 0..(Cut[e][i] - 1) /\ t + (o - t) = o
        BY <1>1, <1>3, <2>2, SMTT(60)
      <4> QED BY <2>1, <4>1, Zenon
    <3> QED BY <3>1
  <2>5. ASSUME NEW q \in Procs, q # p
        PROVE  q \notin Writers /\ pc'[q] \notin Appending
    BY <1>5, <2>5, OnlyAppender, SMTT(60) DEF Appending, TypeOK
  <2>6. CASE i = Iovcnt(e)
    <3>1. /\ pc'[p] = "drainData" /\ wo'[p] = t + Size(e) /\ Written(mem', e, Size(e))
      BY <1>3, <2>2, <2>3, <2>6, SMTT(60)
    <3> QED BY <1>1, <2>2, <2>4, <2>5, <3>1, SMTT(60) DEF AppendInv, Written, Appending, t
  <2>7. CASE i # Iovcnt(e)
    <3>1. /\ pc'[p] = "copy" /\ iov'[p] \in 1..Iovcnt(e)
          /\ IovStart(e, iov'[p]) = Cut[e][i]
      BY <1>3, <2>2, <2>7
    <3> QED BY <1>1, <2>2, <2>3, <2>4, <2>5, <3>1, SMTT(60) DEF AppendInv, Written, Appending, t
  <2> QED BY <2>6, <2>7
<1> QED BY <1>6, <1>7, <1>8, <1>9, <1>10, <1>11

LEMMA PersistDrainDataStep ==
  ASSUME IInv, SingleWriter, NEW p \in Procs, PersistDrainData(p)
  PROVE  IInv'
<1> USE DEF IInv, PersistDrainData, Goto, history
<1>0. pc[p] \in Appending \ {"drainTail"} /\ pendHdr[p] = {}
  BY DEF Appending, HeaderInv
<1>1. TypeOK'
  BY DEF TypeOK, PcStates, Drain, Appending
<1>2. LifeInv'
  BY DEF LifeInv, TypeOK, Ctor
<1>3. phdr' = phdr /\ pendHdr' = pendHdr
  BY <1>0 DEF Drain, TypeOK
<1>4. HeaderInv'
  BY <1>3, SMTT(60) DEF HeaderInv, TypeOK, HdrOK
<1>5. ChainInv'
  BY <1>3, DrainKeepsIntact, SMTT(60) DEF ChainInv, Bound
<1>6. WalkInv'
  BY SMTT(60) DEF WalkInv, TypeOK
<1>7. AppendInv'
  <2> DEFINE e == ent[p]
             t == hdr["tail"]
  <2>1. /\ t \in Nat /\ Size(e) \in Nat
        /\ t..(t + Size(e) + WordLength - 1) \subseteq Offsets
    BY <1>0, AppendRange, SMTT(60)
  <2>2. /\ wo[p] = t + Size(e) /\ Written(mem, e, Size(e))
        /\ \A o \in t..(wo[p] - 1) : o \in pend[p]
    BY SMTT(60) DEF AppendInv
  <2>3. ASSUME NEW k \in 0..(Size(e) - 1)
        PROVE  pm'[t + k] = [ent |-> e, pos |-> k]
    <3>1. t + k \in Offsets /\ t + k \in pend[p]
      BY <2>1, <2>2, SizesAssumption
    <3> QED BY <2>2, <3>1, SMTT(60) DEF Drain, Written
  <2>4. Written(pm', e, Size(e))
    BY <2>3 DEF Written
  <2>5. ASSUME NEW q \in Procs, q # p
        PROVE  q \notin Writers /\ pc'[q] \notin Appending
    BY <1>0, <2>5, OnlyAppender, SMTT(60) DEF Appending, TypeOK
  <2>6. pc'[p] = "flag" /\ p \in Writers /\ e \in Entries
        /\ t + Size(e) + WordLength <= EndOffset
    BY <1>0 DEF AppendInv, TypeOK, Appending
  <2> QED BY <2>2, <2>4, <2>5, <2>6, SMTT(60) DEF AppendInv, Written, Appending
<1> QED BY <1>1, <1>2, <1>4, <1>5, <1>6, <1>7, SMTT(60)

LEMMA PersistFlagStep ==
  ASSUME IInv, SingleWriter, NEW p \in Procs, PersistFlag(p)
  PROVE  IInv'
<1> USE DEF IInv, history
<1> DEFINE e == ent[p]
           t == hdr["tail"]
           range == wo[p]..(wo[p] + WordLength - 1)
<1>0. pc[p] = "flag" /\ pc[p] \in Appending \ {"drainTail"}
  BY DEF PersistFlag, Appending
<1>1. /\ t \in Nat /\ e \in Entries /\ Size(e) \in Nat
      /\ t + Size(e) + WordLength <= EndOffset
      /\ t..(t + Size(e) + WordLength - 1) \subseteq Offsets
  BY <1>0, AppendRange
<1>2. /\ p \in Writers /\ wo[p] = t + Size(e)
      /\ Written(mem, e, Size(e)) /\ Written(pm, e, Size(e))
  BY <1>0, SMTT(60) DEF AppendInv
<1>3. /\ mem' = [o \in Offsets |-> IF o \in range THEN Flag ELSE mem[o]]
      /\ pend' = [pend EXCEPT ![p] = @ \cup (range \cap Offsets)]
      /\ pc' = [pc EXCEPT ![p] = "drainFlag"]
      /\ UNCHANGED <<file, listed, hdr, pm, phdr, wo, ent, iov, pendHdr, rtail, tmp, history>>
  BY DEF PersistFlag, Store, Goto
<1> HIDE DEF e, t, range
<1>4. TypeOK'
  <2>1. Flag \in Cells
    BY DEF Flag, Cells
  <2>2. mem' \in [Offsets -> Cells]
    BY <1>3, <2>1 DEF TypeOK
  <2> QED BY <1>3, <2>2 DEF TypeOK, PcStates, Appending
<1>5. LifeInv'
  BY <1>0, <1>3 DEF LifeInv, TypeOK, Ctor
<1>6. HeaderInv'
  BY <1>0, <1>3, SMTT(60) DEF HeaderInv, TypeOK, HdrOK
<1>7. ChainInv'
  <2>1. \A o \in range : o \in Int /\ o >= hdr["tail"]
    BY <1>1, <1>2, SizesAssumption, SMTT(60) DEF range, t
  <2> QED BY <1>3, <2>1, StoreKeepsChain
<1>8. WalkInv'
  BY <1>0, <1>3, SMTT(60) DEF WalkInv, TypeOK
<1>9. AppendInv'
  <2>1. ASSUME NEW k \in 0..(Size(e) - 1)
        PROVE  mem'[t + k] = [ent |-> e, pos |-> k]
    <3>1. t + k \in Offsets /\ t + k \notin range
      BY <1>1, <1>2, SizesAssumption DEF range
    <3> QED BY <1>2, <1>3, <3>1, Zenon DEF Written, t
  <2>2. ASSUME NEW k \in 0..(WordLength - 1)
        PROVE  mem'[t + Size(e) + k] = Flag
    <3>1. t + Size(e) + k \in Offsets /\ t + Size(e) + k \in range
      BY <1>1, <1>2, SizesAssumption DEF range
    <3> QED BY <1>3, <3>1
  <2>3. Written(mem', e, Size(e)) /\ FlagWritten(mem', e)
    BY <2>1, <2>2 DEF Written, FlagWritten, t
  <2>4. \A o \in wo[p]..(wo[p] + WordLength - 1) : o \in pend'[p]
    <3>1. range \subseteq Offsets
      BY <1>1, <1>2, SizesAssumption DEF range
    <3> QED BY <1>3, <3>1 DEF range, TypeOK
  <2>5. ASSUME NEW q \in Procs, q # p
        PROVE  q \notin Writers /\ pc'[q] \notin Appending
    BY <1>0, <1>3, <2>5, OnlyAppender, SMTT(60) DEF Appending, TypeOK
  <2>6. pc'[p] = "drainFlag" /\ ent'[p] = e /\ wo'[p] = wo[p] /\ hdr' = hdr /\ pm' = pm
    BY <1>3 DEF TypeOK, e
  <2>7. /\ Written(mem, ent[p], Size(ent[p]))' /\ Written(pm, ent[p], Size(ent[p]))'
        /\ FlagWritten(mem, ent[p])'
    BY <1>2, <2>3, <2>6 DEF Written, FlagWritten
  <2>8. /\ hdr'["tail"] + Size(ent'[p]) + WordLength <= EndOffset
        /\ wo'[p] = hdr'["tail"] + Size(ent'[p]) /\ ent'[p] \in Entries
        /\ \A o \in wo'[p]..(wo'[p] + WordLength - 1) : o \in pend'[p]
    BY <1>1, <1>2, <2>4, <2>6 DEF t
  <2> QED BY <1>2, <2>5, <2>6, <2>7, <2>8 DEF AppendInv, Appending
<1> QED BY <1>4, <1>5, <1>6, <1>7, <1>8, <1>9

=============================================================================
