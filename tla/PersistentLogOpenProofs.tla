----------------------- MODULE PersistentLogOpenProofs ----------------------
(***************************************************************************)
(* Facts the proofs about PersistentLog share: the shape of an entry, where *)
(* published and unpublished entries lie, and what leaves them whole.  Then: *)
(* the initial states satisfy IInv; opening the log, walking it, and losing *)
(* a process preserve it.                                                  *)
(***************************************************************************)
EXTENDS PersistentLog, TLAPS

\* The I/O vectors of an entry partition it, in order.
LEMMA CutFacts ==
  ASSUME NEW e \in Entries
  PROVE  /\ Size(e) \in Nat /\ LehdrSize <= Size(e) /\ Iovcnt(e) \in Nat \ {0}
         /\ \A i \in 1..Iovcnt(e) :
              /\ IovStart(e, i) \in Nat /\ Cut[e][i] \in Nat
              /\ IovStart(e, i) <= Cut[e][i] /\ Cut[e][i] <= Size(e)
              /\ i = Iovcnt(e) => Cut[e][i] = Size(e)
              /\ i # Iovcnt(e) => /\ i + 1 \in 1..Iovcnt(e)
                                  /\ IovStart(e, i + 1) = Cut[e][i]
<1> DEFINE c == Cut[e]
<1>1. /\ c \in Seq(Nat) /\ Len(c) \in Nat \ {0} /\ c[1] = LehdrSize
      /\ \A i, j \in 1..Len(c) : i <= j => c[i] <= c[j]
  BY CutAssumption
<1>2. \A i \in 1..Len(c) : c[i] \in Nat
  BY <1>1
<1> HIDE DEF c
<1>3. Size(e) = c[Len(c)] /\ Iovcnt(e) = Len(c)
  BY DEF Size, Iovcnt, c
<1>4. \A i : IovStart(e, i) = IF i = 1 THEN 0 ELSE c[i - 1]
  BY DEF IovStart, c
<1>5. LehdrSize <= c[Len(c)]
  BY <1>1, <1>2, SizesAssumption
<1>6. ASSUME NEW i \in 1..Len(c)
      PROVE  /\ IovStart(e, i) \in Nat /\ c[i] \in Nat
             /\ IovStart(e, i) <= c[i] /\ c[i] <= c[Len(c)]
             /\ i # Len(c) => /\ i + 1 \in 1..Len(c)
                              /\ IovStart(e, i + 1) = c[i]
  <2>1. c[i] \in Nat /\ Len(c) \in 1..Len(c) /\ i <= Len(c) /\ Len(c) \in Nat
    BY <1>1, <1>2
  <2>2. c[i] <= c[Len(c)]
    BY <1>1, <2>1
  <2>3. i # 1 => i - 1 \in 1..Len(c) /\ i - 1 <= i
    BY <2>1
  <2>4. IovStart(e, i) \in Nat /\ IovStart(e, i) <= c[i]
    BY <1>1, <1>2, <1>4, <2>1, <2>3, SMTT(60)
  <2>5. ASSUME i # Len(c)
        PROVE  i + 1 \in 1..Len(c) /\ IovStart(e, i + 1) = c[i]
    <3>1. i + 1 \in 1..Len(c) /\ i + 1 # 1 /\ (i + 1) - 1 = i
      BY <2>1, <2>5
    <3> QED BY <1>4, <3>1
  <2> QED BY <2>1, <2>2, <2>4, <2>5
<1> QED BY <1>1, <1>2, <1>3, <1>5, <1>6 DEF c

-----------------------------------------------------------------------------
(* Entries below the tail are disturbed neither by stores above it nor by  *)
(* moving cells between the two copies.                                    *)

LEMMA IntactKept ==
  ASSUME NEW x, x.off \in Nat, Size(x.ent) \in Nat,
         NEW m, NEW n, Intact(m, x),
         \A o \in x.off..(EndOf(x) - 1) : n[o] = m[o]
  PROVE  Intact(n, x)
<1> DEFINE s == Size(x.ent)
           f == x.off
<1>1. s \in Nat /\ f \in Nat /\ WordLength \in Nat \ {0}
      /\ EndOf(x) = f + s + WordLength
  BY SizesAssumption DEF EndOf
<1>2. /\ \A k \in 0..(s - 1) : m[f + k] = [ent |-> x.ent, pos |-> k]
      /\ \A k \in 0..(WordLength - 1) : m[f + s + k] = Flag
  BY DEF Intact
<1> HIDE DEF s, f
<1>3. ASSUME NEW k \in 0..(s - 1)
      PROVE  n[f + k] = [ent |-> x.ent, pos |-> k]
  <2>1. f + k \in f..(EndOf(x) - 1)
    BY <1>1
  <2> QED BY <2>1, <1>2 DEF f
<1>4. ASSUME NEW k \in 0..(WordLength - 1)
      PROVE  n[f + s + k] = Flag
  <2>1. f + s + k \in f..(EndOf(x) - 1)
    BY <1>1
  <2> QED BY <2>1, <1>2 DEF f
<1> QED BY <1>3, <1>4 DEF Intact, s, f

LEMMA IntactMixed ==
  ASSUME NEW x, x.off \in Nat, Size(x.ent) \in Nat,
         NEW m, NEW m2, NEW n, Intact(m, x), Intact(m2, x),
         \A o \in x.off..(EndOf(x) - 1) : n[o] = m[o] \/ n[o] = m2[o]
  PROVE  Intact(n, x)
<1>1. ASSUME NEW o \in x.off..(EndOf(x) - 1)
      PROVE  m[o] = m2[o]
  <2> DEFINE s == Size(x.ent)
             f == x.off
  <2>1. s \in Nat /\ f \in Nat /\ WordLength \in Nat \ {0} /\ o \in Int
        /\ f <= o /\ o < f + s + WordLength
    BY SizesAssumption DEF EndOf
  <2>2. /\ \A k \in 0..(s - 1) : m[f + k] = m2[f + k]
        /\ \A k \in 0..(WordLength - 1) : m[f + s + k] = m2[f + s + k]
    BY Zenon DEF Intact
  <2> HIDE DEF s, f
  <2>3. CASE o < f + s
    <3>1. o - f \in 0..(s - 1) /\ f + (o - f) = o
      BY <2>1, <2>3
    <3> QED BY <3>1, <2>2
  <2>4. CASE o >= f + s
    <3>1. o - f - s \in 0..(WordLength - 1) /\ f + s + (o - f - s) = o
      BY <2>1, <2>4
    <3> QED BY <3>1, <2>2
  <2> QED BY <2>1, <2>3, <2>4
<1> QED BY <1>1, IntactKept

\* Facts about a published entry.
LEMMA EntryFacts ==
  ASSUME IInv, NEW i \in 1..Len(ents)
  PROVE  /\ ents[i].off \in Nat /\ ents[i].ent \in Entries
         /\ Size(ents[i].ent) \in Nat /\ LehdrSize <= Size(ents[i].ent)
         /\ EndOf(ents[i]) \in Nat
         /\ ents[i].off..(EndOf(ents[i]) - 1) \subseteq Offsets
<1>1. ents[i].off \in Nat /\ ents[i].ent \in Entries
  <2> DEFINE R == [off : Nat, ent : Entries]
  <2>1. ents \in Seq(R)
    BY DEF IInv, TypeOK
  <2> HIDE DEF R
  <2>2. ents[i] \in R
    BY <2>1
  <2> QED BY <2>2 DEF R
<1>2. Size(ents[i].ent) \in Nat /\ LehdrSize <= Size(ents[i].ent)
  BY <1>1, CutFacts
<1>3. EndOf(ents[i]) \in Nat
  BY <1>1, <1>2, SizesAssumption DEF EndOf
<1>4. EndOf(ents[i]) <= MappedLen - 1
  BY DEF IInv, ChainInv, EndOffset
<1> QED BY <1>1, <1>2, <1>3, <1>4, SizesAssumption DEF Offsets

\* The cells of an append in progress lie inside the mapping.
LEMMA AppendRange ==
  ASSUME IInv, NEW p \in Procs, pc[p] \in Appending \ {"drainTail"}
  PROVE  /\ hdr["tail"] \in Nat /\ ent[p] \in Entries /\ Size(ent[p]) \in Nat
         /\ hdr["tail"] + Size(ent[p]) + WordLength <= EndOffset
         /\ hdr["tail"]..(hdr["tail"] + Size(ent[p]) + WordLength - 1) \subseteq Offsets
<1>1. hdr["tail"] \in Nat
  BY DEF IInv, TypeOK, HdrWords
<1>2. /\ ent[p] \in Entries
      /\ hdr["tail"] + Size(ent[p]) + WordLength <= EndOffset
  BY DEF IInv, AppendInv
<1>3. Size(ent[p]) \in Nat
  BY <1>2, CutFacts
<1> QED BY <1>1, <1>2, <1>3, SizesAssumption DEF EndOffset, Offsets

LEMMA OnlyAppender ==
  ASSUME IInv, SingleWriter, NEW p \in Procs, pc[p] \in Appending,
         NEW q \in Procs, q # p
  PROVE  q \notin Writers /\ pc[q] \notin Appending
BY DEF IInv, AppendInv, SingleWriter

\* Storing at or above the tail keeps the published entries whole.
LEMMA StoreKeepsChain ==
  ASSUME IInv, NEW range \in SUBSET Int,
         \A o \in range : o >= hdr["tail"],
         \A o \in Offsets : o \notin range => mem'[o] = mem[o],
         UNCHANGED <<listed, hdr, pm, phdr, history>>
  PROVE  ChainInv'
<1> USE DEF history
<1>1. ASSUME NEW i \in 1..Len(ents)
      PROVE  Intact(mem', ents[i])
  <2>1. /\ ents[i].off \in Nat /\ Size(ents[i].ent) \in Nat /\ EndOf(ents[i]) \in Nat
        /\ ents[i].off..(EndOf(ents[i]) - 1) \subseteq Offsets
    BY EntryFacts
  <2>2. EndOf(ents[i]) <= hdr["tail"] /\ Intact(mem, ents[i]) /\ hdr["tail"] \in Nat
    BY DEF IInv, ChainInv, TypeOK, HdrWords
  <2>3. \A o \in ents[i].off..(EndOf(ents[i]) - 1) : mem'[o] = mem[o]
    BY <2>1, <2>2
  <2> QED BY <2>1, <2>2, <2>3, IntactKept, Zenon
<1> QED BY <1>1 DEF IInv, ChainInv, Bound

\* Draining keeps the published entries whole on the media.
LEMMA DrainKeepsIntact ==
  ASSUME IInv, NEW p \in Procs, Drain(p), NEW i \in 1..Len(ents)
  PROVE  Intact(pm', ents[i])
<1>1. /\ ents[i].off \in Nat /\ Size(ents[i].ent) \in Nat
      /\ ents[i].off..(EndOf(ents[i]) - 1) \subseteq Offsets
  BY EntryFacts
<1>2. Intact(mem, ents[i]) /\ Intact(pm, ents[i])
  BY DEF IInv, ChainInv
<1>3. \A o \in ents[i].off..(EndOf(ents[i]) - 1) : pm'[o] = mem[o] \/ pm'[o] = pm[o]
  BY <1>1 DEF Drain
<1> QED BY <1>1, <1>2, <1>3, IntactMixed, Zenon

-----------------------------------------------------------------------------
(* The initial states, opening, walking and losing a process. *)

LEMMA InitIInv == Init => IInv
<1> SUFFICES ASSUME Init PROVE IInv
  OBVIOUS
<1>1. TypeOK
  <2>1. Zero \in Cells
    BY DEF Zero, Cells
  <2>2. mem \in [Offsets -> Cells] /\ pm \in [Offsets -> Cells]
    BY <2>1 DEF Init
  <2>3. file \in BOOLEAN /\ listed \in BOOLEAN
    BY Zenon DEF Init
  <2>4. hdr \in [HdrWords -> Nat] /\ phdr \in [HdrWords -> Nat]
    BY DEF Init
  <2>5. pc \in [Procs -> PcStates]
    BY DEF Init, PcStates
  <2>6. /\ wo \in [Procs -> Nat] /\ iov \in [Procs -> Nat]
        /\ rtail \in [Procs -> Nat] /\ tmp \in [Procs -> Nat]
        /\ ent \in [Procs -> Entries \cup {NoEntry}]
        /\ pend \in [Procs -> SUBSET Offsets]
        /\ pendHdr \in [Procs -> SUBSET HdrWords]
    BY DEF Init
  <2>7. ents \in Seq([off : Nat, ent : Entries]) /\ dn \in Nat /\ acked \in Nat
    BY DEF Init
  <2> QED BY <2>2, <2>3, <2>4, <2>5, <2>6, <2>7 DEF TypeOK
<1>2. LifeInv
  BY DEF Init, LifeInv, Ctor
<1>3. HeaderInv
  BY DEF Init, HeaderInv
<1>4. ChainInv
  BY DEF Init, ChainInv
<1>5. WalkInv /\ AppendInv
  BY DEF Init, WalkInv, AppendInv, Appending
<1> QED BY <1>1, <1>2, <1>3, <1>4, <1>5 DEF IInv

LEMMA CtorCreateStep ==
  ASSUME IInv, NEW p \in Procs, CtorCreate(p)
  PROVE  IInv'
<1> USE DEF IInv, CtorCreate, Goto, media, history
<1>1. TypeOK'
  BY DEF TypeOK, PcStates, Ctor
<1>2. LifeInv'
  BY DEF LifeInv, TypeOK, Ctor
<1>3. HeaderInv'
  BY DEF HeaderInv, TypeOK, HdrOK
<1>4. ChainInv'
  BY DEF ChainInv, Bound
<1>5. WalkInv'
  BY DEF WalkInv, TypeOK
<1>6. AppendInv'
  BY SMTT(60) DEF AppendInv, TypeOK, Written, FlagWritten, Appending
<1> QED BY <1>1, <1>2, <1>3, <1>4, <1>5, <1>6

LEMMA CtorHeaderStep ==
  ASSUME IInv, NEW p \in Procs, CtorHeader(p)
  PROVE  IInv'
<1> USE DEF IInv, CtorHeader, Goto, history
<1>1. TypeOK'
  BY SizesAssumption, SMTT(60) DEF TypeOK, PcStates, Ctor, HdrWords
<1>2. LifeInv'
  BY DEF LifeInv, TypeOK, Ctor
<1>3. HeaderInv'
  BY SMTT(60) DEF HeaderInv, LifeInv, TypeOK, HdrOK, HdrWords, Ctor
<1>4. ChainInv'
  BY DEF ChainInv, LifeInv, TypeOK, Ctor
<1>5. WalkInv'
  BY SMTT(60) DEF WalkInv, LifeInv, TypeOK, Ctor
<1>6. AppendInv'
  BY SMTT(60) DEF AppendInv, LifeInv, TypeOK, Ctor, Appending
<1> QED BY <1>1, <1>2, <1>3, <1>4, <1>5, <1>6

LEMMA CtorDrainStep ==
  ASSUME IInv, NEW p \in Procs, CtorDrain(p)
  PROVE  IInv'
<1> USE DEF IInv, CtorDrain, Goto, Drain, history
<1>1. TypeOK'
  BY DEF TypeOK, PcStates, Ctor
<1>2. LifeInv'
  BY DEF LifeInv, TypeOK, Ctor
<1>3. HeaderInv'
  BY SMTT(60) DEF HeaderInv, LifeInv, TypeOK, HdrOK, HdrWords, Ctor
<1>4. ChainInv'
  BY DEF ChainInv, LifeInv, TypeOK, Ctor
<1>5. WalkInv'
  BY SMTT(60) DEF WalkInv, LifeInv, TypeOK, Ctor
<1>6. AppendInv'
  BY DEF AppendInv, LifeInv, TypeOK, Ctor, Appending
<1> QED BY <1>1, <1>2, <1>3, <1>4, <1>5, <1>6

LEMMA CtorTouchStep ==
  ASSUME IInv, NEW p \in Procs, CtorTouch(p)
  PROVE  IInv'
<1> USE DEF IInv, CtorTouch, Goto, history
<1>1. TypeOK'
  <2>1. Zero \in Cells
    BY DEF Zero, Cells
  <2>2. mem' \in [Offsets -> Cells]
    BY <2>1 DEF TypeOK
  <2> QED BY <2>2 DEF TypeOK, PcStates, Ctor
<1>2. LifeInv'
  BY DEF LifeInv, TypeOK, Ctor
<1>3. HeaderInv'
  BY DEF HeaderInv, LifeInv, TypeOK, HdrOK, Ctor
<1>4. ChainInv'
  BY DEF ChainInv, LifeInv, TypeOK, Ctor
<1>5. WalkInv'
  BY DEF WalkInv, LifeInv, TypeOK, Ctor
<1>6. AppendInv'
  BY DEF AppendInv, LifeInv, TypeOK, Ctor, Appending
<1> QED BY <1>1, <1>2, <1>3, <1>4, <1>5, <1>6

LEMMA AddLogStep ==
  ASSUME IInv, NEW p \in Procs, AddLog(p)
  PROVE  IInv'
<1> USE DEF IInv, AddLog, Goto, media, history
<1>1. TypeOK'
  BY DEF TypeOK, PcStates
<1>2. LifeInv'
  BY DEF LifeInv, TypeOK, Ctor
<1>3. HeaderInv'
  BY DEF HeaderInv, LifeInv, TypeOK, HdrOK, Ctor
<1>4. ChainInv'
  <2>1. ents = <<>> /\ hdr["tail"] = LhdrSize /\ phdr["tail"] = LhdrSize
    BY DEF LifeInv, HeaderInv, Ctor
  <2>2. dn = 0 /\ acked = 0
    BY <2>1 DEF ChainInv, TypeOK
  <2> QED BY <2>1, <2>2 DEF ChainInv, Bound
<1>5. WalkInv'
  BY SMTT(60) DEF WalkInv, LifeInv, TypeOK, Ctor
<1>6. AppendInv'
  BY DEF AppendInv, HeaderInv, LifeInv, TypeOK, Ctor, Appending
<1> QED BY <1>1, <1>2, <1>3, <1>4, <1>5, <1>6

LEMMA CtorOpenStep ==
  ASSUME IInv, NEW p \in Procs, CtorOpen(p)
  PROVE  IInv'
<1> USE DEF IInv, CtorOpen, Goto, media, history
<1>1. TypeOK'
  BY SMTT(60) DEF TypeOK, PcStates, HdrWords
<1>2. LifeInv'
  BY DEF LifeInv, TypeOK, Ctor
<1>3. HeaderInv'
  BY SMTT(60) DEF HeaderInv, TypeOK, HdrOK
<1>4. ChainInv'
  BY DEF ChainInv, Bound
<1>5. WalkInv'
  BY SMTT(60) DEF WalkInv, TypeOK
<1>6. AppendInv'
  BY SMTT(60) DEF AppendInv, TypeOK, Written, FlagWritten, Appending
<1> QED BY <1>1, <1>2, <1>3, <1>4, <1>5, <1>6

LEMMA ForgetStep ==
  ASSUME IInv, NEW p \in Procs, Forget(p),
         UNCHANGED <<file, listed, media, history>>
  PROVE  IInv'
<1> USE DEF IInv, Forget, Goto, media, history
<1>1. TypeOK'
  BY DEF TypeOK, PcStates
<1>2. LifeInv'
  BY DEF LifeInv, TypeOK, Ctor
<1>3. HeaderInv'
  BY DEF HeaderInv, TypeOK, HdrOK
<1>4. ChainInv'
  BY SMTT(60) DEF ChainInv, Bound
<1>5. WalkInv'
  BY SMTT(60) DEF WalkInv, TypeOK
<1>6. AppendInv'
  BY SMTT(60) DEF AppendInv, TypeOK, Written, FlagWritten, Appending
<1> QED BY <1>1, <1>2, <1>3, <1>4, <1>5, <1>6

\* A step of one walk.
LEMMA WalkOne ==
  ASSUME WalkInv, NEW p \in Procs, NEW l, NEW r, NEW o,
         DOMAIN pc = Procs, DOMAIN rtail = Procs, DOMAIN tmp = Procs,
         pc' = [pc EXCEPT ![p] = l], rtail' = [rtail EXCEPT ![p] = r],
         tmp' = [tmp EXCEPT ![p] = o], hdr' = hdr, ents' = ents,
         l \in {"walkHead", "walk"} => r <= hdr["tail"],
         l = "walk" => o < r /\ \E i \in 1..Len(ents) : ents[i].off = o
  PROVE  WalkInv'
<1>1. pc'[p] = l /\ rtail'[p] = r /\ tmp'[p] = o
  OBVIOUS
<1>2. \A q \in Procs : q # p => pc'[q] = pc[q] /\ rtail'[q] = rtail[q] /\ tmp'[q] = tmp[q]
  OBVIOUS
<1> SUFFICES ASSUME NEW q \in Procs
             PROVE  /\ pc'[q] \in {"walkHead", "walk"} => rtail'[q] <= hdr["tail"]
                    /\ pc'[q] = "walk" => /\ tmp'[q] < rtail'[q]
                                          /\ \E i \in 1..Len(ents) : ents[i].off = tmp'[q]
  BY Zenon DEF WalkInv
<1>3. CASE q = p
  BY <1>1, <1>3, Zenon
<1>4. CASE q # p
  BY <1>2, <1>4, Zenon DEF WalkInv
<1> QED BY <1>3, <1>4

LEMMA WalkSteps ==
  ASSUME IInv, NEW p \in Procs,
         WalkLoadTail(p) \/ WalkLoadHead(p) \/ WalkStop(p) \/ WalkNext(p)
  PROVE  IInv'
<1> USE DEF IInv, media, history
<1> DEFINE Walking == {"idle", "walkHead", "walk"}
<1>t. /\ rtail \in [Procs -> Nat] /\ tmp \in [Procs -> Nat]
      /\ pc \in [Procs -> PcStates]
      /\ hdr["head"] \in Nat /\ hdr["tail"] \in Nat
  BY SMTT(60) DEF TypeOK, HdrWords
<1>0. /\ UNCHANGED <<file, listed, media, wo, ent, iov, pend, pendHdr, history>>
      /\ pc[p] \in Walking
      /\ \E l \in Walking : pc' = [pc EXCEPT ![p] = l]
  BY SMTT(60) DEF WalkLoadTail, WalkLoadHead, WalkStop, WalkNext, WalkDone, Goto, TypeOK
<1>1. TypeOK'
  <2>1. pc' \in [Procs -> PcStates]
    BY <1>0 DEF TypeOK, PcStates
  <2>2. rtail' \in [Procs -> Nat] /\ tmp' \in [Procs -> Nat]
    <3>1. CASE WalkLoadTail(p)
      BY <3>1, SMTT(60) DEF WalkLoadTail, TypeOK, HdrWords
    <3>3. CASE WalkLoadHead(p)
      <4>1. CASE hdr["head"] >= rtail[p]
        BY <1>t, <3>3, <4>1 DEF WalkLoadHead
      <4>2. CASE ~(hdr["head"] >= rtail[p])
        BY <1>t, <3>3, <4>2 DEF WalkLoadHead
      <4> QED BY <4>1, <4>2
    <3>4. CASE WalkStop(p)
      BY <3>4, SMTT(60) DEF WalkStop, WalkDone, TypeOK
    <3>2. CASE WalkNext(p)
      <4>1. \A o : LenAt(mem, o) \subseteq Nat
        <5>1. \A e \in Entries : HdrLen(e) \in Nat
          BY CutFacts, SizesAssumption, SMTT(60) DEF HdrLen
        <5> QED BY <5>1, SizesAssumption, SMTT(60) DEF LenAt
      <4>2. PICK n \in LenAt(mem, tmp[p]) :
              LET next == tmp[p] + LehdrSize + n + WordLength
              IN IF next < rtail[p]
                 THEN tmp' = [tmp EXCEPT ![p] = next] /\ UNCHANGED <<pc, rtail>>
                 ELSE WalkDone(p)
        BY <3>2 DEF WalkNext
      <4>3. tmp[p] + LehdrSize + n + WordLength \in Nat
        BY <4>1, SizesAssumption DEF TypeOK
      <4>4. CASE tmp[p] + LehdrSize + n + WordLength < rtail[p]
        BY <4>2, <4>3, <4>4 DEF TypeOK
      <4>5. CASE ~(tmp[p] + LehdrSize + n + WordLength < rtail[p])
        <5>1. WalkDone(p)
          BY <4>2, <4>5
        <5> QED BY <1>t, <5>1 DEF WalkDone
      <4> QED BY <4>4, <4>5, SMTT(60)
    <3> QED BY <3>1, <3>2, <3>3, <3>4
  <2> QED BY <1>0, <2>1, <2>2, Zenon DEF TypeOK
<1>2. LifeInv'
  BY <1>0 DEF LifeInv, TypeOK, Ctor
<1>3. HeaderInv'
  BY <1>0, SMTT(60) DEF HeaderInv, TypeOK, HdrOK
<1>4. ChainInv'
  BY <1>0 DEF ChainInv, Bound
<1>5. WalkInv'
  <2>a. DOMAIN pc = Procs /\ DOMAIN rtail = Procs /\ DOMAIN tmp = Procs
    BY <1>t
  <2>b. hdr' = hdr /\ ents' = ents
    BY <1>0, Zenon
  <2>c. rtail = [rtail EXCEPT ![p] = rtail[p]] /\ tmp = [tmp EXCEPT ![p] = tmp[p]]
        /\ pc = [pc EXCEPT ![p] = pc[p]]
    BY <1>t, Zenon
  <2>l. ASSUME pc[p] \in {"walkHead", "walk"}
        PROVE  listed /\ hdr["head"] = LhdrSize /\ hdr["tail"] = Bound(Len(ents))
    <3>1. listed
      BY <2>l DEF LifeInv, Ctor
    <3> QED BY <3>1, Zenon DEF HeaderInv, HdrOK, ChainInv
  <2>1. CASE WalkLoadTail(p)
    <3>1. /\ pc' = [pc EXCEPT ![p] = "walkHead"] /\ tmp' = [tmp EXCEPT ![p] = tmp[p]]
          /\ rtail' = [rtail EXCEPT ![p] = hdr["tail"]]
      BY <2>1, <2>c, Zenon DEF WalkLoadTail, Goto
    <3>2. "walkHead" # "walk" /\ hdr["tail"] <= hdr["tail"]
      BY <1>t
    <3> QED BY <2>a, <2>b, <3>1, <3>2, WalkOne, Zenon
  <2>2. CASE WalkLoadHead(p)
    <3>1. CASE hdr["head"] >= rtail[p]
      <4>1. /\ pc' = [pc EXCEPT ![p] = "idle"] /\ tmp' = [tmp EXCEPT ![p] = tmp[p]]
            /\ rtail' = [rtail EXCEPT ![p] = 0]
        BY <2>2, <2>c, <3>1, Zenon DEF WalkLoadHead, Goto
      <4> QED BY <2>a, <2>b, <4>1, WalkOne, Zenon
    <3>2. CASE ~(hdr["head"] >= rtail[p])
      <4>1. listed /\ hdr["head"] = LhdrSize /\ hdr["tail"] = Bound(Len(ents))
        <5>1. pc[p] = "walkHead"
          BY <2>2 DEF WalkLoadHead
        <5> QED BY <2>l, <5>1
      <4>2. LhdrSize < rtail[p] /\ rtail[p] <= hdr["tail"]
            /\ LhdrSize \in Nat /\ hdr["tail"] \in Nat /\ rtail[p] \in Nat
        <5>1. pc[p] = "walkHead"
          BY <2>2 DEF WalkLoadHead
        <5>2. rtail[p] <= hdr["tail"]
          BY <5>1, Zenon DEF WalkInv
        <5>3. rtail[p] \in Nat /\ LhdrSize \in Nat
          BY <1>t, <4>1
        <5> QED BY <1>t, <3>2, <4>1, <5>2, <5>3
      <4>3. Len(ents) \in Nat \ {0}
        BY <4>1, <4>2 DEF Bound, TypeOK
      <4>4. 1 \in 1..Len(ents) /\ ents[1].off = LhdrSize
        BY <4>3 DEF ChainInv, Bound
      <4>5. /\ pc' = [pc EXCEPT ![p] = "walk"] /\ rtail' = [rtail EXCEPT ![p] = rtail[p]]
            /\ tmp' = [tmp EXCEPT ![p] = LhdrSize]
        BY <2>2, <2>c, <3>2, <4>1, Zenon DEF WalkLoadHead, Goto
      <4> QED BY <2>a, <2>b, <4>2, <4>4, <4>5, WalkOne, Zenon
    <3> QED BY <3>1, <3>2
  <2>d. ASSUME WalkDone(p) PROVE WalkInv'
    BY <2>a, <2>b, <2>d, WalkOne, Zenon DEF WalkDone, Goto
  <2>3. CASE WalkStop(p)
    BY <2>3, <2>d DEF WalkStop
  <2>4. CASE WalkNext(p)
    <3>1. PICK i \in 1..Len(ents) : ents[i].off = tmp[p]
      BY <2>4, SMTT(60) DEF WalkNext, WalkInv
    <3> DEFINE x == ents[i]
               e == ents[i].ent
               next == EndOf(ents[i])
    <3>2. /\ x.off \in Nat /\ e \in Entries /\ Size(e) \in Nat
          /\ LehdrSize <= Size(e) /\ next \in Nat /\ x.off \in Offsets
      <4>1. /\ x.off \in Nat /\ e \in Entries /\ Size(e) \in Nat
            /\ LehdrSize <= Size(e) /\ next \in Nat
            /\ x.off..(next - 1) \subseteq Offsets
        BY EntryFacts
      <4>2. x.off \in x.off..(next - 1)
        BY <4>1, SizesAssumption, SMTT(60) DEF EndOf
      <4> QED BY <4>1, <4>2
    <3>3. mem[tmp[p]] = [ent |-> e, pos |-> 0]
      <4>1. \A k \in 0..(Size(e) - 1) : mem[x.off + k] = [ent |-> e, pos |-> k]
        BY DEF ChainInv, Intact
      <4>2. 0 \in 0..(Size(e) - 1)
        BY <3>2, SizesAssumption
      <4>3. mem[x.off + 0] = [ent |-> e, pos |-> 0]
        BY <4>1, <4>2, SMTT(60)
      <4> QED BY <3>1, <3>2, <4>3, SMTT(60)
    <3>4. LenAt(mem, tmp[p]) = {HdrLen(e)}
      BY <3>1, <3>2, <3>3, SMTT(60) DEF LenAt
    <3>5. tmp[p] + LehdrSize + HdrLen(e) + WordLength = next
      BY <3>1, <3>2, SizesAssumption DEF HdrLen, EndOf
    <3>a. IF next < rtail[p] THEN tmp' = [tmp EXCEPT ![p] = next] /\ UNCHANGED <<pc, rtail>>
                             ELSE WalkDone(p)
      <4>1. PICK n \in LenAt(mem, tmp[p]) :
              IF tmp[p] + LehdrSize + n + WordLength < rtail[p]
              THEN /\ tmp' = [tmp EXCEPT ![p] = tmp[p] + LehdrSize + n + WordLength]
                   /\ UNCHANGED <<pc, rtail>>
              ELSE WalkDone(p)
        BY <2>4, Zenon DEF WalkNext
      <4>2. n = HdrLen(e)
        BY <3>4, <4>1, Zenon
      <4> QED BY <3>5, <4>1, <4>2, Zenon
    <3>6. CASE next < rtail[p]
      <4>1. tmp' = [tmp EXCEPT ![p] = next] /\ UNCHANGED <<pc, rtail>>
        BY <3>a, <3>6, Zenon
      <4>2. listed /\ hdr["tail"] = Bound(Len(ents)) /\ rtail[p] <= hdr["tail"]
        <5>1. pc[p] = "walk"
          BY <2>4 DEF WalkNext
        <5>2. rtail[p] <= hdr["tail"]
          BY <5>1, Zenon DEF WalkInv
        <5>3. listed /\ hdr["tail"] = Bound(Len(ents))
          BY <2>l, <5>1
        <5> QED BY <5>2, <5>3
      <4>3. i # Len(ents)
        BY <3>2, <3>6, <4>2, SMTT(60) DEF Bound, TypeOK, HdrWords
      <4>4. i + 1 \in 1..Len(ents) /\ ents[i + 1].off = next
        <5>1. i + 1 \in 1..Len(ents) /\ i \in Nat \ {0} /\ (i + 1) - 1 = i
          BY <4>3, SMTT(60) DEF TypeOK
        <5> QED BY <5>1, Zenon DEF ChainInv, Bound
      <4>5. pc' = [pc EXCEPT ![p] = "walk"] /\ rtail' = [rtail EXCEPT ![p] = rtail[p]]
        BY <2>4, <2>c, <4>1, Zenon DEF WalkNext
      <4>6. \E j \in 1..Len(ents) : ents[j].off = next
        BY <4>4, Zenon
      <4>7. "walk" \in {"walkHead", "walk"} => rtail[p] <= hdr["tail"]
        BY <4>2
      <4> HIDE DEF next
      <4> QED BY <2>a, <2>b, <3>6, <4>1, <4>5, <4>6, <4>7, WalkOne, Zenon
    <3>7. CASE ~(next < rtail[p])
      <4>1. WalkDone(p)
        BY <3>a, <3>7, Zenon
      <4> QED BY <2>d, <4>1
    <3> QED BY <3>6, <3>7
  <2> QED BY <2>1, <2>2, <2>3, <2>4, Zenon
<1>6. AppendInv'
  <2>1. PICK l \in Walking : pc' = [pc EXCEPT ![p] = l]
    BY <1>0
  <2>2. pc'[p] = l /\ \A q \in Procs : q # p => pc'[q] = pc[q]
    BY <1>t, <2>1
  <2>3. /\ l \in {"idle", "walkHead", "walk", "drainTail"} /\ l \notin Appending
        /\ pc[p] \in {"idle", "walkHead", "walk", "drainTail"}
        /\ l \notin {"copy", "drainData", "flag", "drainFlag", "tail", "drainTail"}
    BY <1>0 DEF Appending
  <2>4. UNCHANGED <<hdr, mem, pm, wo, ent, iov, pend, ents>>
    BY <1>0, Zenon
  <2>5. ASSUME NEW q \in Procs PROVE AppendInv!(q)'
    <3>1. AppendInv!(q)
      BY DEF AppendInv
    <3>2. CASE q = p
      BY <2>2, <2>3, <2>4, <3>1, <3>2, Zenon
    <3>3. CASE q # p
      BY <2>2, <2>4, <3>1, <3>3, Zenon DEF Written, FlagWritten
    <3> QED BY <3>2, <3>3
  <2> QED BY <2>5, Zenon DEF AppendInv
<1> QED BY <1>1, <1>2, <1>3, <1>4, <1>5, <1>6
=============================================================================
