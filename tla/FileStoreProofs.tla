-------------------------- MODULE FileStoreProofs ---------------------------
(***************************************************************************)
(* Proofs about FileStore and TimingStore for every set of keys, sizes,    *)
(* file names and bounds: what put and put_all leave in the files wherever *)
(* they are interrupted, what get reads, and what the times add up to.     *)
(***************************************************************************)
EXTENDS TimingStore, FiniteSets, FiniteSetTheorems, WellFoundedInduction, TLAPS

-----------------------------------------------------------------------------
(* Sums over finite sets: SumFunction does not depend on the order in which *)
(* it takes the elements.                                                   *)

LEMMA SmallestSet ==
  ASSUME NEW B, B # {}, \A s \in B : IsFiniteSet(s)
  PROVE  \E s \in B : \A r \in B : Cardinality(s) <= Cardinality(r)
<1> DEFINE N == {Cardinality(s) : s \in B}
<1>1. N \subseteq Nat /\ N # {}
  BY FS_CardinalityType
<1> HIDE DEF N
<1>2. PICK n \in N : \A m \in N : ~ (<<m, n>> \in OpToRel(<, Nat))
  BY <1>1, WFMin, NatLessThanWellFounded, Zenon
<1>3. ASSUME NEW m \in N PROVE n <= m
  <2>1. <<m, n>> \in Nat \X Nat /\ <<m, n>>[1] = m /\ <<m, n>>[2] = n
    BY <1>1
  <2>2. ~(m < n)
    BY <1>2, <2>1, Zenon DEF OpToRel
  <2> QED BY <1>1, <2>2
<1> QED BY <1>3 DEF N

Pick(s) == CHOOSE x \in s : TRUE

\* One step of the fold, in the sets that g knows.
SumsTo(f, D, g) ==
  g = [s \in D |-> IF s = {} THEN 0 ELSE f[Pick(s)] + g[s \ {Pick(s)}]]

LEMMA OneLess ==
  ASSUME NEW s, IsFiniteSet(s), NEW x \in s
  PROVE  /\ IsFiniteSet(s \ {x}) /\ Cardinality(s \ {x}) = Cardinality(s) - 1
         /\ Cardinality(s) \in Nat \ {0} /\ Cardinality(s \ {x}) \in Nat
<1>1. IsFiniteSet(s \ {x}) /\ Cardinality(s \ {x}) = Cardinality(s) - 1
  BY FS_RemoveElement, Zenon
<1>2. Cardinality(s) \in Nat /\ Cardinality(s \ {x}) \in Nat
  BY <1>1, FS_CardinalityType
<1> QED BY <1>1, <1>2

LEMMA Picked ==
  ASSUME NEW s, s # {}
  PROVE  Pick(s) \in s
BY Zenon DEF Pick

LEMMA SumExists ==
  ASSUME NEW f, NEW S, IsFiniteSet(S)
  PROVE  \E g : SumsTo(f, SUBSET S, g)
<1> DEFINE D(n) == {s \in SUBSET S : Cardinality(s) <= n}
           Bad == {n \in Nat : ~ \E g : SumsTo(f, D(n), g)}
<1>1. \A s \in SUBSET S : IsFiniteSet(s) /\ Cardinality(s) \in Nat
  BY FS_Subset, FS_CardinalityType
<1>2. ASSUME Bad # {} PROVE FALSE
  <2>1. PICK n \in Bad : \A m \in Bad : ~ (<<m, n>> \in OpToRel(<, Nat))
    <3>1. Bad \subseteq Nat
      OBVIOUS
    <3> HIDE DEF Bad
    <3> QED BY <1>2, <3>1, WFMin, NatLessThanWellFounded, Zenon
  <2>2. CASE n = 0
    <3>1. \A s \in D(0) : s = {}
      BY <1>1, FS_EmptySet
    <3>2. SumsTo(f, D(0), [s \in D(0) |-> 0])
      BY <3>1 DEF SumsTo
    <3> QED BY <2>1, <2>2, <3>2
  <2>3. CASE n # 0
    <3>1. n - 1 \in Nat /\ n \in Nat
      BY <2>3
    <3>2. n - 1 \notin Bad
      <4>1. <<n - 1, n>> \in Nat \X Nat /\ <<n - 1, n>>[1] = n - 1 /\ <<n - 1, n>>[2] = n
            /\ n - 1 < n
        BY <3>1
      <4> HIDE DEF Bad
      <4> QED BY <2>1, <4>1, Zenon DEF OpToRel
    <3>3. PICK g : SumsTo(f, D(n - 1), g)
      BY <3>1, <3>2
    <3> DEFINE h == [s \in D(n) |-> IF s = {} THEN 0 ELSE f[Pick(s)] + g[s \ {Pick(s)}]]
    <3>4. ASSUME NEW s \in D(n), s # {}
          PROVE  s \ {Pick(s)} \in D(n - 1) /\ s \ {Pick(s)} \in D(n)
      <4>1. Pick(s) \in s
        BY <3>4, Picked
      <4>2. Cardinality(s \ {Pick(s)}) = Cardinality(s) - 1 /\ Cardinality(s) \in Nat
        BY <1>1, <4>1, OneLess
      <4> QED BY <3>1, <4>2
    <3>5. \A s \in D(n - 1) : h[s] = g[s]
      <4>1. D(n - 1) \subseteq D(n)
        BY <1>1, <3>1
      <4> HIDE DEF D
      <4> QED BY <3>3, <4>1 DEF SumsTo
    <3>6. SumsTo(f, D(n), h)
      <4> HIDE DEF D
      <4> QED BY <3>4, <3>5 DEF SumsTo
    <3> HIDE DEF h, D
    <3> QED BY <3>6
  <2> QED BY <2>2, <2>3
<1>3. Cardinality(S) \in Nat /\ D(Cardinality(S)) = SUBSET S
  BY <1>1, FS_Subset
<1>4. \E g : SumsTo(f, D(Cardinality(S)), g)
  BY <1>2, <1>3
<1> QED BY <1>3, <1>4, Zenon

LEMMA SumFact ==
  ASSUME NEW f, NEW S, IsFiniteSet(S)
  PROVE  \E g : SumsTo(f, SUBSET S, g) /\ SumFunctionOnSet(f, S) = g[S]
<1>1. PICK h : SumsTo(f, SUBSET S, h)
  BY SumExists, Zenon
<1> QED BY <1>1, Zenon DEF SumsTo, Pick, SumFunctionOnSet, FoldFunctionOnSet, MapThenFoldSet

LEMMA SumsSame ==
  ASSUME NEW f, NEW g, NEW S, NEW T, NEW a, NEW b,
         SumsTo(f, SUBSET S, a), SumsTo(g, SUBSET T, b),
         NEW s, IsFiniteSet(s), s \subseteq S, s \subseteq T, \A x \in s : f[x] = g[x]
  PROVE  a[s] = b[s]
<1> DEFINE Bad == {r \in SUBSET s : a[r] # b[r]}
<1>1. ASSUME Bad # {} PROVE FALSE
  <2>1. \A r \in Bad : IsFiniteSet(r)
    BY FS_Subset
  <2>2. PICK r \in Bad : \A q \in Bad : Cardinality(r) <= Cardinality(q)
    <3> HIDE DEF Bad
    <3> QED BY <1>1, <2>1, SmallestSet, Zenon
  <2>3. r # {}
    BY DEF SumsTo
  <2>4. PICK x : x = Pick(r) /\ x \in r
    BY <2>3, Picked, Zenon
  <2>5. r \ {x} \notin Bad
    <3>1. Cardinality(r \ {x}) = Cardinality(r) - 1 /\ Cardinality(r) \in Nat
      BY <2>1, <2>4, OneLess
    <3> HIDE DEF Bad
    <3> QED BY <2>2, <3>1
  <2>6. a[r] = f[x] + a[r \ {x}] /\ b[r] = g[x] + b[r \ {x}]
    BY <2>3, <2>4 DEF SumsTo
  <2> QED BY <2>4, <2>5, <2>6
<1> QED BY <1>1

LEMMA SumsType ==
  ASSUME NEW f, NEW S, NEW a, SumsTo(f, SUBSET S, a), IsFiniteSet(S),
         \A x \in S : f[x] \in Int
  PROVE  \A s \in SUBSET S : a[s] \in Int
<1> DEFINE Bad == {r \in SUBSET S : a[r] \notin Int}
<1>1. ASSUME Bad # {} PROVE FALSE
  <2>1. \A r \in Bad : IsFiniteSet(r)
    BY FS_Subset
  <2>2. PICK r \in Bad : \A q \in Bad : Cardinality(r) <= Cardinality(q)
    <3> HIDE DEF Bad
    <3> QED BY <1>1, <2>1, SmallestSet, Zenon
  <2>3. r # {}
    BY DEF SumsTo
  <2>4. PICK x : x = Pick(r) /\ x \in r
    BY <2>3, Picked, Zenon
  <2>5. r \ {x} \notin Bad
    <3>1. Cardinality(r \ {x}) = Cardinality(r) - 1 /\ Cardinality(r) \in Nat
      BY <2>1, <2>4, OneLess
    <3> HIDE DEF Bad
    <3> QED BY <2>2, <3>1
  <2>6. a[r] = f[x] + a[r \ {x}]
    BY <2>3, <2>4 DEF SumsTo
  <2> QED BY <2>4, <2>5, <2>6
<1> QED BY <1>1

FirstOf(f, S, g, x) == g[S] = f[x] + g[S \ {x}]

\* Any element may be taken first.
LEMMA SumsTake ==
  ASSUME NEW f, NEW S, NEW a, SumsTo(f, SUBSET S, a), IsFiniteSet(S),
         \A x \in S : f[x] \in Int, NEW y \in S
  PROVE  FirstOf(f, S, a, y)
<1> DEFINE Bad == {r \in SUBSET S : \E x \in r : a[r] # f[x] + a[r \ {x}]}
<1>1. ASSUME Bad # {} PROVE FALSE
  <2>1. \A r \in Bad : IsFiniteSet(r)
    BY FS_Subset
  <2>2. PICK r \in Bad : \A q \in Bad : Cardinality(r) <= Cardinality(q)
    <3> HIDE DEF Bad
    <3> QED BY <1>1, <2>1, SmallestSet, Zenon
  <2>3. PICK x \in r : a[r] # f[x] + a[r \ {x}]
    OBVIOUS
  <2>4. PICK c : c = Pick(r) /\ c \in r
    BY <2>3, Picked, Zenon
  <2>5. a[r] = f[c] + a[r \ {c}]
    BY <2>3, <2>4 DEF SumsTo
  <2>6. x # c
    BY <2>3, <2>5
  <2>7. r \ {x} \notin Bad /\ r \ {c} \notin Bad
    <3>1. /\ Cardinality(r \ {x}) = Cardinality(r) - 1 /\ Cardinality(r) \in Nat
          /\ Cardinality(r \ {c}) = Cardinality(r) - 1
      BY <2>1, <2>4, OneLess
    <3> HIDE DEF Bad
    <3> QED BY <2>2, <3>1
  <2>8. a[r \ {c}] = f[x] + a[(r \ {c}) \ {x}] /\ a[r \ {x}] = f[c] + a[(r \ {x}) \ {c}]
    BY <2>4, <2>6, <2>7
  <2>9. (r \ {c}) \ {x} = (r \ {x}) \ {c} /\ (r \ {c}) \ {x} \in SUBSET S
    OBVIOUS
  <2>10. f[x] \in Int /\ f[c] \in Int
    BY <2>4
  <2>11. \A s \in SUBSET S : a[s] \in Int
    BY SumsType, Zenon
  <2> DEFINE q == a[(r \ {c}) \ {x}]
  <2>12. q \in Int /\ a[r] = f[c] + (f[x] + q) /\ a[r \ {x}] = f[c] + q
    BY <2>5, <2>8, <2>9, <2>11
  <2> HIDE DEF q
  <2>13. a[r] = f[x] + a[r \ {x}]
    BY <2>10, <2>12
  <2> QED BY <2>3, <2>13
<1>2. a[S] = f[y] + a[S \ {y}]
  BY <1>1
<1> QED BY <1>2 DEF FirstOf

LEMMA SumEmpty ==
  ASSUME NEW f, DOMAIN f = {}
  PROVE  SumFunction(f) = 0
<1>1. PICK a : SumsTo(f, SUBSET {}, a) /\ SumFunctionOnSet(f, {}) = a[{}]
  BY SumFact, FS_EmptySet, Zenon
<1> QED BY <1>1 DEF SumFunction, SumsTo

LEMMA SumAdd ==
  ASSUME NEW f, NEW g, IsFiniteSet(DOMAIN f), NEW x, x \notin DOMAIN f,
         DOMAIN g = DOMAIN f \cup {x}, \A y \in DOMAIN f : g[y] = f[y],
         \A y \in DOMAIN g : g[y] \in Int
  PROVE  SumFunction(g) = SumFunction(f) + g[x]
<1> DEFINE S == DOMAIN f
           T == DOMAIN g
<1>1. IsFiniteSet(S) /\ IsFiniteSet(T)
  BY FS_AddElement
<1>2. /\ S \subseteq T /\ T \ {x} = S /\ x \in T /\ T \in SUBSET T
      /\ \A y \in S : f[y] = g[y]
  OBVIOUS
<1>3. (\A y \in T : g[y] \in Int) /\ (\A y \in S : f[y] \in Int)
  OBVIOUS
<1>4. SumFunction(f) = SumFunctionOnSet(f, S) /\ SumFunction(g) = SumFunctionOnSet(g, T)
  BY Zenon DEF SumFunction
<1> HIDE DEF S, T
<1>5. PICK a : SumsTo(f, SUBSET S, a) /\ SumFunctionOnSet(f, S) = a[S]
  BY <1>1, SumFact, Zenon
<1>6. PICK b : SumsTo(g, SUBSET T, b) /\ SumFunctionOnSet(g, T) = b[T]
  BY <1>1, SumFact, Zenon
<1>7. FirstOf(g, T, b, x)
  BY <1>1, <1>2, <1>3, <1>6, SumsTake, Zenon
<1>8. a[S] = b[S]
  BY <1>1, <1>2, <1>5, <1>6, SumsSame
<1>9. \A s \in SUBSET S : a[s] \in Int
  BY <1>1, <1>3, <1>5, SumsType, Zenon
<1>10. \A s \in SUBSET T : b[s] \in Int
  BY <1>1, <1>3, <1>6, SumsType, Zenon
<1>11. b[T] = g[x] + b[S] /\ a[S] \in Int /\ g[x] \in Int
  BY <1>2, <1>3, <1>7, <1>9, <1>10 DEF FirstOf
<1> QED BY <1>4, <1>5, <1>6, <1>8, <1>11

-----------------------------------------------------------------------------
(* Contents and names. *)

LEMMA UnitsFacts ==
  /\ \A u \in Units : u \in Seq(Vals) /\ Len(u) \in Nat /\ u # None
  /\ \A w \in Units : \A u \in Seq(Vals) : Len(u) <= Len(w) => u \in Units
  /\ \A k \in Keys : <<>> \in Units
<1>1. \A k \in Keys : Size[k] \in Nat
  BY FileAssumption
<1>2. None \notin Units
  BY FileAssumption
<1> QED BY <1>1, <1>2 DEF Units

LEMMA NameFacts ==
  /\ \A k \in Keys, v \in PutVers : PutFile[k][v] \in Files
  /\ \A k \in Keys, v \in Versions : SnapFile[k][v] \in Files
  /\ None \notin Files /\ None \notin Keys
  /\ \A k \in Keys : KeyOrder[Pos(k)] = k /\ Pos(k) \in Nat
<1>1. None \notin Files /\ None \notin Keys
  BY FileAssumption
<1>2. ASSUME NEW k \in Keys PROVE KeyOrder[Pos(k)] = k /\ Pos(k) \in Nat
  <2>1. DOMAIN KeyOrder = 1..Len(KeyOrder) /\ Len(KeyOrder) \in Nat
    BY FileAssumption
  <2>2. \E i \in DOMAIN KeyOrder : KeyOrder[i] = k
    BY DEF Keys, Range
  <2>3. Pos(k) \in DOMAIN KeyOrder /\ KeyOrder[Pos(k)] = k
    BY <2>2, Zenon DEF Pos
  <2> QED BY <2>1, <2>3
<1> QED BY <1>1, <1>2 DEF Files

IsPrefix(s, t) == Len(s) <= Len(t) /\ s = SubSeq(t, 1, Len(s))

LEMMA PrefixFacts ==
  ASSUME NEW s \in Seq(Vals), NEW t \in Seq(Vals)
  PROVE  IsPrefix(s, t) <=> Len(s) <= Len(t) /\ \A i \in 1..Len(s) : s[i] = t[i]
<1>1. CASE Len(s) <= Len(t)
  <2>2. /\ SubSeq(t, 1, Len(s)) \in Seq(Vals) /\ Len(SubSeq(t, 1, Len(s))) = Len(s)
        /\ \A i \in 1..Len(s) : SubSeq(t, 1, Len(s))[i] = t[i]
    BY <1>1
  <2> DEFINE q == SubSeq(t, 1, Len(s))
  <2>3. q = s <=> \A i \in 1..Len(s) : s[i] = q[i]
    <3> HIDE DEF q
    <3> QED BY <2>2 DEF q
  <2> QED BY <1>1, <2>2, <2>3 DEF IsPrefix
<1>2. CASE ~(Len(s) <= Len(t))
  BY <1>2 DEF IsPrefix
<1> QED BY <1>1, <1>2

LEMMA EmptyPrefix ==
  ASSUME NEW t \in Seq(Vals)
  PROVE  IsPrefix(<<>>, t)
<1> DEFINE s == <<>>
<1>1. s \in Seq(Vals) /\ Len(s) = 0
  OBVIOUS
<1> HIDE DEF s
<1>2. Len(s) <= Len(t) /\ \A i \in 1..Len(s) : s[i] = t[i]
  BY <1>1
<1>3. IsPrefix(s, t)
  BY <1>1, <1>2, PrefixFacts, Zenon
<1> QED BY <1>3 DEF s

LEMMA PrefixRest ==
  ASSUME NEW s \in Seq(Vals), NEW t \in Seq(Vals), IsPrefix(s, t)
  PROVE  s \o SubSeq(t, Len(s) + 1, Len(t)) = t
<1> DEFINE q == SubSeq(t, Len(s) + 1, Len(t))
           w == s \o q
<1>1. Len(s) <= Len(t) /\ \A i \in 1..Len(s) : s[i] = t[i]
  BY PrefixFacts, Zenon
<1>2. /\ q \in Seq(Vals) /\ Len(q) = Len(t) - Len(s)
      /\ \A i \in 1..Len(q) : q[i] = t[Len(s) + i]
  BY <1>1
<1> HIDE DEF q
<1>3. /\ w \in Seq(Vals) /\ Len(w) = Len(t)
      /\ \A i \in 1..Len(t) : w[i] = IF i <= Len(s) THEN s[i] ELSE q[i - Len(s)]
  BY <1>1, <1>2
<1> HIDE DEF w
<1>4. \A i \in 1..Len(t) : w[i] = t[i]
  BY <1>1, <1>2, <1>3
<1>5. w = t
  BY <1>3, <1>4
<1> QED BY <1>5 DEF w, q

-----------------------------------------------------------------------------
(* Every step preserves FileInv. *)

LEMMA FileInitInv == FileInit => FileInv
<1> SUFFICES ASSUME FileInit PROVE FileInv
  OBVIOUS
<1> USE DEF FileInit
<1>1. FileTypeOK
  BY FileAssumption DEF FileTypeOK, NoCur
<1>2. WriteInv /\ ReadInv
  BY DEF WriteInv, ReadInv, Writing, InPutAll, NoCur
<1>3. OnlyKillsTear /\ SnapshotPrefix
  BY DEF OnlyKillsTear, SnapshotPrefix, InPutAll, NoCur
<1> QED BY <1>1, <1>2, <1>3 DEF FileInv

\* Between two operations only the types of mem and ver matter.
LEMMA IdleStep ==
  ASSUME FileInv, pc = "idle",
         mem' \in [Keys -> Units \cup {None}], ver' \in [Keys -> 0..MaxVer],
         UNCHANGED <<pc, todo, cur, total, files, opens, reader, want, cut, rwant>>
  PROVE  FileInv'
<1> USE DEF FileInv, reader
<1>1. cur = NoCur
  BY DEF WriteInv, Writing
<1>2. FileTypeOK'
  BY DEF FileTypeOK
<1>3. WriteInv' /\ SnapshotPrefix'
  BY <1>1 DEF WriteInv, Writing, SnapshotPrefix, InPutAll, NoCur
<1>4. ReadInv' /\ OnlyKillsTear'
  BY DEF ReadInv, OnlyKillsTear
<1> QED BY <1>2, <1>3, <1>4

LEMMA CreateStep ==
  ASSUME FileInv, NEW k \in Keys, CreateObj(k)
  PROVE  FileInv'
<1>1. PICK x \in Vals : mem' = [mem EXCEPT ![k] = [i \in 1..Size[k] |-> x]]
  BY DEF CreateObj
<1>2. Size[k] \in Nat
  BY FileAssumption
<1>3. [i \in 1..Size[k] |-> x] \in Seq(Vals) /\ Len([i \in 1..Size[k] |-> x]) = Size[k]
  BY <1>2
<1>4. [i \in 1..Size[k] |-> x] \in Units
  BY <1>2, <1>3 DEF Units
<1> DEFINE w == [i \in 1..Size[k] |-> x]
<1>5. mem' = [mem EXCEPT ![k] = w] /\ w \in Units
  BY <1>1, <1>4
<1> HIDE DEF w
<1>6. mem' \in [Keys -> Units \cup {None}]
  BY <1>5 DEF FileInv, FileTypeOK
<1>7. ver' \in [Keys -> 0..MaxVer]
  BY FileAssumption DEF FileInv, FileTypeOK, CreateObj
<1> QED BY <1>6, <1>7, IdleStep DEF CreateObj

LEMMA StoreStep ==
  ASSUME FileInv, NEW k \in Keys, NEW x \in Vals, Store(k, x)
  PROVE  FileInv'
<1> DEFINE u == mem[k]
           w == [i \in DOMAIN u |-> x]
<1>1. u \in Units
  BY DEF Store, Has, FileInv, FileTypeOK
<1>2. u \in Seq(Vals) /\ Len(u) \in Nat
  BY <1>1, UnitsFacts
<1>3. w \in Seq(Vals) /\ Len(w) = Len(u)
  <2> HIDE DEF u
  <2> QED BY <1>2
<1>4. w \in Units
  <2> HIDE DEF u, w
  <2> QED BY <1>1, <1>2, <1>3, UnitsFacts
<1>5. mem' \in [Keys -> Units \cup {None}] /\ ver' \in [Keys -> 0..MaxVer]
  BY <1>4 DEF FileInv, FileTypeOK, Store
<1> QED BY <1>5, IdleStep DEF Store

LEMMA GetWithMallocStep ==
  ASSUME FileInv, NEW k \in Keys, NEW v \in PutVers, GetWithMalloc(k, v)
  PROVE  FileInv'
<1> DEFINE d == files[PutFile[k][v]]
           u == mem[k]
           w == ReadInto(u, d)
<1>1. d \in Units
  BY NameFacts DEF GetWithMalloc, FileInv, FileTypeOK
<1>2. ASSUME Has(k) PROVE w \in Units
  <2>1. u \in Units
    BY <1>2 DEF Has, FileInv, FileTypeOK
  <2>2. d \in Seq(Vals) /\ u \in Seq(Vals)
    BY <1>1, <2>1, UnitsFacts
  <2> HIDE DEF d, u
  <2>3. \A i \in 1..Len(u) : (IF i <= Len(d) THEN d[i] ELSE u[i]) \in Vals
    BY <2>2
  <2>4. w \in Seq(Vals) /\ Len(w) = Len(u)
    BY <2>2, <2>3 DEF ReadInto
  <2> HIDE DEF w
  <2> QED BY <2>1, <2>2, <2>4, UnitsFacts
<1>3. mem' = [mem EXCEPT ![k] = IF Has(k) THEN w ELSE d]
  BY DEF GetWithMalloc
<1>4. mem' \in [Keys -> Units \cup {None}]
  <2> HIDE DEF w, d
  <2> QED BY <1>1, <1>2, <1>3 DEF FileInv, FileTypeOK
<1>5. ver' \in [Keys -> 0..MaxVer]
  BY FileAssumption DEF GetWithMalloc, FileInv, FileTypeOK, Versions
<1> QED BY <1>4, <1>5, IdleStep DEF GetWithMalloc

\* The reader writes nothing the writer reads.
LEMMA ReaderKeeps ==
  ASSUME FileInv, FileTypeOK', ReadInv', UNCHANGED <<writer, files, opens, want, cut>>
  PROVE  FileInv'
<1> USE DEF FileInv, writer
<1>1. WriteInv'
  BY DEF WriteInv, Writing, InPutAll, Has
<1>2. OnlyKillsTear'
  BY DEF OnlyKillsTear
<1>3. SnapshotPrefix'
  BY Zenon DEF SnapshotPrefix, InPutAll, Done, Has
<1> QED BY <1>1, <1>2, <1>3

LEMMA GetFileSizeStep ==
  ASSUME FileInv, NEW k \in Keys, NEW v \in PutVers, GetFileSize(k, v)
  PROVE  FileInv'
<1> DEFINE f == PutFile[k][v]
<1> USE DEF FileInv, GetFileSize, writer
<1>1. f \in Files /\ files[f] \in Units
  BY NameFacts DEF FileTypeOK
<1>2. files[f] \in Seq(Vals) /\ Len(files[f]) \in Nat
  BY <1>1, UnitsFacts
<1>3. /\ files[f] # None /\ rpc' = "sized" /\ rfile' = f /\ rsize' = Len(files[f])
      /\ rgot' = <<>> /\ rwant' = IF Settled(f) THEN want[f] ELSE None
  OBVIOUS
<1> HIDE DEF f
<1>4. rwant' # None => rwant' = files[f] /\ f # cur.file
  BY <1>1, <1>3 DEF OnlyKillsTear, Settled
<1>5. FileTypeOK'
  BY <1>1, <1>2, <1>3, <1>4 DEF FileTypeOK
<1>6. IsPrefix(<<>>, files[f])
  BY <1>2, EmptyPrefix
<1>7. ReadInv'
  BY <1>1, <1>3, <1>4, <1>6 DEF ReadInv, IsPrefix
<1> QED BY <1>5, <1>7, ReaderKeeps

LEMMA GetReadStep ==
  ASSUME FileInv, GetRead
  PROVE  FileInv'
<1> USE DEF FileInv, GetRead, writer
<1> DEFINE u == files[rfile]
           n == Len(rgot)
<1>1. u \in Units /\ rgot \in Seq(Vals) /\ rsize \in Nat /\ n \in Nat
  BY DEF ReadInv, FileTypeOK
<1>2. u \in Seq(Vals) /\ Len(u) \in Nat
  BY <1>1, UnitsFacts
<1>3. rgot' = Append(rgot, u[n + 1]) /\ n < rsize /\ n < Len(u)
  OBVIOUS
<1> HIDE DEF u, n
<1>4. /\ rgot' \in Seq(Vals) /\ Len(rgot') = n + 1 /\ rgot'[n + 1] = u[n + 1]
      /\ \A i \in 1..n : rgot'[i] = rgot[i]
  BY <1>1, <1>2, <1>3 DEF n
<1>5. FileTypeOK'
  BY <1>1, <1>3, <1>4 DEF FileTypeOK
<1>6. ASSUME rwant # None PROVE IsPrefix(rgot', rwant)
  <2>1. u = rwant /\ IsPrefix(rgot, u)
    BY <1>6 DEF ReadInv, FileTypeOK, IsPrefix, u
  <2>2. \A i \in 1..n : rgot[i] = u[i]
    BY <1>1, <1>2, <2>1, PrefixFacts DEF n
  <2>3. Len(rgot') <= Len(u) /\ \A i \in 1..Len(rgot') : rgot'[i] = u[i]
    BY <1>1, <1>2, <1>3, <1>4, <2>2
  <2>4. IsPrefix(rgot', u)
    BY <1>2, <1>4, <2>3, PrefixFacts, Zenon
  <2> QED BY <2>1, <2>4
<1>7. ReadInv'
  BY <1>6 DEF ReadInv, IsPrefix
<1> QED BY <1>5, <1>7, ReaderKeeps

LEMMA ReaderInv ==
  ASSUME FileInv, ReaderStep
  PROVE  FileInv'
<1>1. CASE \E k \in Keys, v \in PutVers : GetFileSize(k, v)
  BY <1>1, GetFileSizeStep
<1>2. CASE GetOpen
  <2>1. FileTypeOK' /\ ReadInv'
    BY <1>2 DEF GetOpen, FileInv, FileTypeOK, ReadInv, writer
  <2> QED BY <1>2, <2>1, ReaderKeeps DEF GetOpen
<1>3. CASE GetRead
  BY <1>3, GetReadStep
<1>4. CASE GetReturn
  <2>1. FileTypeOK' /\ ReadInv'
    BY <1>4 DEF GetReturn, ReaderDone, FileInv, FileTypeOK, ReadInv, writer
  <2> QED BY <1>4, <2>1, ReaderKeeps DEF GetReturn
<1> QED BY <1>1, <1>2, <1>3, <1>4 DEF ReaderStep

LEMMA EndsStep ==
  ASSUME FileInv, Ends
  PROVE  FileInv'
<1> USE DEF FileInv, Ends, reader
<1>1. FileTypeOK'
  BY FileAssumption DEF FileTypeOK, NoCur
<1>2. WriteInv' /\ SnapshotPrefix'
  BY DEF WriteInv, Writing, SnapshotPrefix, InPutAll, NoCur
<1>3. ReadInv'
  BY NameFacts DEF ReadInv, NoCur
<1>4. OnlyKillsTear'
  BY NameFacts DEF OnlyKillsTear, NoCur
<1> QED BY <1>1, <1>2, <1>3, <1>4

LEMMA FopenStep ==
  ASSUME FileInv, ~Writing, NEW k \in Keys, NEW v \in 0..MaxVer, NEW f \in Files,
         Has(k), Fopen(k, v, f), todo' \subseteq Keys, UNCHANGED total,
         v # 0 => /\ v = ver[k] + 1 /\ f = SnapFile[k][v]
                  /\ k \notin todo' /\ \A l \in todo' : Has(l) /\ Pos(k) < Pos(l)
  PROVE  FileTypeOK' /\ WriteInv' /\ ReadInv' /\ OnlyKillsTear'
<1> USE DEF FileInv, Fopen, reader
<1>1. cur.file = None /\ None \notin Files /\ opens \in Nat /\ MaxOpens \in Nat
  BY FileAssumption DEF WriteInv, NoCur, FileTypeOK
<1>2. mem[k] \in Units /\ <<>> \in Units
  BY UnitsFacts DEF Has, FileTypeOK
<1>3. mem[k] \in Seq(Vals) /\ <<>> # None /\ mem[k] # None
  BY <1>2, UnitsFacts
<1>4. FileTypeOK'
  BY <1>1, <1>2 DEF FileTypeOK
<1>5. IsPrefix(<<>>, mem[k])
  BY <1>3, EmptyPrefix
<1>6. files'[f] = <<>> /\ want'[f] = mem[k] /\ f \notin cut'
  BY DEF FileTypeOK
<1>7. WriteInv'
  BY <1>3, <1>5, <1>6 DEF WriteInv, Writing, InPutAll, Has, IsPrefix
<1>8. ReadInv'
  BY <1>3 DEF ReadInv, FileTypeOK
<1>9. OnlyKillsTear'
  BY <1>1 DEF OnlyKillsTear, FileTypeOK
<1> QED BY <1>4, <1>7, <1>8, <1>9

LEMMA PutOpenStep ==
  ASSUME FileInv, NEW k \in Keys, NEW v \in PutVers, PutOpen(k, v)
  PROVE  FileInv'
<1>1. FileTypeOK' /\ WriteInv' /\ ReadInv' /\ OnlyKillsTear'
  <2>1. ~Writing /\ PutFile[k][v] \in Files /\ 0 \in 0..MaxVer /\ todo' \subseteq Keys
    BY NameFacts, FileAssumption DEF PutOpen, Writing, FileInv, FileTypeOK
  <2> QED BY <2>1, FopenStep DEF PutOpen
<1>2. SnapshotPrefix'
  BY DEF SnapshotPrefix, InPutAll, PutOpen, Fopen
<1> QED BY <1>1, <1>2 DEF FileInv

LEMMA PutAllOpenStep ==
  ASSUME FileInv, PutAllOpen
  PROVE  FileInv'
<1>1. PICK k \in todo : /\ \A l \in todo : Pos(k) <= Pos(l)
                        /\ ver[k] < MaxVer /\ todo' = todo \ {k}
                        /\ Fopen(k, ver[k] + 1, SnapFile[k][ver[k] + 1])
  BY DEF PutAllOpen
<1> DEFINE v == ver[k] + 1
           f == SnapFile[k][v]
<1>2. /\ pc = "next" /\ total' = total /\ cur = NoCur /\ todo \subseteq Keys /\ k \in Keys
      /\ ver \in [Keys -> 0..MaxVer] /\ MaxVer \in Nat /\ \A l \in todo : Has(l)
  BY FileAssumption DEF PutAllOpen, FileInv, FileTypeOK, WriteInv, Writing, InPutAll
<1>3. v \in Versions /\ v \in 0..MaxVer /\ v # 0
  BY <1>1, <1>2 DEF Versions
<1>4. f \in Files
  BY <1>2, <1>3, NameFacts
<1>5. Fopen(k, v, f)
  BY <1>1
<1>6. v = ver[k] + 1 /\ f = SnapFile[k][v]
  OBVIOUS
<1> HIDE DEF v, f
<1>7. FileTypeOK' /\ WriteInv' /\ ReadInv' /\ OnlyKillsTear'
  <2>1. ~Writing /\ todo' \subseteq Keys /\ k \notin todo' /\ \A l \in todo' : Has(l)
    BY <1>1, <1>2 DEF Writing
  <2>2. \A l \in todo' : Pos(k) < Pos(l)
    <3>1. \A l \in Keys : KeyOrder[Pos(l)] = l /\ Pos(l) \in Nat
      BY NameFacts
    <3>2. \A l \in todo' : Pos(k) # Pos(l)
      BY <1>2, <2>1, <3>1, Zenon
    <3> QED BY <1>1, <1>2, <3>1, <3>2
  <2> QED BY <1>2, <1>3, <1>4, <1>5, <1>6, <2>1, <2>2, FopenStep
<1>8. /\ mem' = mem /\ ver' = ver /\ cur' = [key |-> k, snap |-> v, file |-> f]
      /\ files' = [files EXCEPT ![f] = <<>>]
  BY <1>5 DEF Fopen
<1>9. Done' = Done /\ k \notin Done /\ Done \subseteq Keys
  BY <1>1, <1>2, <1>8, NameFacts DEF Done, Has, NoCur
<1>10. /\ \A d \in Done : ver[d] \in Versions /\ files[SnapFile[d][ver[d]]] = mem[d]
       /\ \A d \in Done, l \in todo : Pos(d) < Pos(l)
       /\ total = SumFunction([d \in Done |-> Len(mem[d])])
  BY <1>2 DEF FileInv, SnapshotPrefix, InPutAll
<1>11. \A d \in Done : files'[SnapFile[d][ver[d]]] = mem[d]
  BY <1>2, <1>3, <1>6, <1>8, <1>9, <1>10, SnapFileAssumption DEF FileInv, FileTypeOK
<1>12. \A d \in Done, l \in todo' \cup ({cur'.key} \ {None}) : Pos(d) < Pos(l)
  BY <1>1, <1>8, <1>10
<1>13. total' = SumFunction([d \in Done' |-> Len(mem'[d])])
  BY <1>2, <1>8, <1>9, <1>10
<1>14. SnapshotPrefix'
  BY <1>8, <1>9, <1>10, <1>11, <1>12, <1>13 DEF SnapshotPrefix
<1> QED BY <1>7, <1>14 DEF FileInv

\* put_all does not write to a file of an object that it is done with.
LEMMA DoneFiles ==
  ASSUME FileInv, Writing, cur.snap # 0, NEW d \in Done
  PROVE  SnapFile[d][ver[d]] # cur.file /\ ver[d] \in Versions
<1>1. d \in Keys /\ d # cur.key /\ ver[d] \in Versions
  BY DEF Done, FileInv, SnapshotPrefix, InPutAll
<1>2. /\ cur.key \in Keys /\ cur.file = SnapFile[cur.key][cur.snap] /\ cur.snap \in Versions
  BY FileAssumption DEF FileInv, WriteInv, FileTypeOK, Versions
<1> QED BY <1>1, <1>2, SnapFileAssumption

\* What every step of the writer to its file leaves as it is.
LEMMA FileWritten ==
  ASSUME FileInv, Writing, NEW u \in Units,
         files' = [files EXCEPT ![cur.file] = u],
         UNCHANGED <<opens, reader, want, cut, rwant>>, cur' \in {cur, NoCur}
  PROVE  /\ files' \in [Files -> Units \cup {None}]
         /\ ReadInv'
         /\ cur' = cur \/ u = mem[cur.key] => OnlyKillsTear'
<1> USE DEF FileInv, reader
<1>1. /\ cur.file \in Files /\ want[cur.file] = mem[cur.key] /\ u # None
      /\ files \in [Files -> Units \cup {None}] /\ None \notin Files
  BY UnitsFacts, FileAssumption DEF WriteInv, FileTypeOK
<1>2. files' \in [Files -> Units \cup {None}]
  BY <1>1
<1>3. ReadInv'
  BY <1>1 DEF ReadInv, NoCur
<1>4. ASSUME cur' = cur \/ u = mem[cur.key] PROVE OnlyKillsTear'
  BY <1>1, <1>4 DEF OnlyKillsTear, NoCur
<1> QED BY <1>2, <1>3, <1>4

LEMMA FwriteStep ==
  ASSUME FileInv, Fwrite
  PROVE  FileInv'
<1> DEFINE m == mem[cur.key]
<1>1. PICK n \in 0..Len(m) : files' = [files EXCEPT ![cur.file] = @ \o SubSeq(m, 1, n)]
  BY DEF Fwrite
<1> DEFINE u == SubSeq(m, 1, n)
<1>2. /\ Writing /\ m \in Units /\ files[cur.file] = <<>> /\ cur.file \in Files
      /\ files \in [Files -> Units \cup {None}] /\ cur.key \in Keys
  BY DEF FileInv, Fwrite, Writing, WriteInv, Has, FileTypeOK
<1>3. m \in Seq(Vals) /\ Len(m) \in Nat
  BY <1>2, UnitsFacts
<1> HIDE DEF m
<1>4. u \in Seq(Vals) /\ Len(u) = n /\ (\A i \in 1..n : u[i] = m[i]) /\ <<>> \o u = u
  BY <1>3
<1> HIDE DEF u
<1>5. files' = [files EXCEPT ![cur.file] = u]
  BY <1>1, <1>2, <1>4 DEF u
<1>6. u \in Units
  BY <1>2, <1>3, <1>4, UnitsFacts
<1>7. IsPrefix(u, m)
  <2>1. Len(u) <= Len(m) /\ \A i \in 1..Len(u) : u[i] = m[i]
    BY <1>3, <1>4
  <2> QED BY <1>3, <1>4, <2>1, PrefixFacts, Zenon
<1>8. files' \in [Files -> Units \cup {None}] /\ ReadInv' /\ OnlyKillsTear'
  BY <1>2, <1>5, <1>6, FileWritten DEF Fwrite
<1>9. FileTypeOK'
  BY <1>8 DEF FileInv, FileTypeOK, Fwrite, reader
<1>10. WriteInv'
  <2>1. files'[cur.file] = u /\ u # None
    BY <1>2, <1>5, <1>6, UnitsFacts
  <2> QED BY <1>7, <2>1 DEF FileInv, WriteInv, Writing, InPutAll, Has, Fwrite, IsPrefix, m
<1>11. SnapshotPrefix'
  <2>1. /\ Done' = Done /\ UNCHANGED <<mem, ver, todo, cur, total>> /\ pc' = "written"
        /\ pc = "opened"
    BY DEF Fwrite, Done, Has
  <2>2. ASSUME cur.snap # 0, NEW d \in Done
        PROVE  files'[SnapFile[d][ver[d]]] = files[SnapFile[d][ver[d]]]
    BY <1>2, <1>5, <2>2, DoneFiles
  <2>3. SumFunction([d \in Done |-> Len(mem[d])])' = SumFunction([d \in Done |-> Len(mem[d])])
    BY <2>1, Zenon
  <2> QED BY <2>1, <2>2, <2>3 DEF FileInv, SnapshotPrefix, InPutAll
<1> QED BY <1>8, <1>9, <1>10, <1>11 DEF FileInv

\* fclose leaves the whole object in the file.
LEMMA Flushed ==
  ASSUME FileInv, pc = "written"
  PROVE  /\ Flush = [files EXCEPT ![cur.file] = mem[cur.key]]
         /\ mem[cur.key] \in Units /\ cur.key \in Keys /\ cur.file \in Files
<1> DEFINE s == files[cur.file]
           t == mem[cur.key]
<1>1. /\ s \in Units /\ t \in Units /\ IsPrefix(s, t)
      /\ cur.file \in Files /\ cur.key \in Keys
  BY DEF FileInv, WriteInv, Writing, Has, FileTypeOK, IsPrefix
<1>2. s \in Seq(Vals) /\ t \in Seq(Vals)
  BY <1>1, UnitsFacts
<1>3. s \o SubSeq(t, Len(s) + 1, Len(t)) = t
  <2> HIDE DEF s, t
  <2> QED BY <1>1, <1>2, PrefixRest, Zenon
<1>4. Flush = [files EXCEPT ![cur.file] = s \o SubSeq(t, Len(s) + 1, Len(t))]
  BY DEF Flush
<1> QED BY <1>1, <1>3, <1>4, Zenon

LEMMA PutCloseStep ==
  ASSUME FileInv, PutClose
  PROVE  FileInv'
<1>1. /\ files' = [files EXCEPT ![cur.file] = mem[cur.key]] /\ mem[cur.key] \in Units
      /\ Writing /\ cur' = NoCur
  BY Flushed DEF PutClose, Writing
<1>2. files' \in [Files -> Units \cup {None}] /\ ReadInv' /\ OnlyKillsTear'
  BY <1>1, FileWritten DEF PutClose
<1>3. FileTypeOK'
  BY <1>2, FileAssumption DEF FileInv, FileTypeOK, PutClose, NoCur, reader
<1>4. WriteInv' /\ SnapshotPrefix'
  BY DEF WriteInv, Writing, SnapshotPrefix, InPutAll, NoCur, PutClose
<1> QED BY <1>2, <1>3, <1>4 DEF FileInv

LEMMA KeysFinite == IsFiniteSet(Keys)
<1>1. IsFiniteSet(1..Len(KeyOrder)) /\ DOMAIN KeyOrder = 1..Len(KeyOrder)
  BY FileAssumption, FS_Interval
<1>2. Keys = {KeyOrder[i] : i \in 1..Len(KeyOrder)}
  BY <1>1 DEF Keys, Range
<1>3. KeyOrder \in Surjection(1..Len(KeyOrder), Keys)
  BY <1>1, <1>2, FileAssumption DEF Surjection
<1> QED BY <1>1, <1>3, FS_Surjection

LEMMA PutAllCloseStep ==
  ASSUME FileInv, PutAllClose
  PROVE  FileInv'
<1> DEFINE k == cur.key
           f == cur.file
<1>1. /\ files' = [files EXCEPT ![f] = mem[k]] /\ mem[k] \in Units
      /\ Writing /\ cur' = NoCur /\ k \in Keys /\ cur.snap # 0 /\ f \in Files
  BY Flushed DEF PutAllClose, Writing
<1>2. files' \in [Files -> Units \cup {None}] /\ ReadInv' /\ OnlyKillsTear'
  BY <1>1, FileWritten DEF PutAllClose
<1>3. Len(mem[k]) \in Nat
  BY <1>1, UnitsFacts
<1>4. /\ f = SnapFile[k][cur.snap] /\ cur.snap \in Versions /\ k \notin todo
      /\ \A l \in todo : Has(l)
  BY <1>1, FileAssumption DEF FileInv, WriteInv, FileTypeOK, InPutAll, Versions
<1>5. /\ ver' = [ver EXCEPT ![k] = cur.snap] /\ total' = total + Len(mem[k])
      /\ mem' = mem /\ todo' = todo /\ pc' = "next" /\ cur'.key = None
  BY DEF PutAllClose, NoCur
<1>6. FileTypeOK'
  <2>1. ver' \in [Keys -> 0..MaxVer]
    <3>1. ver \in [Keys -> 0..MaxVer] /\ cur.snap \in 0..MaxVer
      BY DEF FileInv, FileTypeOK
    <3> QED BY <1>5, <3>1
  <2>3. total' \in Nat
    <3>1. total \in Nat
      BY DEF FileInv, FileTypeOK
    <3> QED BY <1>3, <1>5, <3>1
  <2>2. cur' \in [key : Keys \cup {None}, snap : 0..MaxVer, file : Files \cup {None}]
    BY <1>1, FileAssumption DEF NoCur
  <2> QED BY <1>2, <2>1, <2>2, <2>3 DEF FileInv, FileTypeOK, PutAllClose, reader
<1>7. WriteInv'
  BY <1>1, <1>4, <1>5, NameFacts DEF FileInv, FileTypeOK, WriteInv, Writing, NoCur, Has
<1>8. Done' = Done \cup {k} /\ k \notin Done /\ Done \subseteq Keys
  BY <1>1, <1>4, <1>5, NameFacts DEF Done, Has, FileInv, WriteInv
<1>9. ASSUME NEW d \in Done'
      PROVE  ver'[d] \in Versions /\ files'[SnapFile[d][ver'[d]]] = mem'[d]
  <2>1. CASE d = k
    BY <1>1, <1>4, <1>5, <2>1 DEF FileInv, FileTypeOK
  <2>2. CASE d # k
    <3>1. d \in Done /\ ver'[d] = ver[d]
      BY <1>5, <1>8, <1>9, <2>2 DEF FileInv, FileTypeOK
    <3>2. files[SnapFile[d][ver[d]]] = mem[d]
      BY <1>1, <3>1 DEF FileInv, SnapshotPrefix, InPutAll
    <3>3. SnapFile[d][ver[d]] # f /\ ver[d] \in Versions
      BY <1>1, <3>1, DoneFiles
    <3>4. SnapFile[d][ver[d]] \in Files
      BY <1>8, <3>1, <3>3, NameFacts
    <3> QED BY <1>1, <1>5, <3>1, <3>2, <3>3, <3>4 DEF FileInv, FileTypeOK
  <2> QED BY <2>1, <2>2
<1>10. ASSUME NEW d \in Done', NEW l \in todo PROVE Pos(d) < Pos(l)
  BY <1>1, <1>8, <1>10 DEF FileInv, WriteInv, SnapshotPrefix, InPutAll
<1>11. total' = SumFunction([d \in Done' |-> Len(mem'[d])])
  <2> DEFINE F == [d \in Done |-> Len(mem[d])]
             G == [d \in Done \cup {k} |-> Len(mem[d])]
  <2>1. IsFiniteSet(DOMAIN F) /\ k \notin DOMAIN F /\ DOMAIN G = DOMAIN F \cup {k}
    BY <1>8, KeysFinite, FS_Subset
  <2>2. \A d \in DOMAIN F : G[d] = F[d]
    OBVIOUS
  <2>3. \A d \in DOMAIN G : G[d] \in Int
    <3>1. \A d \in Done \cup {k} : mem[d] \in Units
      BY <1>1 DEF Done, Has, FileInv, FileTypeOK
    <3> QED BY <3>1, UnitsFacts
  <2>4. G[k] = Len(mem[k])
    OBVIOUS
  <2>5. total = SumFunction(F)
    BY <1>1 DEF FileInv, SnapshotPrefix, InPutAll
  <2>6. G = [d \in Done' |-> Len(mem'[d])]
    BY <1>5, <1>8
  <2> HIDE DEF F, G
  <2>7. SumFunction(G) = SumFunction(F) + G[k]
    BY <2>1, <2>2, <2>3, SumAdd
  <2> QED BY <1>5, <2>4, <2>5, <2>6, <2>7
<1>12. SnapshotPrefix'
  BY <1>5, <1>9, <1>10, <1>11 DEF SnapshotPrefix
<1> QED BY <1>2, <1>6, <1>7, <1>12 DEF FileInv

LEMMA PutAllStartStep ==
  ASSUME FileInv, PutAllStart
  PROVE  FileInv'
<1> USE DEF FileInv, PutAllStart, reader
<1>1. cur = NoCur
  BY DEF WriteInv, Writing
<1>2. FileTypeOK'
  BY DEF FileTypeOK
<1>3. WriteInv'
  BY <1>1, NameFacts DEF WriteInv, Writing, InPutAll, NoCur, Has
<1>4. ReadInv' /\ OnlyKillsTear'
  BY DEF ReadInv, OnlyKillsTear
<1>5. Done' = {} /\ total' = 0
  BY DEF Done, Has
<1>6. SumFunction([k \in Done' |-> Len(mem'[k])]) = 0
  BY <1>5, SumEmpty
<1>7. SnapshotPrefix'
  BY <1>5, <1>6 DEF SnapshotPrefix
<1> QED BY <1>2, <1>3, <1>4, <1>7

LEMMA PutAllReturnStep ==
  ASSUME FileInv, PutAllReturn
  PROVE  FileInv'
<1> USE DEF FileInv, PutAllReturn, reader
<1>1. cur = NoCur
  BY DEF WriteInv, Writing
<1>2. FileTypeOK'
  BY DEF FileTypeOK
<1>3. WriteInv' /\ SnapshotPrefix'
  BY <1>1 DEF WriteInv, Writing, SnapshotPrefix, InPutAll, NoCur
<1>4. ReadInv' /\ OnlyKillsTear'
  BY DEF ReadInv, OnlyKillsTear
<1> QED BY <1>2, <1>3, <1>4

LEMMA FileStep ==
  ASSUME FileInv, [Next]_vars
  PROVE  FileInv'
<1>1. CASE Restart
  BY <1>1, EndsStep DEF Restart, CreateObjExists, FreeObj, GetTooLong
<1>2. CASE Passed
  BY <1>2, FwriteStep, PutCloseStep, PutAllOpenStep, PutAllCloseStep, CreateStep, StoreStep,
     PutOpenStep, GetWithMallocStep, ReaderInv, Zenon DEF Passed
<1>3. CASE TimedPutAll
  BY <1>3, PutAllStartStep DEF TimedPutAll
<1>4. CASE TimedPutAllReturn
  BY <1>4, PutAllReturnStep DEF TimedPutAllReturn
<1>5. CASE UNCHANGED vars
  <2>1. FileTypeOK' /\ ReadInv'
    BY <1>5 DEF vars, fileVars, writer, reader, FileInv, FileTypeOK, ReadInv
  <2> QED BY <1>5, <2>1, ReaderKeeps DEF vars, fileVars
<1> QED BY <1>1, <1>2, <1>3, <1>4, <1>5 DEF Next

-----------------------------------------------------------------------------
(* The times. *)

LEMMA InitInv == Init => IInv
<1> SUFFICES ASSUME Init PROVE IInv
  OBVIOUS
<1> USE DEF Init
<1>1. FileInv
  BY FileInitInv
<1>2. TypeOK
  BY <1>1, TimeAssumption DEF TypeOK, FileInv, Times
<1>3. TimeInv /\ TimesAddUp
  BY DEF TimeInv, TimesAddUp, IterStart, InPutAll, FileInit, NoCur
<1> QED BY <1>1, <1>2, <1>3 DEF IInv

\* Only TimedPutAll begins a put_all.
LEMMA PassedInPutAll ==
  ASSUME Passed, InPutAll'
  PROVE  InPutAll
<1>1. CASE Fwrite \/ PutAllOpen \/ PutAllClose
  BY <1>1, Zenon DEF InPutAll, Fwrite, PutAllOpen, PutAllClose
<1>2. CASE PutClose
  BY <1>2 DEF InPutAll, PutClose, NoCur
<1>3. CASE ReaderStep
  BY <1>3, Zenon DEF InPutAll, ReaderStep, GetFileSize, GetOpen, GetRead, GetReturn, writer
<1>4. ASSUME NEW k \in Keys, NEW v \in PutVers, PutOpen(k, v)
      PROVE  InPutAll
  <2>1. pc' = "opened" /\ cur'.snap = 0
    BY <1>4 DEF PutOpen, Fopen
  <2> QED BY <2>1 DEF InPutAll
<1>5. ASSUME NEW k \in Keys,
             CreateObj(k) \/ (\E x \in Vals : Store(k, x))
             \/ \E v \in PutVers : GetWithMalloc(k, v)
      PROVE  InPutAll
  BY <1>5, Zenon DEF InPutAll, CreateObj, Store, GetWithMalloc
<1> QED BY <1>1, <1>2, <1>3, <1>4, <1>5, Zenon DEF Passed

LEMMA TimeReturnStep ==
  ASSUME IInv, TimedPutAllReturn
  PROVE  /\ tsc' \in Times /\ appStart' \in Times /\ snapTime' \in Times
         /\ putallStart' \in Times
         /\ plist' \in Seq(Times) /\ tlist' \in Seq(Times) /\ slist' \in Seq(Nat)
         /\ TimeInv' /\ TimesAddUp'
<1> DEFINE p == tsc' - putallStart
           t == tsc' - IterStart
<1>1. /\ tsc \in Nat /\ appStart \in Nat /\ snapTime \in Nat /\ putallStart \in Nat
      /\ tsc <= MaxTime /\ MaxTime \in Nat /\ total \in Nat
      /\ plist \in Seq(Times) /\ tlist \in Seq(Times) /\ slist \in Seq(Nat)
  BY TimeAssumption DEF IInv, TypeOK, FileTypeOK, Times
<1>2. /\ 1 <= appStart /\ appStart <= IterStart /\ IterStart <= putallStart
      /\ putallStart <= tsc /\ IterStart \in Nat /\ Len(plist) = Len(tlist)
      /\ snapTime = 0 <=> tlist = <<>>
  BY <1>1 DEF IInv, TimeInv, TimedPutAllReturn, PutAllReturn, InPutAll, IterStart
<1>3. /\ tsc' \in tsc..MaxTime /\ snapTime' = tsc' /\ appStart' = appStart
      /\ putallStart' = 0 /\ ~InPutAll'
  <2>1. /\ tsc' \in tsc..MaxTime /\ snapTime' = tsc' /\ appStart' = appStart
        /\ putallStart' = 0
        /\ pc = "next" /\ pc' = "idle" /\ cur' = cur
    BY DEF TimedPutAllReturn, ReadTsc, PutAllReturn
  <2>2. cur = NoCur
    BY <2>1 DEF IInv, FileInv, WriteInv, Writing
  <2>3. ~InPutAll'
    BY <2>1, <2>2 DEF InPutAll, NoCur
  <2> QED BY <2>1, <2>3
<1>4. /\ plist' = Append(plist, p) /\ tlist' = Append(tlist, t)
      /\ slist' = Append(slist, total)
  BY DEF TimedPutAllReturn, IterTime, IterStart
<1>5. p \in Times /\ t \in Times /\ p <= t
  <2>1. \A a, b, c \in Nat : a <= b /\ b <= c /\ c <= MaxTime =>
          c - b \in 0..MaxTime /\ c - a \in 0..MaxTime /\ c - b <= c - a
    BY <1>1
  <2>2. tsc' \in Nat /\ putallStart <= tsc' /\ tsc' <= MaxTime
    BY <1>1, <1>2, <1>3
  <2> QED BY <1>1, <1>2, <2>1, <2>2 DEF Times
<1> HIDE DEF p, t
<1>6. tsc' \in Times /\ snapTime' \in Times /\ appStart' \in Times /\ putallStart' \in Times
  BY <1>1, <1>2, <1>3 DEF Times
<1>7. plist' \in Seq(Times) /\ tlist' \in Seq(Times) /\ slist' \in Seq(Nat)
  BY <1>1, <1>4, <1>5
<1> DEFINE n == Len(tlist)
<1>8. n \in Nat /\ Len(tlist') = n + 1 /\ Len(plist') = n + 1 /\ tlist' # <<>>
  BY <1>1, <1>2, <1>4
<1>9. TimeInv'
  BY <1>1, <1>2, <1>3, <1>8 DEF TimeInv, IterStart
<1>10. \A i \in DOMAIN tlist' : plist'[i] <= tlist'[i]
  <2>1. \A i \in 1..n : plist[i] <= tlist[i]
    BY <1>1 DEF IInv, TimesAddUp
  <2> QED BY <1>1, <1>2, <1>4, <1>5, <2>1
<1>11. SumFunction(tlist') = SumFunction(tlist) + t
  <2>1. /\ DOMAIN tlist = 1..n /\ DOMAIN tlist' = DOMAIN tlist \cup {n + 1}
        /\ n + 1 \notin DOMAIN tlist /\ (\A i \in DOMAIN tlist : tlist'[i] = tlist[i])
        /\ tlist'[n + 1] = t
    BY <1>1, <1>4, <1>8
  <2>2. \A i \in DOMAIN tlist' : tlist'[i] \in Int
    <3>1. Times \subseteq Int
      BY DEF Times
    <3>2. \A i \in DOMAIN tlist' : tlist'[i] \in Times
      BY <1>7
    <3> QED BY <3>1, <3>2
  <2>3. IsFiniteSet(DOMAIN tlist)
    BY <1>8, <2>1, FS_Interval
  <2> DEFINE f == tlist
             g == tlist'
             m == n + 1
  <2> HIDE DEF n, f, g, m
  <2>4. SumFunction(g) = SumFunction(f) + g[m]
    <3>1. /\ IsFiniteSet(DOMAIN f) /\ m \notin DOMAIN f /\ DOMAIN g = DOMAIN f \cup {m}
          /\ (\A i \in DOMAIN f : g[i] = f[i]) /\ \A i \in DOMAIN g : g[i] \in Int
      BY <2>1, <2>2, <2>3, Zenon DEF f, g, m
    <3> QED BY <3>1, SumAdd
  <2> QED BY <2>1, <2>4 DEF f, g, m
<1>12. SumFunction(tlist) = IterStart - appStart
  <2>1. CASE tlist = <<>>
    BY <1>1, <1>2, <2>1, SumEmpty DEF IterStart
  <2>2. CASE tlist # <<>>
    BY <1>2, <2>2 DEF IterStart, IInv, TimesAddUp
  <2> QED BY <2>1, <2>2
<1>13. TimesAddUp'
  BY <1>1, <1>2, <1>3, <1>10, <1>11, <1>12 DEF TimesAddUp, t
<1> QED BY <1>6, <1>7, <1>9, <1>13

LEMMA TimeStep ==
  ASSUME IInv, [Next]_vars
  PROVE  TypeOK' /\ TimeInv' /\ TimesAddUp'
<1>1. FileTypeOK'
  BY FileStep DEF IInv, FileInv
<1>2. CASE Restart
  <2>1. NewStore /\ Ends
    BY <1>2 DEF Restart, CreateObjExists, FreeObj, GetTooLong
  <2>2. TypeOK'
    BY <1>1, <2>1, TimeAssumption DEF IInv, TypeOK, NewStore, ReadTsc, Times
  <2>3. TimeInv' /\ TimesAddUp'
    BY <2>1, TimeAssumption
    DEF IInv, TypeOK, Times, NewStore, ReadTsc, TimeInv, TimesAddUp, IterStart, InPutAll, Ends,
        NoCur
  <2> QED BY <2>2, <2>3
<1>3. CASE Passed
  <2>1. UNCHANGED <<tsc, timing>> /\ (InPutAll' => InPutAll)
    BY <1>3, PassedInPutAll DEF Passed
  <2> QED BY <1>1, <2>1 DEF IInv, TypeOK, timing, TimeInv, TimesAddUp, IterStart
<1>4. CASE TimedPutAll
  <2>1. TypeOK'
    BY <1>1, <1>4, TimeAssumption DEF IInv, TypeOK, TimedPutAll, ReadTsc, Times
  <2>2. TimeInv' /\ TimesAddUp'
    BY <1>4, TimeAssumption
    DEF IInv, TypeOK, Times, TimedPutAll, ReadTsc, TimeInv, TimesAddUp, IterStart
  <2> QED BY <2>1, <2>2
<1>5. CASE TimedPutAllReturn
  BY <1>1, <1>5, TimeReturnStep DEF TypeOK
<1>6. CASE UNCHANGED vars
  BY <1>1, <1>6 DEF vars, fileVars, writer, IInv, TypeOK, timing, TimeInv, TimesAddUp, IterStart,
     InPutAll
<1> QED BY <1>2, <1>3, <1>4, <1>5, <1>6 DEF Next

-----------------------------------------------------------------------------
(* The theorems. *)

\* The inductive invariant of the file store and of its timing.
THEOREM FileInvariance == Spec => []IInv
<1>1. ASSUME IInv, [Next]_vars PROVE IInv'
  BY <1>1, FileStep, TimeStep DEF IInv
<1> QED BY <1>1, InitInv, PTL DEF Spec

\* Objects, files and the contents a get has read so far are never longer than an
\* object is, and the clock, versions and lists stay in their ranges.
THEOREM FileTypes == Spec => []TypeOK
<1>1. IInv => TypeOK
  BY DEF IInv
<1> QED BY <1>1, FileInvariance, PTL

\* For all keys, sizes and file names, also where put shares its names with
\* put_all: only a kill inside put or put_all leaves a file torn.
THEOREM OnlyKillsTearSafety == Spec => []OnlyKillsTear
<1>1. IInv => OnlyKillsTear
  BY DEF IInv, FileInv
<1> QED BY <1>1, FileInvariance, PTL

\* A get of a settled file that no put overlaps returns the whole object.
THEOREM ReadsWholeSafety == Spec => []ReadsWhole
<1>1. ASSUME IInv PROVE ReadsWhole
  BY <1>1 DEF IInv, FileInv, TypeOK, FileTypeOK, ReadInv, ReadsWhole
<1> QED BY <1>1, FileInvariance, PTL

\* Wherever put_all stands, the snapshot so far is a prefix of the map with whole
\* files, and total_size is the sum of their sizes.
THEOREM SnapshotPrefixSafety == Spec => []SnapshotPrefix
<1>1. IInv => SnapshotPrefix
  BY DEF IInv, FileInv
<1> QED BY <1>1, FileInvariance, PTL

\* The iteration times add up to the time from the start of the process to its
\* last put_all, for every clock and any number of iterations.
THEOREM TimesAddUpSafety == Spec => []TimesAddUp
<1>1. IInv => TimesAddUp
  BY DEF IInv
<1> QED BY <1>1, FileInvariance, PTL
=============================================================================
