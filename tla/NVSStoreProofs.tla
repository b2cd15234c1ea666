--------------------------- MODULE NVSStoreProofs ---------------------------
(***************************************************************************)
(* Proofs about the key-value store, for every set of processes, keys,     *)
(* names, contents and addresses and every size of the log: the maps       *)
(* agree, acknowledged puts stay readable, versions are immutable.         *)
(***************************************************************************)
EXTENDS NVSStore, WellFoundedInduction, TLAPS

-----------------------------------------------------------------------------
(* Find. *)

LEMMA MinFact ==
  ASSUME NEW S, S \subseteq Nat, S # {}
  PROVE  Min(S) \in S /\ \A y \in S : Min(S) <= y
<1>1. \E x \in S : \A y \in S : ~ (<<y, x>> \in OpToRel(<, Nat))
  BY WFMin, NatLessThanWellFounded, Zenon
<1>2. PICK x \in S : \A y \in S : ~ (<<y, x>> \in OpToRel(<, Nat))
  BY <1>1, Zenon
<1>3. ASSUME NEW y \in S PROVE x <= y
  <2>1. <<y, x>> \in Nat \X Nat /\ <<y, x>>[1] = y /\ <<y, x>>[2] = x
    OBVIOUS
  <2>2. ~(y < x)
    BY <1>2, <2>1, Zenon DEF OpToRel
  <2> QED BY <2>2
<1> QED BY <1>3, Zenon DEF Min

LEMMA MinIs ==
  ASSUME NEW S, S \subseteq Nat, NEW x \in S, \A y \in S : x <= y
  PROVE  Min(S) = x
<1> DEFINE m == Min(S)
<1>1. m \in S /\ m <= x
  BY MinFact, Zenon
<1> HIDE DEF m
<1>2. m = x
  BY <1>1
<1> QED BY <1>2 DEF m

\* What a log answers, every longer log answers.
LEMMA FindKept ==
  ASSUME NEW s \in Seq(Chunks), NEW t \in Seq(Chunks), NEW n, NEW v,
         Len(s) <= Len(t), \A j \in 1..Len(s) : s[j] = t[j],
         Matches(s, n, v) # {}
  PROVE  Matches(t, n, v) # {} /\ Find(t, n, v) = Find(s, n, v)
<1> DEFINE m == Min(Matches(s, n, v))
           S == Matches(s, n, v)
           T == Matches(t, n, v)
<1>1. /\ \A j : j \in S <=> j \in 1..Len(s) /\ Hits(s[j], n, v) # {}
      /\ \A j : j \in T <=> j \in 1..Len(t) /\ Hits(t[j], n, v) # {}
  BY DEF Matches
<1>2. S \subseteq Nat /\ T \subseteq Nat
  BY <1>1
<1>3. m \in S /\ \A j \in S : m <= j
  BY <1>2, MinFact, Zenon
<1> HIDE DEF m, S, T
<1>4. m \in 1..Len(s) /\ t[m] = s[m] /\ m \in T
  BY <1>1, <1>3
<1>5. ASSUME NEW j \in T PROVE m <= j
  <2>1. j \in Nat /\ m \in Nat /\ m <= Len(s) /\ Len(s) \in Nat
    BY <1>2, <1>4
  <2>2. CASE j <= Len(s)
    <3>1. j \in 1..Len(s) /\ Hits(s[j], n, v) # {}
      BY <1>1, <2>2
    <3> QED BY <1>1, <1>3, <3>1
  <2> QED BY <2>1, <2>2
<1>6. Min(T) = m
  BY <1>2, <1>4, <1>5, MinIs, Zenon
<1>7. T # {} /\ S # {}
  BY <1>3, <1>4, Zenon
<1> QED BY <1>4, <1>6, <1>7 DEF Find, m, S, T

\* The first item of its name and version is found, if process_chunks compares it.
LEMMA FindNew ==
  ASSUME NEW s \in Seq(Chunks), NEW c \in Chunks, NEW i \in Compared(c),
         Matches(s, c.items[i].name, c.items[i].ver) = {},
         \A j \in 1..(i - 1) : c.items[j].name # c.items[i].name
                               \/ c.items[j].ver # c.items[i].ver
  PROVE  Stored(Append(s, c), c.items[i])
<1> DEFINE n == c.items[i].name
           v == c.items[i].ver
           t == Append(s, c)
           e == Len(s) + 1
<1>1. t \in Seq(Chunks) /\ Len(t) = e /\ t[e] = c /\ \A j \in 1..Len(s) : t[j] = s[j]
  OBVIOUS
<1>2. Hits(c, n, v) \subseteq Nat /\ i \in Hits(c, n, v)
  BY DEF Hits, Compared, Chunks
<1>3. Min(Hits(c, n, v)) = i
  <2>1. ASSUME NEW j \in Hits(c, n, v) PROVE i <= j
    BY <1>2 DEF Hits, Compared
  <2> QED BY <1>2, <2>1, MinIs, SMTT(60)
<1>4. Matches(t, n, v) = {e}
  <2>1. Matches(s, n, v) = {j \in 1..Len(s) : Hits(s[j], n, v) # {}}
    BY DEF Matches
  <2>2. Matches(t, n, v) = {j \in 1..e : Hits(t[j], n, v) # {}}
    BY <1>1 DEF Matches
  <2>3. Hits(t[e], n, v) # {} /\ \A j \in 1..Len(s) : Hits(t[j], n, v) = {}
    BY <1>1, <1>2, <2>1, Zenon
  <2>4. e \in 1..e /\ \A j \in 1..e : j = e \/ j \in 1..Len(s)
    OBVIOUS
  <2> HIDE DEF e, t, n, v
  <2> QED BY <2>2, <2>3, <2>4, Zenon
<1>5. Min(Matches(t, n, v)) = e
  BY <1>4, MinIs
<1> QED BY <1>1, <1>3, <1>4, <1>5 DEF Stored, Find

LEMMA FindType ==
  ASSUME NEW s \in Seq(Chunks), NEW n, NEW v, Find(s, n, v) # NotFound
  PROVE  Find(s, n, v) \in Contents
<1> DEFINE M == Matches(s, n, v)
           c == s[Min(M)]
           H == Hits(c, n, v)
<1>1. M # {} /\ M \subseteq DOMAIN s /\ \A j \in M : Hits(s[j], n, v) # {}
  BY Zenon DEF Find, Matches
<1>2. M \subseteq Nat
  BY <1>1
<1>3. Min(M) \in M
  BY <1>1, <1>2, MinFact, Zenon
<1>4. c \in Chunks /\ H # {}
  BY <1>1, <1>3
<1> HIDE DEF c, M
<1>5. H \subseteq Nat /\ H \subseteq 1..Len(c.items)
  BY <1>4 DEF Hits, Compared, Chunks
<1>6. Min(H) \in 1..Len(c.items)
  BY <1>4, <1>5, MinFact, Zenon
<1> HIDE DEF H
<1>7. c.items[Min(H)].val \in Contents
  <2>1. c.items \in Seq(Items)
    BY <1>4 DEF Chunks
  <2>2. c.items[Min(H)] \in Items
    BY <1>6, <2>1
  <2> QED BY <2>2 DEF Items
<1> QED BY <1>1, <1>7, Zenon DEF Find, c, H, M

-----------------------------------------------------------------------------
(* The steps, with their parameters typed. *)

\* put and put_all up to the publication of the chunk.
AppendStep(p, kind, chunk, keys, vers) ==
  /\ Len(vers) = Len(keys) /\ Len(chunk.items) = Len(keys)
  /\ kind = "put" => chunk.type = "single"
  /\ kind = "put_all" => chunk.type = "multiple"
  /\ op[p] = Idle
  /\ Publish(p, kind, chunk, keys, vers)

Appends(p) ==
  \E kind \in {"put", "put_all"}, chunk \in Chunks, keys \in Seq(Keys), vers \in Seq(Versions) :
    AppendStep(p, kind, chunk, keys, vers)

LEMMA ItemType ==
  ASSUME TypeOK, NEW p \in Procs, NEW k \in Keys, NEW v \in Versions, objAddr[p][k] # NoAddr
  PROVE  ItemOf(p, k, v) \in Items
<1>1. Name[k] \in Names
  BY DEF Names
<1>2. objAddr[p][k] \in Addrs
  BY DEF TypeOK
<1>3. buf[p][objAddr[p][k]] \in Contents
  BY <1>2 DEF TypeOK
<1> QED BY <1>1, <1>3 DEF ItemOf, Items

LEMMA PutAppends ==
  ASSUME TypeOK, NEW p \in Procs, NEW k \in Keys, NEW v \in 1..MaxVer, Put(p, k, v)
  PROVE  Appends(p)
<1>1. v \in Versions /\ objAddr[p][k] # NoAddr /\ op[p] = Idle
  BY KeysAssumption DEF Versions, Put, Ready
<1> DEFINE chunk == [type |-> "single", items |-> <<ItemOf(p, k, v)>>]
<1>2. ItemOf(p, k, v) \in Items
  BY <1>1, ItemType
<1>3. chunk \in Chunks /\ Len(chunk.items) = 1 /\ chunk.type = "single"
  BY <1>2 DEF Chunks
<1>4. <<k>> \in Seq(Keys) /\ <<v>> \in Seq(Versions) /\ Len(<<k>>) = 1 /\ Len(<<v>>) = 1
  BY <1>1
<1>5. Publish(p, "put", chunk, <<k>>, <<v>>)
  BY DEF Put
<1> HIDE DEF chunk
<1>6. AppendStep(p, "put", chunk, <<k>>, <<v>>)
  BY <1>1, <1>3, <1>4, <1>5 DEF AppendStep
<1> QED BY <1>3, <1>4, <1>6, Zenon DEF Appends

LEMMA PutAllAppends ==
  ASSUME TypeOK, NEW p \in Procs, PutAll(p)
  PROVE  Appends(p)
<1> DEFINE vers(keys) == [i \in DOMAIN keys |-> objVer[p][keys[i]] + 1]
           items(keys) == [i \in DOMAIN keys |-> ItemOf(p, keys[i], vers(keys)[i])]
           chunk(keys) == [type |-> "multiple", items |-> items(keys)]
<1>1. PICK keys \in SeqOf(Keys, Len(KeyOrder)) :
        /\ InMapOrder(p, keys)
        /\ \A i \in DOMAIN keys : vers(keys)[i] <= MaxVer
        /\ Publish(p, "put_all", chunk(keys), keys, vers(keys))
  BY Zenon DEF PutAll
<1>2. PICK m \in 0..Len(KeyOrder) : keys \in [1..m -> Keys]
  BY DEF SeqOf
<1>3. keys \in Seq(Keys) /\ Len(keys) \in Nat /\ DOMAIN keys = 1..Len(keys)
  BY <1>2
<1>4. ASSUME NEW i \in DOMAIN keys
      PROVE  /\ keys[i] \in Keys /\ objAddr[p][keys[i]] # NoAddr
             /\ vers(keys)[i] \in Versions
  <2>1. keys[i] \in Keys /\ keys[i] \in ToSet(keys)
    BY <1>3 DEF ToSet
  <2>2. objAddr[p][keys[i]] # NoAddr
    BY <1>1, <2>1 DEF InMapOrder
  <2>3. vers(keys)[i] = objVer[p][keys[i]] + 1 /\ vers(keys)[i] <= MaxVer
    BY <1>1
  <2>4. objVer[p][keys[i]] \in 0..MaxVer
    BY <2>1 DEF TypeOK, Versions
  <2> QED BY <2>1, <2>2, <2>3, <2>4, KeysAssumption, SMTT(60) DEF Versions
<1>5. ASSUME NEW i \in DOMAIN keys PROVE items(keys)[i] \in Items
  BY <1>4, ItemType
<1>6. /\ vers(keys) \in Seq(Versions) /\ Len(vers(keys)) = Len(keys)
      /\ items(keys) \in Seq(Items) /\ Len(items(keys)) = Len(keys)
  BY <1>3, <1>4, <1>5, SMTT(60)
<1>7. chunk(keys) \in Chunks /\ chunk(keys).type = "multiple" /\ chunk(keys).items = items(keys)
  BY <1>6 DEF Chunks
<1>8. op[p] = Idle
  BY DEF PutAll, Ready
<1>9. AppendStep(p, "put_all", chunk(keys), keys, vers(keys))
  BY <1>1, <1>6, <1>7, <1>8 DEF AppendStep
<1> QED BY <1>3, <1>6, <1>7, <1>9, Zenon DEF Appends

\* The application or get stores into a buffer.
Stores(p) ==
  /\ \E a \in Addrs, x \in Contents : buf' = [buf EXCEPT ![p][a] = x]
  /\ UNCHANGED <<up, objAddr, objVer, addrMap, alloc, op, logVars, acks>>

Delivers(p) == \E k \in Keys, v \in Versions, x \in Contents : Deliver(p, k, v, x)

Step(p) ==
  \/ Start(p) \/ Ends(p) \/ Appends(p) \/ PutReturn(p) \/ Stores(p) \/ Delivers(p)
  \/ (\E k \in Keys : CreateObj(p, k)) \/ (\E a \in Addrs : FreeObj(p, a))

LEMMA StepCases ==
  ASSUME TypeOK, [Next]_vars
  PROVE  UNCHANGED vars \/ PowerFail \/ \E p \in Procs : Step(p)
<1>1. ASSUME NEW p \in Procs, ObjectOps(p) PROVE Step(p)
  <2>1. ASSUME NEW a \in Addrs, NEW x \in Vals, Write(p, a, x) PROVE Stores(p)
    BY <2>1, Zenon DEF Write, Stores, Contents
  <2> QED BY <1>1, <2>1, Zenon DEF ObjectOps, Step, Kill, CreateObjExists, FreeObjUnknown
<1>2. ASSUME NEW p \in Procs, PutOps(p) PROVE Step(p)
  BY <1>2, PutAppends, PutAllAppends, Zenon DEF PutOps, Step, PutNoSpace
<1>3. ASSUME NEW p \in Procs, GetOps(p) PROVE Step(p)
  <2>1. PICK k \in Keys, v \in 1..MaxVer :
          \/ \E a \in Addrs : Get(p, k, v, a)
          \/ GetWithMalloc(p, k, v) \/ GetWithMallocEmpty(p, k, v)
    BY <1>3, Zenon DEF GetOps
  <2>2. v \in Versions
    BY KeysAssumption DEF Versions
  <2>3. Find(vlog, Name[k], v) # NotFound => Find(vlog, Name[k], v) \in Contents
    BY FindType DEF TypeOK
  <2>4. ASSUME NEW a \in Addrs, Get(p, k, v, a) PROVE Stores(p)
    BY <2>3, <2>4, Zenon DEF Get, Stores
  <2>5. ASSUME GetWithMalloc(p, k, v) PROVE Delivers(p)
    BY <2>2, <2>3, <2>5, Zenon DEF GetWithMalloc, Delivers
  <2>6. ASSUME GetWithMallocEmpty(p, k, v) PROVE Ends(p) \/ Delivers(p)
    <3>1. Junk \in Contents
      BY DEF Contents
    <3> QED BY <2>2, <2>6, <3>1, Zenon DEF GetWithMallocEmpty, Delivers
  <2> QED BY <2>1, <2>4, <2>5, <2>6, Zenon DEF Step
<1> QED BY <1>1, <1>2, <1>3, Zenon DEF Next

-----------------------------------------------------------------------------
(* Type correctness. *)

LEMMA IdleType == Idle \in Ops
  BY DEF Idle, Ops

LEMMA InitInv == Init => IInv
<1> SUFFICES ASSUME Init PROVE IInv
  OBVIOUS
<1>1. TypeOK
  BY IdleType, KeysAssumption DEF Init, TypeOK, Log!AInit, Versions, Contents
<1>2. LogInv /\ AckInv
  BY DEF Init, LogInv, AckInv, Log!AInit
<1>3. OpInv
  BY DEF Init, OpInv, Idle
<1>4. MapsAgree
  BY DEF Init, MapsAgree
<1> QED BY <1>1, <1>2, <1>3, <1>4 DEF IInv

LEMMA FreshType ==
  ASSUME TypeOK, NEW p \in Procs, Fresh(p)
  PROVE  /\ objAddr' \in [Procs -> [Keys -> Addrs \cup {NoAddr}]]
         /\ objVer' \in [Procs -> [Keys -> Versions]]
         /\ addrMap' \in [Procs -> [Addrs -> Keys \cup {NoKey}]]
         /\ alloc' \in [Procs -> SUBSET Addrs]
         /\ buf' \in [Procs -> [Addrs -> Contents]]
         /\ op' \in [Procs -> Ops]
  BY IdleType, KeysAssumption DEF TypeOK, Fresh, Versions, Contents

LEMMA AppendType ==
  ASSUME TypeOK, NEW p \in Procs, NEW kind \in {"put", "put_all"}, NEW chunk \in Chunks,
         NEW keys \in Seq(Keys), NEW vers \in Seq(Versions),
         AppendStep(p, kind, chunk, keys, vers)
  PROVE  TypeOK'
<1>1. PICK fresh \in SUBSET DOMAIN chunk.items :
        op' = [op EXCEPT ![p] = [kind |-> kind, keys |-> keys, vers |-> vers,
                                 items |-> chunk.items, fresh |-> fresh]]
  BY Zenon DEF AppendStep, Publish
<1>2. chunk.items \in Seq(Items)
  BY DEF Chunks
<1>3. fresh \in SUBSET Nat
  BY <1>1, <1>2
<1>4. [kind |-> kind, keys |-> keys, vers |-> vers, items |-> chunk.items, fresh |-> fresh] \in Ops
  BY <1>2, <1>3 DEF Ops
<1>5. op' \in [Procs -> Ops]
  BY <1>1, <1>4 DEF TypeOK
<1>6. vlog' \in Seq(Chunks) /\ UNCHANGED <<dlog, nack, up, objAddr, objVer, addrMap, alloc, buf, acks>>
  BY DEF AppendStep, Publish, Log!Publish, TypeOK
<1> QED BY <1>5, <1>6, SMTT(60) DEF TypeOK

LEMMA VersionOf ==
  ASSUME NEW keys \in Seq(Keys), NEW vers \in Seq(Versions), Len(vers) = Len(keys),
         NEW k \in ToSet(keys)
  PROVE  vers[CHOOSE i \in DOMAIN keys : keys[i] = k] + 0 \in Versions
<1> DEFINE i0 == CHOOSE i \in DOMAIN keys : keys[i] = k
<1>1. \E i \in DOMAIN keys : keys[i] = k
  BY Zenon DEF ToSet
<1>2. i0 \in DOMAIN keys
  BY <1>1, Zenon
<1> HIDE DEF i0
<1>3. i0 \in DOMAIN vers
  BY <1>2
<1>4. vers[i0] \in Versions
  BY <1>3
<1>5. vers[i0] + 0 \in Versions
  BY <1>4, KeysAssumption, SMTT(60) DEF Versions
<1> QED BY <1>5 DEF i0

LEMMA ReturnType ==
  ASSUME TypeOK, OpInv, NEW p \in Procs, PutReturn(p)
  PROVE  TypeOK'
<1> DEFINE o == op[p]
           ver(k) == o.vers[CHOOSE i \in DOMAIN o.keys : o.keys[i] = k] + 0
<1>1. o \in Ops /\ Len(o.vers) = Len(o.keys)
  BY DEF TypeOK, OpInv
<1>2. o.keys \in Seq(Keys) /\ o.vers \in Seq(Versions) /\ o.items \in Seq(Items)
  BY <1>1 DEF Ops
<1>3. ASSUME NEW k \in ToSet(o.keys) PROVE ver(k) \in Versions
  BY <1>1, <1>2, VersionOf, Zenon
<1>4. objVer' = [objVer EXCEPT ![p] = [k \in Keys |->
                   IF k \in ToSet(o.keys) THEN ver(k) ELSE @[k]]]
  BY Zenon DEF PutReturn, SetVersions
<1> HIDE DEF ver
<1>5. objVer' \in [Procs -> [Keys -> Versions]]
  BY <1>3, <1>4, SMTT(60) DEF TypeOK
<1>6. \A r \in acks' : r.item \in Items
  BY <1>2 DEF PutReturn, SetVersions, TypeOK
<1>7. op' \in [Procs -> Ops]
  BY IdleType DEF PutReturn, SetVersions, TypeOK
<1>8. vlog' \in Seq(Chunks) /\ dlog' \in Seq(Chunks) /\ nack' \in Nat
  BY DEF PutReturn, Log!Return, TypeOK
<1> QED BY <1>5, <1>6, <1>7, <1>8, Zenon DEF TypeOK, PutReturn, SetVersions

LEMMA TypeStep ==
  ASSUME TypeOK, OpInv, [Next]_vars
  PROVE  TypeOK'
<1>1. CASE UNCHANGED vars
  BY <1>1 DEF TypeOK, vars, logVars, procVars
<1>2. CASE PowerFail
  <2>1. vlog' \in Seq(Chunks) /\ dlog' \in Seq(Chunks) /\ nack' \in Nat
    BY <1>2 DEF PowerFail, Log!Recover, TypeOK
  <2> QED BY <1>2, <2>1, IdleType, KeysAssumption, SMTT(60) DEF PowerFail, TypeOK, Versions, Contents
<1>3. ASSUME NEW p \in Procs, Step(p) PROVE TypeOK'
  <2>1. CASE Start(p)
    BY <2>1, SMTT(60) DEF Start, TypeOK, logVars
  <2>2. CASE Ends(p)
    <3>1. Fresh(p) /\ up' \in [Procs -> BOOLEAN] /\ UNCHANGED <<logVars, acks>>
      BY <2>2 DEF Ends, TypeOK
    <3> QED BY <3>1, FreshType, SMTT(60) DEF TypeOK, logVars
  <2>3. CASE Appends(p)
    BY <2>3, AppendType, Zenon DEF Appends
  <2>4. CASE PutReturn(p)
    BY <2>4, ReturnType
  <2>5. CASE Stores(p)
    BY <2>5 DEF Stores, TypeOK, logVars
  <2>6. ASSUME NEW k \in Keys, NEW v \in Versions, NEW x \in Contents, Deliver(p, k, v, x)
        PROVE  TypeOK'
    <3>1. PICK a \in Addrs \cup {objAddr[p][k]} :
            /\ objAddr[p][k] # NoAddr \/ a \in Addrs
            /\ alloc' = [alloc EXCEPT ![p] = @ \cup {a}]
            /\ objAddr' = [objAddr EXCEPT ![p][k] = a]
            /\ objVer' = [objVer EXCEPT ![p][k] = v]
            /\ buf' = [buf EXCEPT ![p][a] = x]
            /\ UNCHANGED <<up, addrMap, op, logVars, acks>>
      BY <2>6, Zenon DEF Deliver
    <3>2. a \in Addrs
      BY <3>1 DEF TypeOK
    <3> QED BY <3>1, <3>2, SMTT(60) DEF TypeOK, logVars
  <2>7. ASSUME NEW k \in Keys, CreateObj(p, k) PROVE TypeOK'
    <3>1. Junk \in Contents /\ 0 \in Versions
      BY KeysAssumption DEF Contents, Versions
    <3> QED BY <2>7, <3>1 DEF CreateObj, TypeOK, logVars
  <2>8. ASSUME NEW a \in Addrs, FreeObj(p, a) PROVE TypeOK'
    <3>1. Junk \in Contents /\ 0 \in Versions
      BY KeysAssumption DEF Contents, Versions
    <3> QED BY <2>8, <3>1 DEF FreeObj, TypeOK, logVars
  <2> QED BY <1>3, <2>1, <2>2, <2>3, <2>4, <2>5, <2>6, <2>7, <2>8, Zenon DEF Step, Delivers
<1> QED BY <1>1, <1>2, <1>3, StepCases, Zenon

-----------------------------------------------------------------------------
(* The two maps. *)

LEMMA MapsStep ==
  ASSUME TypeOK, MapsAgree, [Next]_vars
  PROVE  MapsAgree'
<1> USE KeysAssumption
<1>1. CASE UNCHANGED <<objAddr, addrMap, alloc>>
  BY <1>1, SMTT(60) DEF MapsAgree
<1>2. CASE PowerFail
  BY <1>2 DEF PowerFail, MapsAgree
<1>3. ASSUME NEW p \in Procs, Step(p) PROVE MapsAgree'
  <2>1. CASE Ends(p)
    BY <2>1, SMTT(60) DEF Ends, Fresh, MapsAgree, TypeOK
  <2>2. CASE Start(p) \/ Appends(p) \/ PutReturn(p) \/ Stores(p)
    BY <1>1, <2>2 DEF Start, Appends, AppendStep, Publish, PutReturn, SetVersions, Stores
  <2>3. ASSUME NEW k \in Keys, NEW v \in Versions, NEW x \in Contents, Deliver(p, k, v, x)
        PROVE  MapsAgree'
    <3>1. CASE objAddr[p][k] = NoAddr
      BY <2>3, <3>1, SMTT(60) DEF Deliver, MapsAgree, TypeOK
    <3>2. CASE objAddr[p][k] # NoAddr
      BY <2>3, <3>2, SMTT(60) DEF Deliver, MapsAgree, TypeOK
    <3> QED BY <3>1, <3>2, SMTT(60)
  <2>4. ASSUME NEW k \in Keys, CreateObj(p, k) PROVE MapsAgree'
    BY <2>4, SMTT(60) DEF CreateObj, MapsAgree, TypeOK
  <2>5. ASSUME NEW a \in Addrs, FreeObj(p, a) PROVE MapsAgree'
    BY <2>5 DEF FreeObj, MapsAgree, TypeOK
  <2> QED BY <1>3, <2>1, <2>2, <2>3, <2>4, <2>5, Zenon DEF Step, Delivers
<1> QED BY <1>1, <1>2, <1>3, StepCases, SMTT(60) DEF vars, procVars

-----------------------------------------------------------------------------
(* What is stored stays stored. *)

LEMMA StoredKept ==
  ASSUME NEW s \in Seq(Chunks), NEW t \in Seq(Chunks), NEW item,
         Len(s) <= Len(t), \A j \in 1..Len(s) : s[j] = t[j],
         Stored(s, item)
  PROVE  Stored(t, item)
<1>1. Matches(s, item.name, item.ver) # {} /\ Find(s, item.name, item.ver) = item.val
  BY Zenon DEF Stored
<1>2. Matches(t, item.name, item.ver) # {}
      /\ Find(t, item.name, item.ver) = Find(s, item.name, item.ver)
  BY <1>1, FindKept
<1> QED BY <1>1, <1>2, Zenon DEF Stored

\* Nothing but a power failure shortens the published log, and then it is the
\* durable one.
LEMMA FindStep ==
  ASSUME IInv, [Next]_vars
  PROVE  LogInv' /\ OpInv' /\ AckInv'
<1> USE DEF IInv
<1>0. vlog \in Seq(Chunks) /\ dlog \in Seq(Chunks) /\ op \in [Procs -> Ops]
  BY DEF TypeOK
<1>1. CASE UNCHANGED <<logVars, op, acks>>
  BY <1>1, Zenon DEF LogInv, OpInv, AckInv, logVars
<1>2. ASSUME NEW p \in Procs, op' = [op EXCEPT ![p] = Idle], UNCHANGED <<logVars, acks>>
      PROVE  LogInv' /\ OpInv' /\ AckInv'
  <2>1. LogInv' /\ AckInv'
    BY <1>2, Zenon DEF LogInv, AckInv, logVars
  <2>2. Idle.items = <<>> /\ Len(Idle.vers) = Len(Idle.keys)
    BY DEF Idle
  <2>3. ASSUME NEW q \in Procs PROVE op'[q] = IF q = p THEN Idle ELSE op[q]
    BY <1>0, <1>2
  <2> QED BY <1>2, <2>1, <2>2, <2>3, SMTT(60) DEF OpInv, logVars
<1>3. CASE PowerFail
  <2>1. /\ vlog' = dlog' /\ dlog' \in {vlog, dlog} /\ acks' = acks
        /\ op' = [q \in Procs |-> Idle]
    BY <1>3 DEF PowerFail, Log!Recover
  <2>2. LogInv'
    BY <1>0, <2>1, SMTT(60) DEF LogInv
  <2>3. OpInv'
    BY <2>1 DEF OpInv, Idle
  <2>4. AckInv'
    BY <1>0, <2>1, StoredKept, SMTT(60) DEF LogInv, AckInv
  <2> QED BY <2>2, <2>3, <2>4, SMTT(60)
<1>4. ASSUME NEW p \in Procs, Appends(p) PROVE LogInv' /\ OpInv' /\ AckInv'
  <2>1. PICK kind \in {"put", "put_all"}, chunk \in Chunks, keys \in Seq(Keys),
             vers \in Seq(Versions) : AppendStep(p, kind, chunk, keys, vers)
    BY <1>4, Zenon DEF Appends
  <2>2. vlog' = Append(vlog, chunk) /\ UNCHANGED <<dlog, acks>>
    BY <2>1 DEF AppendStep, Publish, Log!Publish
  <2>3. vlog' \in Seq(Chunks) /\ Len(vlog) <= Len(vlog')
        /\ \A j \in 1..Len(vlog) : vlog[j] = vlog'[j]
    BY <1>0, <2>2, SMTT(60)
  <2>4. LogInv' /\ AckInv'
    BY <1>0, <2>2, <2>3, SMTT(60) DEF LogInv, AckInv
  <2> DEFINE items == chunk.items
             first(i) == \A j \in 1..(i - 1) : items[j].name # items[i].name
                                               \/ items[j].ver # items[i].ver
             fresh == {i \in DOMAIN items :
                         first(i) /\ Matches(vlog, items[i].name, items[i].ver) = {}}
             o == [kind |-> kind, keys |-> keys, vers |-> vers, items |-> items, fresh |-> fresh]
  <2>5. op' = [op EXCEPT ![p] = o]
    BY <2>1, Zenon DEF AppendStep, Publish
  <2>6. ASSUME NEW i \in DOMAIN items, i \in fresh, ~(kind = "put_all" /\ i = Len(items))
        PROVE  Stored(vlog', items[i])
    <3>1. items \in Seq(Items) /\ i \in 1..Len(items)
      BY DEF Chunks
    <3>2. i \in Compared(chunk)
      BY <2>1, <2>6, <3>1 DEF AppendStep, Compared, Chunks
    <3>3. first(i) /\ Matches(vlog, items[i].name, items[i].ver) = {}
      BY <2>6
    <3> QED BY <1>0, <2>2, <3>2, <3>3, FindNew, Zenon
  <2>7. Len(vers) = Len(keys)
    BY <2>1 DEF AppendStep
  <2> HIDE DEF items, fresh
  <2>8. ASSUME NEW q \in Procs
        PROVE  /\ Len(op'[q].vers) = Len(op'[q].keys)
               /\ \A i \in DOMAIN op'[q].items :
                    i \in op'[q].fresh /\ ~(op'[q].kind = "put_all" /\ i = Len(op'[q].items))
                      => Stored(vlog', op'[q].items[i])
    <3>1. CASE q = p
      <4>1. op'[q] = o
        BY <1>0, <2>5, <3>1, SMTT(60)
      <4> QED BY <2>6, <2>7, <4>1, SMTT(60)
    <3>2. CASE q # p
      <4>1. op'[q] = op[q]
        BY <1>0, <2>5, <3>2
      <4> QED BY <1>0, <2>3, <4>1, StoredKept, Zenon DEF OpInv
    <3> QED BY <3>1, <3>2, SMTT(60)
  <2>9. OpInv'
    BY <2>8, Zenon DEF OpInv
  <2> QED BY <2>4, <2>9
<1>5. ASSUME NEW p \in Procs, PutReturn(p) PROVE LogInv' /\ OpInv' /\ AckInv'
  <2> DEFINE o == op[p]
  <2>1. /\ vlog' = vlog /\ dlog' = vlog /\ op' = [op EXCEPT ![p] = Idle]
        /\ acks' = acks \cup
             {[item |-> o.items[i], fresh |-> i \in o.fresh,
               last |-> o.kind = "put_all" /\ i = Len(o.items)] : i \in DOMAIN o.items}
    BY <1>5, Zenon DEF PutReturn, SetVersions, Log!Return
  <2>2. LogInv'
    BY <1>0, <2>1, SMTT(60) DEF LogInv
  <2>3. OpInv'
    <3>1. Idle.items = <<>> /\ Len(Idle.vers) = Len(Idle.keys)
      BY DEF Idle
    <3>2. ASSUME NEW q \in Procs PROVE op'[q] = IF q = p THEN Idle ELSE op[q]
      BY <1>0, <2>1
    <3> QED BY <2>1, <3>1, <3>2, SMTT(60) DEF OpInv
  <2>4. ASSUME NEW r \in acks', r.fresh, ~r.last PROVE Stored(dlog', r.item)
    <3>1. CASE r \in acks
      BY <1>0, <2>1, <2>4, <3>1, StoredKept, SMTT(60) DEF LogInv, AckInv
    <3>2. CASE r \notin acks
      <4>1. PICK i \in DOMAIN o.items :
              r = [item |-> o.items[i], fresh |-> i \in o.fresh,
                   last |-> o.kind = "put_all" /\ i = Len(o.items)]
        BY <2>1, <3>2, Zenon
      <4>2. r.item = o.items[i]
        BY <4>1
      <4>3. i \in o.fresh /\ ~(o.kind = "put_all" /\ i = Len(o.items))
        BY <2>4, <4>1, Zenon
      <4>4. Stored(vlog, o.items[i])
        BY <4>3, Zenon DEF OpInv
      <4> QED BY <2>1, <4>2, <4>4, SMTT(60)
    <3> QED BY <3>1, <3>2, SMTT(60)
  <2>5. AckInv'
    BY <2>4, Zenon DEF AckInv
  <2> QED BY <2>2, <2>3, <2>5
<1>6. ASSUME NEW p \in Procs, Step(p) PROVE LogInv' /\ OpInv' /\ AckInv'
  <2>1. CASE Start(p) \/ Stores(p) \/ Delivers(p) \/ (\E k \in Keys : CreateObj(p, k))
             \/ (\E a \in Addrs : FreeObj(p, a))
    <3>1. UNCHANGED <<logVars, op, acks>>
      BY <2>1, Zenon DEF Start, Stores, Delivers, Deliver, CreateObj, FreeObj
    <3> QED BY <1>1, <3>1
  <2>2. CASE Ends(p)
    BY <1>2, <2>2, Zenon DEF Ends, Fresh
  <2> QED BY <1>4, <1>5, <1>6, <2>1, <2>2, Zenon DEF Step
<1>7. CASE UNCHANGED vars
  BY <1>1, <1>7 DEF vars, procVars
<1> QED BY <1>3, <1>6, <1>7, StepCases, Zenon

-----------------------------------------------------------------------------
(* The theorems. *)

\* The inductive invariant of the store.
THEOREM StoreInvariance == Spec => []IInv
<1>1. ASSUME IInv, [Next]_vars PROVE IInv'
  <2>1. TypeOK'
    BY <1>1, TypeStep DEF IInv
  <2>2. MapsAgree'
    BY <1>1, MapsStep DEF IInv
  <2>3. LogInv' /\ OpInv' /\ AckInv'
    BY <1>1, FindStep
  <2> QED BY <2>1, <2>2, <2>3 DEF IInv
<1> QED BY <1>1, InitInv, PTL DEF Spec

\* The maps hold buffers of the key's size, the log holds whole chunks, and every
\* process is at a step of the code with the locals that step has.
THEOREM StoreTypes == Spec => []TypeOK
<1>1. IInv => TypeOK
  BY DEF IInv
<1> QED BY <1>1, StoreInvariance, PTL

\* Whatever create_obj, free_obj, get_with_malloc and restarts do, addrMap and
\* objectMap agree and no two objects share a buffer.
THEOREM MapsSafety == Spec => []MapsAgree
<1>1. IInv => MapsAgree
  BY DEF IInv
<1> QED BY <1>1, StoreInvariance, PTL

\* The first put or put_all of a name and version that returned is found with its
\* contents, by a walk now and after any crash, however keys share their names
\* and however many processes put.
THEOREM AckedPutSafety == Spec => []AckedPutReadable
<1>1. ASSUME IInv PROVE AckedPutReadable
  <2>1. vlog \in Seq(Chunks) /\ dlog \in Seq(Chunks) /\ LogInv /\ AckInv
    BY <1>1 DEF IInv, TypeOK
  <2>2. ASSUME NEW r \in acks, r.fresh /\ ~r.last
        PROVE  Stored(dlog, r.item) /\ Stored(vlog, r.item)
    <3>1. Stored(dlog, r.item)
      BY <2>1, <2>2, Zenon DEF AckInv
    <3> QED BY <2>1, <3>1, StoredKept DEF LogInv
  <2> QED BY <2>2, Zenon DEF AckedPutReadable, Stored
<1> QED BY <1>1, StoreInvariance, PTL

\* No put, crash or recovery changes what a restart answers for a name and a
\* version it had an answer for.
THEOREM ImmutableSafety == Spec => VersionsImmutable
<1> DEFINE A == \A n \in Names, v \in 1..MaxVer :
                  Find(dlog, n, v) # NotFound => Find(dlog', n, v) = Find(dlog, n, v)
<1>1. ASSUME IInv, [Next]_vars PROVE [A]_vars
  <2>1. vlog \in Seq(Chunks) /\ dlog \in Seq(Chunks) /\ LogInv
    BY <1>1 DEF IInv, TypeOK
  <2>2. dlog' = dlog \/ dlog' = vlog
    <3>1. CASE PowerFail
      BY <3>1 DEF PowerFail, Log!Recover
    <3>2. ASSUME NEW p \in Procs, Step(p) PROVE dlog' = dlog \/ dlog' = vlog
      BY <3>2, Zenon DEF Step, Start, Ends, Appends, AppendStep, Publish, Log!Publish, PutReturn,
         Log!Return, Stores, Delivers, Deliver, CreateObj, FreeObj, logVars
    <3>3. CASE UNCHANGED vars
      BY <3>3 DEF vars, logVars
    <3> QED BY <1>1, <3>1, <3>2, <3>3, StepCases, Zenon DEF IInv
  <2>3. ASSUME NEW n \in Names, NEW v \in 1..MaxVer, Find(dlog, n, v) # NotFound
        PROVE  Find(dlog', n, v) = Find(dlog, n, v)
    <3>1. Matches(dlog, n, v) # {}
      BY <2>3 DEF Find
    <3>2. Find(vlog, n, v) = Find(dlog, n, v)
      BY <2>1, <3>1, FindKept DEF LogInv
    <3> QED BY <2>2, <3>2, Zenon
  <2> QED BY <2>3
<1> QED BY <1>1, StoreInvariance, PTL DEF Spec, VersionsImmutable
=============================================================================
