------------------------------ MODULE NVSStore ------------------------------
(***************************************************************************)
(* The key-value store of kvstore/nvs_store.cc over one log.  A process    *)
(* keeps volatile objects (objectMap, addrMap, malloc'ed buffers); put and *)
(* put_all append their contents to the log as one chunk; get and          *)
(* get_with_malloc search the log from its head with process_chunks.       *)
(*                                                                         *)
(* The log is the abstract one of AtomicLog, which PersistentLog           *)
(* implements: a chunk is published at one instant, is durable when        *)
(* appendv returns, and a power failure may undo what was not durable.     *)
(***************************************************************************)
EXTENDS Naturals, Sequences, FiniteSets, FiniteSetsExt, SequencesExt

CONSTANTS
  Procs,     \* processes with a store on this log
  Writers,   \* those that put
  KeyOrder,  \* the keys, in the order std::map iterates over them
  Name,      \* Name[k]: the first KEY_LEN - 1 characters of key k
  Vals,      \* contents of an object
  Addrs,     \* addresses malloc can return (bounds the live objects)
  MaxVer,    \* bound on versions
  LogCap,    \* chunks that fit in the log
  NoAddr, NoKey, Junk, NotFound

Keys == ToSet(KeyOrder)
Names == {Name[k] : k \in Keys}
Versions == 0..MaxVer
Contents == Vals \cup {Junk}
Items == [name : Names, ver : Versions, val : Contents]
Chunks == {c \in [type : {"single", "multiple"}, items : Seq(Items)] :
             c.type = "single" => Len(c.items) = 1}
Ops == [kind : {"none", "put", "put_all"}, keys : Seq(Keys), vers : Seq(Versions),
        items : Seq(Items), fresh : SUBSET Nat]

ASSUME KeysAssumption ==
  /\ IsInjective(KeyOrder) /\ Writers \subseteq Procs
  /\ NoAddr \notin Addrs /\ NoKey \notin Keys
  /\ Junk \notin Vals /\ NotFound \notin Contents
  /\ MaxVer \in Nat

VARIABLES
  vlog, dlog, nack,  \* the log (AtomicLog)
  up,        \* the process runs
  objAddr,   \* objectMap: address of the object of each key, or NoAddr
  objVer,    \* objectMap: its version
  addrMap,   \* addrMap: key of each address, or NoKey
  alloc,     \* addresses malloc'ed and not freed
  buf,       \* contents at each address
  op,        \* append in progress: its chunk's items and what to do after it
  acks       \* history: items of the appends that returned

Log == INSTANCE AtomicLog WITH Entries <- Chunks

procVars == <<up, objAddr, objVer, addrMap, alloc, buf, op>>
logVars == <<vlog, dlog, nack>>
vars == <<logVars, procVars, acks>>

\* keys are the keys of objectMap, as an iteration meets them.
InMapOrder(p, keys) ==
  /\ ToSet(keys) = {k \in Keys : objAddr[p][k] # NoAddr}
  /\ \A i, j \in DOMAIN keys : i < j =>
       \E m, n \in DOMAIN KeyOrder : m < n /\ KeyOrder[m] = keys[i] /\ KeyOrder[n] = keys[j]
Idle == [kind |-> "none", keys |-> <<>>, vers |-> <<>>, items |-> <<>>, fresh |-> {}]

TypeOK ==
  /\ vlog \in Seq(Chunks) /\ dlog \in Seq(Chunks) /\ nack \in Nat
  /\ up \in [Procs -> BOOLEAN]
  /\ objAddr \in [Procs -> [Keys -> Addrs \cup {NoAddr}]]
  /\ objVer \in [Procs -> [Keys -> Versions]]
  /\ addrMap \in [Procs -> [Addrs -> Keys \cup {NoKey}]]
  /\ alloc \in [Procs -> SUBSET Addrs]
  /\ buf \in [Procs -> [Addrs -> Contents]]
  /\ op \in [Procs -> Ops]
  /\ \A r \in acks : r.item \in Items

\* The volatile state of a process that has just started.
Fresh(p) ==
  /\ objAddr' = [objAddr EXCEPT ![p] = [k \in Keys |-> NoAddr]]
  /\ objVer' = [objVer EXCEPT ![p] = [k \in Keys |-> 0]]
  /\ addrMap' = [addrMap EXCEPT ![p] = [a \in Addrs |-> NoKey]]
  /\ alloc' = [alloc EXCEPT ![p] = {}]
  /\ buf' = [buf EXCEPT ![p] = [a \in Addrs |-> Junk]]
  /\ op' = [op EXCEPT ![p] = Idle]

Init ==
  /\ Log!AInit
  /\ up = [p \in Procs |-> FALSE]
  /\ objAddr = [p \in Procs |-> [k \in Keys |-> NoAddr]]
  /\ objVer = [p \in Procs |-> [k \in Keys |-> 0]]
  /\ addrMap = [p \in Procs |-> [a \in Addrs |-> NoKey]]
  /\ alloc = [p \in Procs |-> {}]
  /\ buf = [p \in Procs |-> [a \in Addrs |-> Junk]]
  /\ op = [p \in Procs |-> Idle]
  /\ acks = {}

-----------------------------------------------------------------------------
(* process_chunks and Log::walk: the first chunk with a match decides.     *)

\* The items of a chunk that process_chunks compares.  In a chunk of type
\* multiple, i_index is already past the item under consideration when the
\* loop tests i_index < lehdr->len, so the last item is not compared.
Compared(c) == IF c.type = "single" THEN {1} ELSE 1..(Len(c.items) - 1)

Hits(c, n, v) == {i \in Compared(c) : c.items[i].name = n /\ c.items[i].ver = v}

\* The chunks at which a walk that looks for name n and version v can stop.
Matches(log, n, v) == {j \in DOMAIN log : Hits(log[j], n, v) # {}}

\* Mutant: the last match decides.
Find_Last(log, n, v) ==
  IF Matches(log, n, v) = {} THEN NotFound
  ELSE LET c == log[Max(Matches(log, n, v))] IN c.items[Min(Hits(c, n, v))].val

Find(log, n, v) ==
  IF Matches(log, n, v) = {} THEN NotFound
  ELSE LET c == log[Min(Matches(log, n, v))] IN c.items[Min(Hits(c, n, v))].val

-----------------------------------------------------------------------------
(* Objects.  An application thread calls one operation at a time.          *)

Ready(p) == up[p] /\ op[p] = Idle

\* The process ends (exit(1), a signal, or normally).
Ends(p) ==
  /\ up' = [up EXCEPT ![p] = FALSE]
  /\ Fresh(p)
  /\ UNCHANGED <<logVars, acks>>

Start(p) ==
  /\ ~up[p]
  /\ up' = [up EXCEPT ![p] = TRUE]
  /\ UNCHANGED <<objAddr, objVer, addrMap, alloc, buf, op, logVars, acks>>

CreateObj(p, k) ==
  /\ Ready(p) /\ objAddr[p][k] = NoAddr
  /\ \E a \in Addrs \ alloc[p] :
       /\ alloc' = [alloc EXCEPT ![p] = @ \cup {a}]
       /\ buf' = [buf EXCEPT ![p][a] = Junk]
       /\ objAddr' = [objAddr EXCEPT ![p][k] = a]
       /\ objVer' = [objVer EXCEPT ![p][k] = 0]
       /\ addrMap' = [addrMap EXCEPT ![p][a] = k]
  /\ UNCHANGED <<up, op, logVars, acks>>

\* "object key already exists": exit(1).
CreateObjExists(p, k) ==
  /\ Ready(p) /\ objAddr[p][k] # NoAddr
  /\ Ends(p)

\* The application stores into a buffer it was given.
Write(p, a, x) ==
  /\ Ready(p) /\ a \in alloc[p]
  /\ buf' = [buf EXCEPT ![p][a] = x]
  /\ UNCHANGED <<up, objAddr, objVer, addrMap, alloc, op, logVars, acks>>

\* Mutant: addrMap keeps the freed address.
FreeObj_KeepAddr(p, a) ==
  /\ Ready(p) /\ a \in alloc[p]
  /\ addrMap[p][a] # NoKey
  /\ objAddr[p][addrMap[p][a]] # NoAddr
  /\ objAddr' = [objAddr EXCEPT ![p][addrMap[p][a]] = NoAddr]
  /\ objVer' = [objVer EXCEPT ![p][addrMap[p][a]] = 0]
  /\ alloc' = [alloc EXCEPT ![p] = @ \ {a}]
  /\ buf' = [buf EXCEPT ![p][a] = Junk]
  /\ UNCHANGED <<up, addrMap, op, logVars, acks>>

\* The two look-ups of free_obj, then both maps and the buffer.
FreeObj(p, a) ==
  /\ Ready(p) /\ a \in alloc[p]
  /\ addrMap[p][a] # NoKey
  /\ objAddr[p][addrMap[p][a]] # NoAddr
  /\ objAddr' = [objAddr EXCEPT ![p][addrMap[p][a]] = NoAddr]
  /\ objVer' = [objVer EXCEPT ![p][addrMap[p][a]] = 0]
  /\ addrMap' = [addrMap EXCEPT ![p][a] = NoKey]
  /\ alloc' = [alloc EXCEPT ![p] = @ \ {a}]
  /\ buf' = [buf EXCEPT ![p][a] = Junk]
  /\ UNCHANGED <<up, op, logVars, acks>>

\* "no object found in the nvs address map": exit(1).
FreeObjUnknown(p, a) ==
  /\ Ready(p) /\ a \in alloc[p]
  /\ addrMap[p][a] = NoKey
  /\ Ends(p)

-----------------------------------------------------------------------------
(* put and put_all: build one chunk, append it, then the soft state.       *)

ItemOf(p, k, v) == [name |-> Name[k], ver |-> v, val |-> buf[p][objAddr[p][k]]]

\* appendv publishes the chunk; items whose name and version nothing readable
\* has yet are recorded as fresh.
Publish(p, kind, chunk, keys, vers) ==
  LET items == chunk.items
      first(i) == \A j \in 1..(i - 1) : items[j].name # items[i].name
                                        \/ items[j].ver # items[i].ver
  IN /\ Len(vlog) < LogCap
     /\ Log!Publish(chunk)
     /\ op' = [op EXCEPT ![p] =
          [kind |-> kind, keys |-> keys, vers |-> vers, items |-> items,
           fresh |-> {i \in DOMAIN items :
                        first(i) /\ Matches(vlog, items[i].name, items[i].ver) = {}}]]
     /\ UNCHANGED <<up, objAddr, objVer, addrMap, alloc, buf, acks>>

Put(p, k, v) ==
  /\ Ready(p) /\ p \in Writers /\ objAddr[p][k] # NoAddr
  /\ Publish(p, "put", [type |-> "single", items |-> <<ItemOf(p, k, v)>>], <<k>>, <<v>>)

PutAll(p) ==
  /\ Ready(p) /\ p \in Writers
  /\ \E keys \in SeqOf(Keys, Len(KeyOrder)) :
       LET vers == [i \in DOMAIN keys |-> objVer[p][keys[i]] + 1]
           items == [i \in DOMAIN keys |-> ItemOf(p, keys[i], vers[i])]
       IN /\ InMapOrder(p, keys)
          /\ \A i \in DOMAIN keys : vers[i] <= MaxVer
          /\ Publish(p, "put_all", [type |-> "multiple", items |-> items], keys, vers)

\* "not enough space on log": exit(1) inside appendv.
PutNoSpace(p) ==
  /\ Ready(p) /\ p \in Writers /\ Len(vlog) >= LogCap
  /\ Ends(p)

\* The soft state and the history after appendv; bump is what a mutant adds.
SetVersions(p, bump) ==
  LET o == op[p]
      ver(k) == o.vers[CHOOSE i \in DOMAIN o.keys : o.keys[i] = k] + bump
  IN /\ objVer' = [objVer EXCEPT ![p] = [k \in Keys |->
                     IF k \in ToSet(o.keys) THEN ver(k) ELSE @[k]]]
     /\ acks' = acks \cup
          {[item |-> o.items[i], fresh |-> i \in o.fresh,
            last |-> o.kind = "put_all" /\ i = Len(o.items)] : i \in DOMAIN o.items}
     /\ op' = [op EXCEPT ![p] = Idle]
     /\ UNCHANGED <<up, objAddr, addrMap, alloc, buf>>

\* Mutant: put returns before its chunk is durable.
PutReturn_Early(p) ==
  /\ up[p] /\ op[p] # Idle
  /\ UNCHANGED logVars
  /\ SetVersions(p, 0)

\* Mutant: the version is incremented twice.
PutReturn_Twice(p) ==
  /\ up[p] /\ op[p] # Idle
  /\ Log!Return
  /\ SetVersions(p, 1)

\* appendv returns: the versions of the objects it wrote are set.
PutReturn(p) ==
  /\ up[p] /\ op[p] # Idle
  /\ Log!Return
  /\ SetVersions(p, 0)

-----------------------------------------------------------------------------
(* get and get_with_malloc. *)

Get(p, k, v, a) ==
  /\ Ready(p) /\ a \in alloc[p]
  /\ Find(vlog, Name[k], v) # NotFound
  /\ buf' = [buf EXCEPT ![p][a] = Find(vlog, Name[k], v)]
  /\ UNCHANGED <<up, objAddr, objVer, addrMap, alloc, op, logVars, acks>>

\* The object of key k, or a new one that addrMap does not know, receives the
\* contents and the version.
Deliver(p, k, v, x) ==
  LET new == objAddr[p][k] = NoAddr
  IN \E a \in (IF new THEN Addrs \ alloc[p] ELSE {objAddr[p][k]}) :
       /\ alloc' = [alloc EXCEPT ![p] = @ \cup {a}]
       /\ objAddr' = [objAddr EXCEPT ![p][k] = a]
       /\ objVer' = [objVer EXCEPT ![p][k] = v]
       /\ buf' = [buf EXCEPT ![p][a] = x]
       /\ UNCHANGED <<up, addrMap, op, logVars, acks>>

GetWithMalloc(p, k, v) ==
  /\ Ready(p)
  /\ Find(vlog, Name[k], v) # NotFound
  /\ Deliver(p, k, v, Find(vlog, Name[k], v))

\* walk returns ID_NOT_FOUND on an empty log without calling the callback.
\* get_with_malloc does not look at that, and reads a walkentry whose err,
\* datap and len nobody set: it may report not found, crash, or hand out
\* whatever the stack held.
GetWithMallocEmpty(p, k, v) ==
  /\ Ready(p) /\ vlog = <<>>
  /\ Ends(p) \/ Deliver(p, k, v, Junk)

-----------------------------------------------------------------------------

Kill(p) ==
  /\ up[p]
  /\ Ends(p)

\* Every process ends; the log recovers.
PowerFail ==
  /\ Log!Recover
  /\ up' = [p \in Procs |-> FALSE]
  /\ objAddr' = [p \in Procs |-> [k \in Keys |-> NoAddr]]
  /\ objVer' = [p \in Procs |-> [k \in Keys |-> 0]]
  /\ addrMap' = [p \in Procs |-> [a \in Addrs |-> NoKey]]
  /\ alloc' = [p \in Procs |-> {}]
  /\ buf' = [p \in Procs |-> [a \in Addrs |-> Junk]]
  /\ op' = [p \in Procs |-> Idle]
  /\ UNCHANGED acks

ObjectOps(p) ==
  \/ Start(p) \/ Kill(p)
  \/ \E k \in Keys : CreateObj(p, k) \/ CreateObjExists(p, k)
  \/ \E a \in Addrs : FreeObj(p, a) \/ FreeObjUnknown(p, a)
  \/ \E a \in Addrs, x \in Vals : Write(p, a, x)

PutOps(p) ==
  \/ \E k \in Keys, v \in 1..MaxVer : Put(p, k, v)
  \/ PutAll(p) \/ PutNoSpace(p) \/ PutReturn(p)

GetOps(p) ==
  \E k \in Keys, v \in 1..MaxVer :
    \/ \E a \in Addrs : Get(p, k, v, a)
    \/ GetWithMalloc(p, k, v) \/ GetWithMallocEmpty(p, k, v)

Next == (\E p \in Procs : ObjectOps(p) \/ PutOps(p) \/ GetOps(p)) \/ PowerFail

Spec == Init /\ [][Next]_vars

-----------------------------------------------------------------------------
(* Properties. *)

\* free_obj never frees another object's buffer and its second look-up never
\* fails: addrMap and objectMap agree whatever create_obj, free_obj and
\* get_with_malloc did, and no two objects share a buffer.
MapsAgree ==
  \A p \in Procs :
    /\ \A a \in Addrs : addrMap[p][a] # NoKey =>
         a \in alloc[p] /\ objAddr[p][addrMap[p][a]] = a
    /\ \A k, l \in Keys : objAddr[p][k] = objAddr[p][l] /\ objAddr[p][k] # NoAddr
         => k = l /\ objAddr[p][k] \in alloc[p]

\* A put or put_all that returned is found by get with exactly its contents,
\* now and after any crash, if it was the first under its name and version (and
\* not the last object of a snapshot).
AckedPutReadable ==
  \A r \in acks : r.fresh /\ ~r.last =>
    /\ Find(vlog, r.item.name, r.item.ver) = r.item.val
    /\ Find(dlog, r.item.name, r.item.ver) = r.item.val

\* What a restart would answer for a name and version never changes once there
\* is an answer: versions on the log are immutable, across puts and crashes.
VersionsImmutable ==
  [][\A n \in Names, v \in 1..MaxVer :
       Find(dlog, n, v) # NotFound => Find(dlog', n, v) = Find(dlog, n, v)]_vars

\* A snapshot is all there: every object put_all wrote can be found at the
\* version it was written with.
SnapshotComplete ==
  \A r \in acks : Find(vlog, r.item.name, r.item.ver) # NotFound

-----------------------------------------------------------------------------
(* The inductive invariant. *)

Stored(log, item) ==
  /\ Matches(log, item.name, item.ver) # {}
  /\ Find(log, item.name, item.ver) = item.val

\* A restart finds a prefix of what is published.
LogInv ==
  Len(dlog) <= Len(vlog) /\ \A j \in 1..Len(dlog) : dlog[j] = vlog[j]

\* What an append in progress will acknowledge can be found.
OpInv ==
  \A p \in Procs :
    LET o == op[p]
    IN /\ Len(o.vers) = Len(o.keys)
       /\ \A i \in DOMAIN o.items :
            i \in o.fresh /\ ~(o.kind = "put_all" /\ i = Len(o.items)) => Stored(vlog, o.items[i])

AckInv == \A r \in acks : r.fresh /\ ~r.last => Stored(dlog, r.item)

IInv == TypeOK /\ LogInv /\ OpInv /\ AckInv /\ MapsAgree
=============================================================================
