----------------------------- MODULE DeltaStore -----------------------------
(***************************************************************************)
(* The delta store of kvstore/delta_store.cc with Object of object.cc, in  *)
(* the threads of a process that get it from StoreManager::GetInstance.    *)
(* After a put the pages of an object are write protected; the signal      *)
(* handler of the first store to a page lifts the protection and sets the  *)
(* page's bit; the next put appends the pages with a bit.                  *)
(*                                                                         *)
(* Contents are abstracted to stale[k]: the pages of k that differ from    *)
(* what the deltas on the log rebuild.  Offsets are in bytes, addresses in *)
(* an address space of a few pages.  The store takes no lock: one thread   *)
(* at a time uses it and its objects.                                      *)
(***************************************************************************)
EXTENDS StoreManager, Naturals, Sequences, FiniteSets, Functions

CONSTANTS
  KeyOrder,   \* the keys, in the order std::map iterates over them
  Size,       \* Size[k]: size of the object of key k
  PageSize,   \* PAGE_SIZE
  Frames,     \* pages of the address space posix_memalign takes from: 0..n
  MaxDeltas,  \* length of lehdr_t.deltas
  LedeltaSize, LehdrSize, \* sizeof(struct ledelta_t), sizeof(struct lehdr_t)
  MaxVer,     \* bound on versions
  LogCap,     \* entries that fit in the log
  NoFrame

Keys == Range(KeyOrder)
AlignedPages(k) == (Size[k] + PageSize - 1) \div PageSize
PagesOf(k) == 0..(AlignedPages(k) - 1)
Pos(k) == CHOOSE i \in DOMAIN KeyOrder : KeyOrder[i] = k

\* An object has at least one byte: posix_memalign gives one of size 0 no page.
ASSUME DeltaAssumption ==
  /\ KeyOrder \in Seq(Keys) /\ IsInjective(KeyOrder) /\ Size \in [Keys -> Nat \ {0}]
  /\ PageSize \in Nat \ {0} /\ Frames \subseteq Nat /\ NoFrame \notin Frames
  /\ MaxVer \in Nat /\ LogCap \in Nat /\ MaxDeltas \in Nat

VARIABLES
  dsObject,  \* ds_object: the store the signal handler asks
  owner,     \* owner[k]: the store whose objectMap has key k, or Null
  frame,     \* frame[k]: first page of the object of k, or NoFrame
  ver,       \* its version
  bits,      \* its bitset, as a set of pages
  prot,      \* write-protected pages of the address space
  used,      \* entries on the log
  stale,     \* pages of k that differ from what the deltas on the log rebuild
  missed,    \* history: stale[k] just after the last put of k
  lost       \* history: pages of k that were put in a region no header describes,
             \* and in none since that one does

objVars == <<dsObject, owner, frame, ver, bits, prot, stale>>
deltaVars == <<objVars, used, missed, lost>>
vars == <<smVars, deltaVars>>

FramesOf(k) == IF frame[k] = NoFrame THEN {} ELSE {frame[k] + i : i \in PagesOf(k)}
Ptr(k) == frame[k] * PageSize

TypeOK ==
  /\ SMTypeOK
  /\ dsObject \in Threads \cup {Null}
  /\ owner \in [Keys -> Threads \cup {Null}]
  /\ frame \in [Keys -> Frames \cup {NoFrame}]
  /\ ver \in [Keys -> 0..MaxVer]
  /\ bits \in [Keys -> SUBSET Nat] /\ stale \in [Keys -> SUBSET Nat]
  /\ missed \in [Keys -> SUBSET Nat] /\ lost \in [Keys -> SUBSET Nat]
  /\ \A k \in Keys : bits[k] \subseteq PagesOf(k) /\ stale[k] \subseteq PagesOf(k)
  /\ prot \subseteq Frames /\ used \in 0..LogCap

NoObjects ==
  /\ dsObject' = Null
  /\ owner' = [k \in Keys |-> Null] /\ frame' = [k \in Keys |-> NoFrame]
  /\ ver' = [k \in Keys |-> 0] /\ bits' = [k \in Keys |-> {}]
  /\ prot' = {} /\ stale' = [k \in Keys |-> {}]

Init ==
  /\ SMInit
  /\ dsObject = Null
  /\ owner = [k \in Keys |-> Null] /\ frame = [k \in Keys |-> NoFrame]
  /\ ver = [k \in Keys |-> 0] /\ bits = [k \in Keys |-> {}]
  /\ prot = {} /\ stale = [k \in Keys |-> {}]
  /\ used = 0 /\ missed = [k \in Keys |-> {}] /\ lost = [k \in Keys |-> {}]

-----------------------------------------------------------------------------
(* GetInstance, and the end of the process. *)

\* Everything volatile goes; the log stays.
Ends == ProcessEnds /\ NoObjects /\ UNCHANGED <<used, missed, lost>>

\* new DeltaStore (its objectMap is empty), then ds_object.
BuildStore(t) ==
  /\ Build(t)
  /\ dsObject' = t
  /\ UNCHANGED <<owner, frame, ver, bits, prot, stale, used, missed, lost>>

GetInstance(t) ==
  \/ BuildStore(t)
  \/ /\ FirstLoad(t) \/ AcquireFence(t) \/ Acquire(t) \/ SecondLoad(t)
        \/ Publish(t) \/ Unlock(t) \/ Again(t)
     /\ UNCHANGED deltaVars

-----------------------------------------------------------------------------
(* Object. *)

\* Mutant: page_index > 1.
SetModifiedBit_OffByOne(k, page) ==
  bits' = [bits EXCEPT ![k] = IF page > 1 /\ page < AlignedPages(k) THEN @ \cup {page} ELSE @]

\* Mutant: page_index <= bitset.size().
SetModifiedBit_NoBound(k, page) ==
  bits' = [bits EXCEPT ![k] = IF page > 0 /\ page <= AlignedPages(k) THEN @ \cup {page} ELSE @]

\* set_modified_bit
SetModifiedBit(k, page) ==
  bits' = [bits EXCEPT ![k] = IF page > 0 /\ page < AlignedPages(k) THEN @ \cup {page} ELSE @]

\* Mutant: the region that reaches the end of the object is not closed.
ScanPage_OpenEnd(k, page, before) ==
  LET start == IF before.inside THEN before.start ELSE page
      closes == before.inside /\ page \notin bits[k]
  IN [inside |-> page \in bits[k], start |-> start,
      chunks |-> IF ~closes THEN before.chunks
                 ELSE Append(before.chunks, [offset |-> start * PageSize,
                                             len |-> (page - start) * PageSize])]

\* One iteration of get_delta_chunks: a region is closed by a clear bit or by the
\* end of the object, where it is cut to the object's size.
ScanPage(k, page, before) ==
  LET set == page \in bits[k]
      start == IF before.inside THEN before.start ELSE page
      closes == (before.inside \/ set) /\ (~set \/ page = AlignedPages(k) - 1)
      chunk == [offset |-> start * PageSize,
                len |-> IF set THEN Size[k] - start * PageSize
                        ELSE (page - start) * PageSize]
  IN [inside |-> set /\ ~closes, start |-> start,
      chunks |-> IF closes THEN Append(before.chunks, chunk) ELSE before.chunks]

\* get_delta_chunks: one pass over the bits.
GetDeltaChunks(k) ==
  LET scan[n \in 0..AlignedPages(k)] ==
        IF n = 0 THEN [inside |-> FALSE, start |-> 0, chunks |-> <<>>]
        ELSE ScanPage(k, n - 1, scan[n - 1])
  IN scan[AlignedPages(k)].chunks

BytesOf(chunks) == UNION {c.offset..(c.offset + c.len - 1) : c \in chunks}
PageBytes(k, i) == {b \in (i * PageSize)..((i + 1) * PageSize - 1) : b < Size[k]}

\* The next delta of k: the header has room for the first MaxDeltas regions.  What
\* is written past its end is not appended with it, or the header of the next
\* object is written over it.
Described(k) ==
  LET chunks == GetDeltaChunks(k)
  IN {chunks[n] : n \in {m \in DOMAIN chunks : m <= MaxDeltas}}
Undescribed(k) ==
  LET chunks == GetDeltaChunks(k)
  IN {chunks[n] : n \in {m \in DOMAIN chunks : m > MaxDeltas}}

\* The pages that can be rebuilt from it, and those it has bytes of in vain.
Covered(k) ==
  LET bytes == BytesOf(Described(k))
  IN {i \in PagesOf(k) : PageBytes(k, i) \subseteq bytes}
Dropped(k) ==
  LET bytes == BytesOf(Undescribed(k))
  IN {i \in PagesOf(k) : PageBytes(k, i) \cap bytes # {}}

-----------------------------------------------------------------------------
(* The application and the signal handler. *)

InUse(t) == thr[t] = "in"
Has(t, k) == InUse(t) /\ owner[k] = tmp[t]

\* posix_memalign of the rounded-up size; all bits set, nothing protected.
CreateObj(t, k) ==
  /\ InUse(t) /\ owner[k] # tmp[t]
  /\ \E f \in Frames :
       /\ \A i \in PagesOf(k) : f + i \in Frames /\ \A o \in Keys : f + i \notin FramesOf(o)
       /\ frame' = [frame EXCEPT ![k] = f]
  /\ owner' = [owner EXCEPT ![k] = tmp[t]]
  /\ ver' = [ver EXCEPT ![k] = 0]
  /\ bits' = [bits EXCEPT ![k] = PagesOf(k)]
  /\ stale' = [stale EXCEPT ![k] = PagesOf(k)]
  /\ UNCHANGED <<smVars, dsObject, prot, used, missed, lost>>

\* "object key already exists": exit(1).
CreateObjExists(t, k) == Has(t, k) /\ Ends

\* addrMap is never filled: "no object found in the dnvs address map", exit(1).
FreeObj(t, k) == Has(t, k) /\ Ends

\* delta_handler takes the address for one of the object of k:
\* 0 <= offset <= aligned_size.
InRange(addr, k) ==
  /\ owner[k] = dsObject /\ frame[k] # NoFrame
  /\ addr >= Ptr(k) /\ addr - Ptr(k) <= AlignedPages(k) * PageSize

\* A store to byte b of the object of k, to a page that is not protected.
Write(t, k, b) ==
  /\ Has(t, k) /\ frame[k] + b \div PageSize \notin prot
  /\ stale' = [stale EXCEPT ![k] = @ \cup {b \div PageSize}]
  /\ UNCHANGED <<smVars, dsObject, owner, frame, ver, bits, prot, used, missed, lost>>

\* The same to a protected page: delta_handler lifts the protection of the page,
\* records it in the first object of the map that has the address in its range,
\* and the store is done again.
WriteFault(t, k, b) ==
  LET addr == Ptr(k) + b
  IN /\ Has(t, k) /\ frame[k] + b \div PageSize \in prot
     /\ prot' = prot \ {addr \div PageSize}
     /\ \E hit \in Keys :
          /\ InRange(addr, hit)
          /\ \A o \in Keys : InRange(addr, o) => Pos(hit) <= Pos(o)
          /\ SetModifiedBit(hit, (addr - Ptr(hit)) \div PageSize)
     /\ stale' = [stale EXCEPT ![k] = @ \cup {b \div PageSize}]
     /\ UNCHANGED <<smVars, dsObject, owner, frame, ver, used, missed, lost>>

-----------------------------------------------------------------------------
(* put and put_all. *)

\* Mutant: the page after an object is protected as well.
AppendDeltas_OneMore(ks, newVer) ==
  /\ used < LogCap /\ used' = used + 1
  /\ stale' = [k \in Keys |-> IF k \in ks THEN stale[k] \ Covered(k) ELSE stale[k]]
  /\ missed' = [k \in Keys |-> IF k \in ks THEN stale'[k] ELSE missed[k]]
  /\ lost' = [k \in Keys |-> IF k \in ks THEN (lost[k] \cup Dropped(k)) \ Covered(k)
                             ELSE lost[k]]
  /\ ver' = newVer
  /\ prot' = prot \cup UNION {FramesOf(k) \cup {frame[k] + AlignedPages(k)} : k \in ks}
  /\ bits' = [k \in Keys |-> IF k \in ks THEN {} ELSE bits[k]]
  /\ UNCHANGED <<smVars, dsObject, owner, frame>>

\* The deltas of the objects in ks go to the log as one entry; then their
\* versions, write protection, and reset_bit_vector, also of the pages that are
\* in a region no header describes.
AppendDeltas(ks, newVer) ==
  /\ used < LogCap /\ used' = used + 1
  /\ stale' = [k \in Keys |-> IF k \in ks THEN stale[k] \ Covered(k) ELSE stale[k]]
  /\ missed' = [k \in Keys |-> IF k \in ks THEN stale'[k] ELSE missed[k]]
  /\ lost' = [k \in Keys |-> IF k \in ks THEN (lost[k] \cup Dropped(k)) \ Covered(k)
                             ELSE lost[k]]
  /\ ver' = newVer
  /\ prot' = prot \cup UNION {FramesOf(k) : k \in ks}
  /\ bits' = [k \in Keys |-> IF k \in ks THEN {} ELSE bits[k]]
  /\ UNCHANGED <<smVars, dsObject, owner, frame>>

Put(t, k, v) ==
  /\ Has(t, k)
  /\ AppendDeltas({k}, [ver EXCEPT ![k] = v])

PutAll(t) ==
  LET ks == {k \in Keys : Has(t, k)}
  IN /\ InUse(t)
     /\ \A k \in ks : ver[k] < MaxVer
     /\ AppendDeltas(ks, [k \in Keys |-> IF k \in ks THEN ver[k] + 1 ELSE ver[k]])

\* "not enough space on log": exit(1) in appendv.
PutNoSpace(t) == InUse(t) /\ used = LogCap /\ Ends

\* Nothing bounds the index of lehdr_t.deltas.  In put the regions past the last
\* one run over the stack behind the header: the process ends, or goes on (Put).
PutOverrun(t, k) == Has(t, k) /\ Len(GetDeltaChunks(k)) > MaxDeltas /\ Ends

\* In put_all they run into the headers of the objects behind, which are filled
\* later, and past all of these out of the malloc'ed array: there the process
\* ends, or goes on (PutAll).
PutAllOverrun(t) ==
  LET ks == {k \in Keys : Has(t, k)}
      behind(k) == Cardinality({l \in ks : Pos(l) > Pos(k)})
  IN /\ \E k \in ks : Len(GetDeltaChunks(k)) * LedeltaSize
                        > MaxDeltas * LedeltaSize + behind(k) * LehdrSize
     /\ Ends

\* process_chunks supports neither of the two types that put and put_all write
\* and then ends without a return statement: the object is reported as not found
\* (nothing changes), or the process ends.  On an empty log err is never set:
\* get_with_malloc may take it for success and set the object's version.  (An
\* object made from an unset length counts as the end of the process.)
GetWithMalloc(t, k, v) ==
  /\ InUse(t)
  /\ \/ Ends
     \/ /\ used = 0 /\ Has(t, k)
        /\ ver' = [ver EXCEPT ![k] = v]
        /\ UNCHANGED <<smVars, dsObject, owner, frame, bits, prot, stale, used, missed, lost>>

-----------------------------------------------------------------------------

Bytes(k) == 0..(Size[k] - 1)

Use(t) ==
  \/ PutAll(t) \/ PutAllOverrun(t) \/ PutNoSpace(t)
  \/ \E k \in Keys :
       \/ CreateObj(t, k) \/ CreateObjExists(t, k) \/ FreeObj(t, k) \/ PutOverrun(t, k)
       \/ \E b \in Bytes(k) : Write(t, k, b) \/ WriteFault(t, k, b)
       \/ \E v \in 0..MaxVer : Put(t, k, v) \/ GetWithMalloc(t, k, v)

Next == (\E t \in Threads : GetInstance(t) \/ Use(t)) \/ Ends

\* A thread inside GetInstance is scheduled.
Spec ==
  /\ Init /\ [][Next]_vars
  /\ \A t \in Threads : WF_vars(GetInstanceStep(t) /\ GetInstance(t))

-----------------------------------------------------------------------------
(* Properties. *)

\* Every call of GetInstance returns unless the process ends: a thread waits for
\* the mutex at most as long as others need that have not seen the store either.
GetInstanceReturns == \A t \in Threads : thr[t] = "fence" ~> thr[t] \in {"in", "out"}

\* get_delta_chunks cuts the bits into maximal regions: its chunks hold exactly
\* the bytes of the modified pages, in order, and no two of them touch.
ChunksExact ==
  \A k \in Keys : frame[k] # NoFrame =>
    LET chunks == GetDeltaChunks(k)
    IN /\ BytesOf(Range(chunks)) = UNION {PageBytes(k, i) : i \in bits[k]}
       /\ \A m, n \in DOMAIN chunks : m < n => chunks[m].offset + chunks[m].len < chunks[n].offset

\* Every page that faults belongs to an object of the store the signal handler
\* asks: delta_handler never hands a fault of the application to the old handler.
FaultsAreOurs ==
  \A f \in prot : \E k \in Keys : owner[k] = dsObject /\ f \in FramesOf(k)

\* The deltas of an object on the log rebuild what it held at its last put, however
\* the objects lie in memory, but for its first page and for pages of which the
\* last put was in a region past the end of lehdr_t.deltas.
DeltasRebuildTail == \A k \in Keys : missed[k] \subseteq {0} \cup lost[k]

\* The index of every modified page is recorded: the deltas of an object on the
\* log rebuild what it held at its last put.
DeltasRebuild == \A k \in Keys : missed[k] = {}

-----------------------------------------------------------------------------
(* The inductive invariant.  All objects belong to the one store there is;   *)
(* they share no page; a page that is not protected has its bit, but for the *)
(* first one; and a stale page has its bit, is the first one, or lost.       *)

OwnerInv ==
  /\ built = IF dsObject = Null THEN {} ELSE {dsObject}
  /\ \A k \in Keys : /\ owner[k] # Null => owner[k] = dsObject
                     /\ owner[k] = Null <=> frame[k] = NoFrame

LayoutInv ==
  /\ \A k \in Keys : FramesOf(k) \subseteq Frames
  /\ \A k, l \in Keys : k # l => FramesOf(k) \cap FramesOf(l) = {}
  /\ \A f \in prot : \E k \in Keys : f \in FramesOf(k)

BitsInv ==
  \A k \in Keys :
    /\ stale[k] \subseteq bits[k] \cup {0} \cup lost[k]
    /\ frame[k] # NoFrame =>
         \A i \in PagesOf(k) : frame[k] + i \in prot \/ i \in bits[k] \cup {0}

IInv == TypeOK /\ SMInv /\ OwnerInv /\ LayoutInv /\ BitsInv /\ DeltasRebuildTail
=============================================================================
