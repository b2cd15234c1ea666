# A verification project for nvstream

nvstream (`nvstream/` in this repository) is a versioned object store on
persistent memory. This directory holds TLA+ models of it, the TLC runs that
check them on small instances, and TLAPS proofs for all instances.

## The system

`nvstream/README.txt` names a Writer, a Runtime and a Reader. In the code:

| part | source | what it does |
|---|---|---|
| Persistent log | `src/sheap/log.{h,cc}` | a memory-mapped file; a producer appends entries and moves `tail`, consumers walk from `head` to `tail` without a lock |
| Root heap | `src/sheap/root.{h,cc}`, `layout.h` | a persistent array of log ids, under one mutex in shared memory |
| Memory manager | `src/sheap/memory_manager.cc` | `FindLog` and `CreateLog` over the root heap; a map of open logs |
| heapFormatter | `src/tools/heapFormatter.cc` | creates the root heap |
| NVSStore | `src/kvstore/nvs_store.{h,cc}` | objects in volatile memory; `put`/`put_all` append them, `get`/`get_with_malloc` search the log |
| DeltaStore, `Object` | `src/kvstore/delta_store.*`, `object.*` | the same with page protection; appends changed pages only |
| FileStore, NullStore, TimingStore | `src/kvstore/` | files instead of a log; nothing; a tracing wrapper |
| StoreManager | `src/kvstore/store_manager.cc` | the singleton through which applications reach a store |
| Global pointers | `include/nvs/global_ptr.h` | packing of a log id and an offset |
| common | `src/common/` | logging, assertions, timing |

The applications (`CM1`, `gtc`, `miniAMR`, `microbench`) create objects, write to
them, and call `put_all` once per time step; consumers call `get_with_malloc`.
A rank uses the log whose id is its rank; a consumer of a rank's data opens the
same log. `PROJECT.json` lists the components, and under "hazards" what can go
wrong at which line.

## Modules

| module | models |
|---|---|
| `PersistentLog` | `Log::Log`, `appendv`/`appendmv`, `persist`, `walk`; kills and power failures |
| `AtomicLog` | what the log promises: a sequence of whole entries that only grows |
| `LogPromise` | the mapping from the bytes of the log to `AtomicLog`, and the refinement as a property |
| `MCPersistentLog` | small instances |
| `PersistentLogOpenProofs`, `PersistentLogAppendProofs`, `PersistentLogProofs` | each step preserves `IInv`: opening, walking and kills; copying and flagging an entry; moving the tail and power failures. The last one also holds the theorems and the refinement of `AtomicLog` |
| `MemoryManager` | start-up of a process: `RootHeap`, `FindLog`, `CreateLog`, the constructor of `NVSStore`, `heapFormatter` |
| `MCMemoryManager`, `MemoryManagerProofs` | its instances and proofs |
| `NVSStore` | `create_obj`, `free_obj`, `put`, `put_all`, `get`, `get_with_malloc`, over `AtomicLog` |
| `MCNVSStore`, `NVSStoreProofs` | its instances and proofs |
| `StoreManager` | `GetInstance`: double-checked locking with relaxed loads and fences |
| `OneInstance`, `StoreManagerProofs` | what `GetInstance` promises; the proof that it keeps it |
| `DeltaStore` | page tracking, delta chunks, `put`, `put_all`, the signal handler, in the threads of `StoreManager` |
| `MCDeltaStore`, `DeltaStoreProofs` | its instances and proofs |
| `FileStore` | `put`, `put_all`, `get`, `get_with_malloc` down to the buffer of stdio; a second process that reads |
| `TimingStore` | the tracing wrapper around `FileStore` |
| `MCFileStore`, `FileStoreProofs` | instances and proofs of both |

The layers compose: `PersistentLog` is proved to implement `AtomicLog`, and
`NVSStore` takes its log steps from `AtomicLog` (`INSTANCE`), so what is shown
of the store rests on what is shown of the log. `MemoryManager` justifies how
`PersistentLog` lets processes create and open a log (`CtorCreate`, `AddLog`,
`CtorOpen`). `DeltaStore` extends `StoreManager`: its steps are taken by threads
that returned from `GetInstance`, and its handler asks the store that `Build`
assigned to `ds_object`. `TimingStore` extends `FileStore` and wraps its actions.

Definitions named `X_Something` directly before a definition `X` are mutants:
plausible bugs of `X`, used to see that a property can fail. No specification
uses them.

### PersistentLog

A cell stands for a byte range of an entry: it knows its entry and its position.
`mem`/`hdr` are what a load returns, `pm`/`phdr` what the media holds, and
`pend`/`pendHdr` what a process has stored and not drained. Each call of
`pmem_memcpy_nodrain` and `pmem_drain` in the code is one action, so every order
of two processes' stores, loads, kills and power failures is explored.

* A power failure keeps any subset of the undrained words.
* A kill loses the state of the process; its stores stay visible, and nobody
  drains them.
* Assumed: an aligned 8-byte store is atomic (`tail`); file creation itself is
  durable; `pmem_map_file` with `CREATE|EXCL` fails on an existing file, and with
  a size but no `CREATE` fails too.
* In `PowerFail` the root heap's entry for this log is kept or lost. That a torn
  root heap can also list log 0 without anybody having made it belongs to
  `MemoryManager`.

`ents`, `dn` and `acked` are history: the published entries, how many are below
the durable tail, how many belong to appends that returned. `LogPromise` does not
use `ents`: `Parse` reads the entries out of the bytes as `walk` does, adding up
header, length and flag, once in `mem` and once in `pm`.

### MemoryManager

`pc` follows one process through the constructor of `RootHeap`, `FindLog`,
`CreateLog` (three critical sections: check, make, add) and back. The mutex is in
shared memory: neither `exit(1)` nor a kill releases it, a reboot does. `logId`
and `length` are the root as loads see it, `plogId` and `plength` on the media;
`addLog` never flushes. `torn` records that a power failure kept the length and
lost an id below it; `ListedIsReady` and `UniqueIds` are about the histories
without one. A `LogId` has `IdRange` values (256 in the code), so
`IdOf(p)` is the rank modulo `IdRange`.

### NVSStore

`objAddr`/`objVer` are `objectMap`, `addrMap` is itself, `alloc` and `buf` the
heap. A chunk is a sequence of items (name, version, contents), one for `put`,
all objects in map order for `put_all`. `Compared` is the inner loop of
`process_chunks`, `Find` is `walk` with it. Names are cut to 19 characters
(`Name`). `get_with_malloc` on an empty log reads an uninitialized `walkentry`; its
outcomes (not found, a crash, an arbitrary object) are a choice. Object sizes are
left out. `Junk` stands for uninitialized contents, and is also a second value.
`fresh` marks the items of an append whose name and version nothing readable had
yet: only for those is `get` to return what was put.

### StoreManager

A relaxed load may return a stale `nullptr`. `knows[t]` says that thread `t` is
certain to see the assignment to `instance_` (it loaded it once, or took the mutex
after somebody who knew), and `view[t]` are the constructors whose writes happen
before its next step. The two fences and the mutex pass both on
(`fenceView`, `lockView`, `lockKnows`), as the happens-before rules of C++11 do.
`MemoryManager::GetInstance` (`memory_manager.cc:209-223`) is the same code.

### DeltaStore

`prot` are the write-protected pages of a small address space in which the objects
lie next to each other, `bits` the bit vectors. `stale[k]` are the pages of an
object that differ from what the deltas on the log rebuild, so contents need no
model: a store makes a page stale, an append removes the pages whose bytes are all
in the chunks its header describes (`Covered`), and `missed` keeps what is left after a
put. Nothing bounds the index of `deltas[5]` in a header, so only the first `MaxDeltas`
chunks are described; `put` and `put_all` go on and reset the bits of the others as
well, and `lost` (history) keeps their pages until a header describes them again. In
`put` the excess runs over the stack, in `put_all` into the headers of the next objects,
which are filled later, and past the last one out of the array (`PutAllOverrun`
compares the sizes). Where memory of others is overrun the process ends or goes on;
further damage is not modelled. A store to a
protected page runs the signal handler: it takes the first object in map order
(`Pos`) that `InRange` accepts, with `<=` as in the code. An object has at least one
byte. `ScanPage` is one iteration of the loop of `get_delta_chunks`. `addrMap` of this store is never filled, so `free_obj`
always exits. `put` and `put_all` are single steps: the store takes no lock, and a
thread that stores to an object in the middle of a put is outside the model.

### FileStore and TimingStore

`fopen` for writing empties the file. `fwrite` passes any prefix of the object on and
keeps the rest in the buffer of the process; `fsync` does not flush that buffer,
`fclose` does. A kill may come between any two of these. The kernel and the disk
do not fail, so `fsync` has no effect that could be seen. `want` (what the last one
to open a file had in memory), `cut` (files whose writer was killed) and `rwant` are
history. `todo` are the objects `put_all` has not written yet; it takes them in map
order (`Pos`). `PutFile` and `SnapFile` give the file names: `put` may share one with
`put_all` or with another key, but `put_all` writes `key_version`, from which both can
be read off, so no two of its names are equal (`SnapFileAssumption`). When
`get_with_malloc` reads a file longer than the object, the process ends or goes on with
the beginning of the file in the object. The reader takes
one unit of the file at a time. The clock moves only where
it is read.

## Runs

| run | expects | shows |
|---|---|---|
| `log` | pass | crash consistency of appends (`DurablePrefix`, `AckedForever`, `AckedReadable`), lock-free walks (`WalkSeesWholeEntries`), bounds, a valid header whenever listed, refinement of `AtomicLog` |
| `log_live` | pass | walks end, appends return |
| `log_two_writers` | violation | two appenders of one log lose an acknowledged entry; the lock announced in `log.cc:149` is not taken |
| `mm` | pass | ids are listed once, only with a usable log, and inside the array, under kills and power failures |
| `mm_live` | pass | with one process per id every start-up succeeds |
| `mm_orphan` | violation | two processes on one id: `exit(1)` in the critical section leaves the mutex locked |
| `mm_lost` | violation | an acknowledged log is unlisted after a power failure |
| `store` | pass | maps agree, acknowledged puts stay readable, versions are immutable |
| `store_snapshot` | violation | the last object of a snapshot is never found |
| `delta` | pass | one store per process, seen whole by every caller, refinement of `OneInstance`, calls return; chunks hold exactly the modified pages (`ChunksExact`), faults find their store (`FaultsAreOurs`), deltas rebuild all pages but the first and those put in a region past `deltas[5]` (`DeltasRebuildTail`) |
| `delta_first_page` | violation | changes of the first page are in no delta |
| `file` | pass | only kills tear files, an undisturbed `get` reads the whole object, an interrupted `put_all` leaves a prefix of the map, iteration times add up |

Bounds. `log`: a mapping of nine cells holds the header and two entries (one of
two vectors, one of three), so that a log fills up, is reopened and refuses an
append; `log_live` uses eight cells, the fewest in
which a walk can pass from one entry to the next. A producer and a consumer are enough: the
producer is the only one to store, and consumers do not affect each other.
`MemoryManager`: three processes, two of them on one id, and an array exactly as
long as there are ids. `store`: two objects, two versions, two chunks, two
contents; one process, because a consumer changes nothing another process can
see. Addresses are symmetric; no liveness is checked in that run. `delta`: two
threads, an object of four pages (the last one half used) and one of one page in five
pages of address space, so that they touch in either order; one chunk per header, so
that two regions overflow it, as six do in the code; three log entries, for a put that
loses a page between an earlier one and one that writes it again. A header of 72 bytes
and a delta of 16 are the sizes of the code with `deltas[1]`. `delta_first_page` has room
for two chunks, which four pages cannot exceed, so its counterexample is about the first
page alone. `file`: keys `a` and `a_`, because the file
`put("a_", 1)` writes is the one `put_all` writes for version 1 of `a`; objects of
two units and one, two files opened for writing in all, two values (symmetric),
two clock ticks.

Fairness. `log_live`: a process that has begun an operation goes on
(`WF(Progress(p))`); none of these steps waits for another process. The callback
of `walk` may stop it and is not assumed to. `mm_live` and `mm_orphan`: weak
fairness of each process's start-up. That suffices for the mutex, since every
process takes it a bounded number of times and then leaves it alone. `delta`: weak
fairness of a thread inside `GetInstance` (`AcquireFence` to `Unlock`); it may always
refrain from calling it again. Fairness of `Build` assumes that the constructor of the
store returns; it opens a log through `MemoryManager`, and `mm_orphan` shows when that
blocks. Weak fairness suffices, as every thread takes that
mutex at most once before it knows the instance. There are
no kills in `mm_live` and `mm_orphan`, as a process killed with the mutex blocks the rest by
design. Deadlock is not checked in `mm_live` and `mm_orphan`: when every process
is running, or every one is blocked, start-up is over.

## Proofs

Every safety invariant, every action property and both refinements of the passing
runs are proved, for all values of the constants that the named assumptions allow.
Each inductive invariant was checked with TLC on the instance of its run first.

`PersistentLogProofs`, for every set of processes and entries and all sizes,
assuming one producer per log (`SingleWriter`, which `log_two_writers` shows to be
needed): `TypeOK`, `DurablePrefix`, `WalkSeesWholeEntries`, `AppendInBounds`,
`ListedLogOpens`, `AckedReadable` and the action property `AckedForever`. None of
them is inductive; `IInv` adds that the entries tile the log from head to tail
and are whole in both copies (`ChainInv`), that both tails are entry boundaries,
what is already visible and durable at each step of an append (`AppendInv`), that
a walk stands at an entry below the tail (`WalkInv`), and who may be running
(`LifeInv`, `HeaderInv`). An append only touches cells at or above the visible
tail, so nothing published is disturbed.

`LogRefinement`, under the same assumption, is that the log implements `AtomicLog`. A
sequence that tiles the log is what `Parse` reads from it (`ParseEntries`), so by
`ChainInv` the visible log is `ents` and the durable one its first `dn` entries
(`ParsedLogs`; `HeadInv` adds the header words of a log that is not listed). What a
step does to `ents`, `dn` and `acked` (`HistoryStep`) is then a step of `AtomicLog` or a
stutter (`AbstractStep`): storing the tail publishes, draining it makes durable and
acknowledges, a power failure recovers.

`MemoryManagerProofs`, for every set of processes and ranks, `TypeOK` and:

* `ListedIsReady` and `UniqueIds`, from `IInv`: from the moment its file exists
  until it is listed, an id has one creator, because `EXCL` lets only one process
  create the file (`OwnerInv`, `ListInv`);
* `ArrayInBounds`, from its part `CountInv`: the slots in use plus the logs being
  made never exceed the log files that exist, and there are at most `IdRange` of
  those. It assumes `IdRange <= MaxLogs`; the code has 256 and 256.

All of it holds under kills and power failures.

`StoreManagerProofs`, for any number of threads: `OneStore`, `ReturnsBuilt`, and
that `GetInstance` implements `OneInstance` (initial states, and each step is a step
or a stutter). `SMInv` adds who holds the mutex where (`HolderInv`) and that, once
there is an instance, the release fence and a free mutex carry its visibility
(`InstanceInv`): who takes the mutex next cannot read a stale `nullptr`. The
theorems are about `SMSpec`, the steps of `GetInstance` alone; that `DeltaStore`
takes no others is `DeltaUsesGetInstance`, below.

`NVSStoreProofs`, over `AtomicLog` and for any processes, keys, names (shared ones included),
values and bounds: `TypeOK`, `MapsAgree`, `AckedPutReadable` and the action property
`VersionsImmutable`. `IInv` adds that the durable log is a prefix of the visible one
(`LogInv`), that the fresh items of an append in progress can be found (`OpInv`), and
that acknowledged ones can be found in the durable log (`AckInv`). The argument: the
first match decides, and appending behind it cannot change which match is first
(`FindKept`), while an item without a match before is found in its own chunk
(`FindNew`). In the model any number of processes may put; of the code the theorems
say something only with one that does, as the log implements `AtomicLog` only then.

`DeltaStoreProofs`, for any threads, objects, sizes of at least one byte, page size and
set of frames, any number of deltas per header and of regions in a put: `TypeOK`, `FaultsAreOurs`,
`ChunksExact`, `DeltasRebuildTail`, that every step is one of `GetInstance` or leaves
its variables alone (`DeltaUsesGetInstance`), and hence the refinement of
`OneInstance`. `IInv` adds that all objects belong to the one store (`OwnerInv`), that
they share no page and only their pages are protected (`LayoutInv`), and that a page
that is not protected has its bit unless it is the first, and a stale one has its bit,
is the first, or is in `lost` (`BitsInv`). A page with a bit is either whole in the
described chunks or has bytes in the others (`BitsAppended`).
The point of the argument is the handler's `<=`: an address can be in the range of two
objects only if it is the first byte of the second, and then it is on the page that
`set_modified_bit` skips anyway (`FaultBits`). `ChunksExact` follows from an invariant of
the loop of `get_delta_chunks`: after each page but the last, the closed chunks and the
open region hold the modified pages so far (`ScanMiddle`, `ScanLast`).

`FileStoreProofs`, for any keys, sizes, values, versions, file names that satisfy
`SnapFileAssumption`, and clock: `TypeOK`, `OnlyKillsTear`, `ReadsWhole`,
`SnapshotPrefix`, `TimesAddUp`. `FileInv` adds that the file being written is a prefix of
the object in memory (`WriteInv`) and that a file which is read undisturbed has not
changed since it was opened (`ReadInv`); `TimeInv` adds that the clock readings kept by
`TimingStore` are in order and that `putall_start` lies in the current iteration.

Recursive functions (`Parse`, the scan of `get_delta_chunks`, the sum in
`SnapshotPrefix`) are dealt with by hand: that the function with the recursive
equation exists, and what it yields, is shown by looking at a smallest argument
where it would fail (`ParseExists`, `ScanExists`, `SumExists`).

Only model-checked: liveness (`WalkTerminates`, `AppendReturns`, `StartupCompletes`,
`GetInstanceReturns`), as fairness is out of the prover's reach, and the properties of
the violation runs, which do not hold. The safety theorems about `DeltaStore` do not
use its fairness.

## Findings

The violation runs are recorded under "findings". Met while modelling, and in
the models, but not kept as runs:

* after a torn power failure the root heap can list log 0, which nobody made
  (`root.cc:53-54`);
* ranks that differ by 256 share a log (`nvs_store.cc:22`, `nvs_store.h:22`
  "process local log");
* a buffer from `get_with_malloc` cannot be given to `free_obj`, which exits
  (`nvs_store.cc:372`, `nvs_store.h:24`); in the delta and file stores no buffer
  can, as `addrMap` is never filled;
* `get_with_malloc` ignores that `walk` failed on an empty log (`nvs_store.cc:356`);
* a put under a name and version that is on the log already (after a restart, a
  `free_obj`, or `get_with_malloc` of an older version) is acknowledged, and `get`
  goes on returning the first one (`nvs_store.cc:54`, `:374`);
* `process_chunks` of the delta store refuses every entry the store writes
  (`delta_store.cc:339-342`), so nothing can be read back; the length in a delta
  header is that of the object, not of the entry (`delta_store.cc:182`);
  `delta_memcpy`, which is never reached, counts bytes where it indexes chunks
  (`delta_store.cc:406`); more than five regions are written past `deltas[5]`
  (`delta_store.cc:174`, `:256`, `log.h:59`), and from the sixth on their pages cannot be
  rebuilt, although `put_all` acknowledges them and clears their bits;
* `file_store.h:21` says "New file is created for each version", but `put("a_", 1)`
  writes over the file of version 1 of `a` that `put_all` made (the shared name of the
  run `file`), and `put` of a version that exists empties its file;
* the file store's `get` looks for `key1` where `put_all` wrote `key_1`
  (`file_store.cc:62`, `:86`); `put` leaves the object's version alone; a restarted
  `put_all` rewrites `key_1`; `get` accepts a file that a kill tore, and its
  assertion on the size fails if a `put` of the same file overlaps it;
* `test_store.cc` expects `NO_ERROR` from `put`, which returns a size.

## Not modelled

* `Log::append`, which only a test calls, and the MEMCPY build of the log, which
  never moves the tail.
* Object sizes in `NVSStore`; the bytes of delta entries; stores of a second thread
  during a put of the delta store.
* Power failures of a file system (for `FileStore`); disk-full and open errors other
  than as the end of the process.
* The totals of `TimingStore` and what `stats` prints; `NullStore`, which has no
  state; `GlobalPtr`, which nothing constructs.
* Logging, assertions, command-line code, the boost shared-memory allocator, and
  libpmem and libpmemobj beyond how the code uses them.
* The applications and bundled programs (`CM1`, `gtc`, `miniAMR`, `microbench`, fio,
  filebench, mmapbench, plot). They are nearly all of the lines of the repository:
  nvstream itself has about 4,100, of which the models cover the log, the root heap,
  the memory manager and the stores.
