----------------------------- MODULE FileStore ------------------------------
(***************************************************************************)
(* The file store of kvstore/file_store.cc: a writer process that puts     *)
(* objects into files, and another process that gets them meanwhile.       *)
(*                                                                         *)
(* stdio is part of the model: fwrite passes any prefix of the object on   *)
(* to the file and keeps the rest in the buffer of the process, fsync does *)
(* not flush that buffer, fclose does.  A killed process leaves its files  *)
(* as the kernel has them; the system itself does not fail.  An object is  *)
(* a sequence of units.                                                    *)
(***************************************************************************)
EXTENDS Naturals, Sequences, Functions

CONSTANTS
  KeyOrder,           \* the keys, in the order std::map iterates over them
  Size,               \* Size[k]: the size create_obj gets for k
  Vals,               \* what a unit may hold
  MaxVer,             \* bound on the versions of put_all
  PutVers,            \* the versions put and get are called with
  MaxOpens,           \* bound on the files opened for writing
  PutFile, SnapFile,  \* the file names of put and of put_all, by key and version
  None

Keys == Range(KeyOrder)
Versions == 1..MaxVer
Files == {PutFile[k][v] : k \in Keys, v \in PutVers}
         \cup {SnapFile[k][v] : k \in Keys, v \in Versions}

Pos(k) == CHOOSE i \in DOMAIN KeyOrder : KeyOrder[i] = k
\* The contents an object may have.
Units == {u \in Seq(Vals) : \E k \in Keys : Len(u) <= Size[k]}

ASSUME FileAssumption ==
  /\ KeyOrder \in Seq(Keys) /\ IsInjective(KeyOrder) /\ Size \in [Keys -> Nat]
  /\ MaxVer \in Nat /\ MaxOpens \in Nat /\ PutVers \subseteq Versions
  /\ None \notin Files \cup Keys \cup Units

\* In key + "_" + version the version is what follows the last "_".
ASSUME SnapFileAssumption ==
  \A k, l \in Keys, v, w \in Versions :
    SnapFile[k][v] = SnapFile[l][w] => k = l /\ v = w

VARIABLES
  mem,      \* objectMap: the contents of the object of k, or None
  ver,      \* its version
  pc,       \* the writer: idle, next (between two files of put_all), opened, written
  todo,     \* the objects put_all has yet to write
  cur,      \* the file being written, its key, the version put_all will set (0 in put)
  total,    \* total_size
  files,    \* contents of a file, or None
  opens,    \* files opened for writing so far
  rpc, rfile, rsize, rgot, \* the reader: where it is, its file, filesize, what fread got
  want,     \* history: what the last one to open the file had in memory
  cut,      \* history: files whose last writer was killed
  rwant     \* history: want at file_size, None once the file is not sure to hold it

writer == <<mem, ver, pc, todo, cur, total>>
reader == <<rpc, rfile, rsize, rgot>>
fileVars == <<writer, files, opens, reader, want, cut, rwant>>

NoCur == [key |-> None, snap |-> 0, file |-> None]

FileTypeOK ==
  /\ mem \in [Keys -> Units \cup {None}] /\ ver \in [Keys -> 0..MaxVer]
  /\ pc \in {"idle", "next", "opened", "written"}
  /\ todo \subseteq Keys /\ total \in Nat
  /\ cur \in [key : Keys \cup {None}, snap : 0..MaxVer, file : Files \cup {None}]
  /\ files \in [Files -> Units \cup {None}] /\ opens \in 0..MaxOpens
  /\ rpc \in {"idle", "sized", "reading"} /\ rfile \in Files \cup {None}
  /\ rsize \in Nat /\ rgot \in Seq(Vals) /\ Len(rgot) <= rsize
  /\ want \in [Files -> Units \cup {None}] /\ cut \subseteq Files
  /\ rwant \in Units \cup {None}

FileInit ==
  /\ mem = [k \in Keys |-> None] /\ ver = [k \in Keys |-> 0]
  /\ pc = "idle" /\ todo = {} /\ cur = NoCur /\ total = 0
  /\ files = [f \in Files |-> None] /\ opens = 0
  /\ rpc = "idle" /\ rfile = None /\ rsize = 0 /\ rgot = <<>>
  /\ want = [f \in Files |-> None] /\ cut = {} /\ rwant = None

Has(k) == mem[k] # None

-----------------------------------------------------------------------------
(* The writer process: its end, and the steps put and put_all share. *)

\* The writer ends, in exit(1) or killed, and starts again.
Ends ==
  /\ mem' = [k \in Keys |-> None] /\ ver' = [k \in Keys |-> 0]
  /\ pc' = "idle" /\ todo' = {} /\ cur' = NoCur /\ total' = 0
  /\ cut' = cut \cup ({cur.file} \ {None})
  /\ UNCHANGED <<files, opens, reader, want, rwant>>

\* Mutant: fopen(file_name, "a").
Fopen_Append(k, v, f) ==
  /\ opens < MaxOpens /\ opens' = opens + 1
  /\ pc' = "opened" /\ cur' = [key |-> k, snap |-> v, file |-> f]
  /\ files' = [files EXCEPT ![f] = IF @ = None THEN <<>> ELSE @]
  /\ want' = [want EXCEPT ![f] = mem[k]] /\ cut' = cut \ {f}
  /\ rwant' = IF rfile = f THEN None ELSE rwant
  /\ UNCHANGED <<mem, ver, reader>>

\* fopen(file_name, "w"): the file is there and empty, also for who reads it.
Fopen(k, v, f) ==
  /\ opens < MaxOpens /\ opens' = opens + 1
  /\ pc' = "opened" /\ cur' = [key |-> k, snap |-> v, file |-> f]
  /\ files' = [files EXCEPT ![f] = <<>>]
  /\ want' = [want EXCEPT ![f] = mem[k]] /\ cut' = cut \ {f}
  /\ rwant' = IF rfile = f THEN None ELSE rwant
  /\ UNCHANGED <<mem, ver, reader>>

\* fwrite, fsync: some of the object is in the file, the rest in the buffer.
Fwrite ==
  /\ pc = "opened" /\ pc' = "written"
  /\ \E n \in 0..Len(mem[cur.key]) :
       files' = [files EXCEPT ![cur.file] = @ \o SubSeq(mem[cur.key], 1, n)]
  /\ UNCHANGED <<mem, ver, todo, cur, total, opens, reader, want, cut, rwant>>

\* Mutant: no fclose; the buffer stays where it is.
Flush_Not == files

\* The rest of the buffer, which fclose writes.
Flush ==
  [files EXCEPT ![cur.file] = @ \o SubSeq(mem[cur.key], Len(@) + 1, Len(mem[cur.key]))]

-----------------------------------------------------------------------------
(* The operations of the writer. *)

CreateObj(k) ==
  /\ pc = "idle" /\ ~Has(k)
  /\ \E x \in Vals : mem' = [mem EXCEPT ![k] = [i \in 1..Size[k] |-> x]]
  /\ ver' = [ver EXCEPT ![k] = 0]
  /\ UNCHANGED <<pc, todo, cur, total, files, opens, reader, want, cut, rwant>>

\* "object key already exists": exit(1).
CreateObjExists(k) == pc = "idle" /\ Has(k) /\ Ends

\* addrMap is never filled: "no object found in the nvs address map", exit(1).
FreeObj(k) == pc = "idle" /\ Has(k) /\ Ends

\* The application fills its object with x.
Store(k, x) ==
  /\ pc = "idle" /\ Has(k)
  /\ mem' = [mem EXCEPT ![k] = [i \in DOMAIN @ |-> x]]
  /\ UNCHANGED <<ver, pc, todo, cur, total, files, opens, reader, want, cut, rwant>>

\* put up to fopen.  (A key that is not in the map changes nothing.)
PutOpen(k, v) ==
  /\ pc = "idle" /\ Has(k)
  /\ Fopen(k, 0, PutFile[k][v])
  /\ UNCHANGED <<todo, total>>

\* fclose, and the return of put.
PutClose ==
  /\ pc = "written" /\ cur.snap = 0
  /\ files' = Flush
  /\ pc' = "idle" /\ cur' = NoCur
  /\ UNCHANGED <<mem, ver, todo, total, opens, reader, want, cut, rwant>>

PutAllStart ==
  /\ pc = "idle" /\ pc' = "next"
  /\ todo' = {k \in Keys : Has(k)} /\ total' = 0
  /\ UNCHANGED <<mem, ver, cur, files, opens, reader, want, cut, rwant>>

\* The next object of the map, up to fopen.
PutAllOpen ==
  /\ pc = "next"
  /\ \E k \in todo :
       /\ \A l \in todo : Pos(k) <= Pos(l)
       /\ ver[k] < MaxVer
       /\ todo' = todo \ {k}
       /\ Fopen(k, ver[k] + 1, SnapFile[k][ver[k] + 1])
  /\ UNCHANGED total

\* Mutant: setVersion is missing.
PutAllClose_SameVersion ==
  /\ pc = "written" /\ cur.snap # 0 /\ pc' = "next"
  /\ files' = Flush
  /\ total' = total + Len(mem[cur.key])
  /\ cur' = NoCur
  /\ UNCHANGED <<mem, ver, todo, opens, reader, want, cut, rwant>>

\* fclose, setVersion, and on to the next object.
PutAllClose ==
  /\ pc = "written" /\ cur.snap # 0 /\ pc' = "next"
  /\ files' = Flush
  /\ ver' = [ver EXCEPT ![cur.key] = cur.snap]
  /\ total' = total + Len(mem[cur.key])
  /\ cur' = NoCur
  /\ UNCHANGED <<mem, todo, opens, reader, want, cut, rwant>>

PutAllReturn ==
  /\ pc = "next" /\ todo = {} /\ pc' = "idle" /\ total' = 0
  /\ UNCHANGED <<mem, ver, todo, cur, files, opens, reader, want, cut, rwant>>

\* The object u after fread of data into it.
ReadInto(u, data) == [i \in 1..Len(u) |-> IF i <= Len(data) THEN data[i] ELSE u[i]]

\* get_with_malloc of a file that is there: into the object of the key, made from
\* the file if there is none.
GetWithMalloc(k, v) ==
  LET data == files[PutFile[k][v]]
  IN /\ pc = "idle" /\ data # None
     /\ mem' = [mem EXCEPT ![k] = IF Has(k) THEN ReadInto(@, data) ELSE data]
     /\ ver' = [ver EXCEPT ![k] = v]
     /\ UNCHANGED <<pc, todo, cur, total, files, opens, reader, want, cut, rwant>>

\* A file longer than the object of its key is read past the object's end: the
\* process ends, or goes on (GetWithMalloc).
GetTooLong(k, v) ==
  LET data == files[PutFile[k][v]]
  IN pc = "idle" /\ data # None /\ Has(k) /\ Len(data) > Len(mem[k]) /\ Ends

-----------------------------------------------------------------------------
(* get of the reader process. *)

\* Whether the file holds what its last writer had in memory.
Settled(f) == files[f] # None /\ f \notin cut /\ f # cur.file

\* file_size.  (A file that is not there changes nothing: ELEM_NOT_FOUND.)
GetFileSize(k, v) ==
  LET f == PutFile[k][v]
  IN /\ rpc = "idle" /\ files[f] # None
     /\ rpc' = "sized" /\ rfile' = f /\ rsize' = Len(files[f]) /\ rgot' = <<>>
     /\ rwant' = IF Settled(f) THEN want[f] ELSE None
     /\ UNCHANGED <<writer, files, opens, want, cut>>

GetOpen ==
  /\ rpc = "sized" /\ rpc' = "reading"
  /\ UNCHANGED <<writer, files, opens, rfile, rsize, rgot, want, cut, rwant>>

ReaderDone == rpc' = "idle" /\ rfile' = None /\ rsize' = 0 /\ rgot' = <<>> /\ rwant' = None

\* fread takes another unit.
GetRead ==
  /\ rpc = "reading" /\ Len(rgot) < rsize /\ Len(rgot) < Len(files[rfile])
  /\ rgot' = Append(rgot, files[rfile][Len(rgot) + 1])
  /\ UNCHANGED <<writer, files, opens, rpc, rfile, rsize, want, cut, rwant>>

\* fread ends: NO_ERROR if it got filesize units, else the assertion fails.
GetReturn ==
  /\ rpc = "reading" /\ (Len(rgot) = rsize \/ Len(rgot) >= Len(files[rfile]))
  /\ ReaderDone
  /\ UNCHANGED <<writer, files, opens, want, cut>>

ReaderStep ==
  \/ \E k \in Keys, v \in PutVers : GetFileSize(k, v)
  \/ GetOpen \/ GetRead \/ GetReturn

-----------------------------------------------------------------------------
(* Properties. *)

\* put_all has begun, and the objects it is done with.
InPutAll == pc = "next" \/ cur.snap # 0
Done == {k \in Keys : Has(k)} \ (todo \cup {cur.key})

\* Wherever put_all is interrupted, its snapshot is a prefix of the map: the objects
\* it is done with come before the others, every one of them is whole in the file
\* of its version, and total_size counts exactly those.
SnapshotPrefix ==
  InPutAll =>
    /\ \A k \in Done : ver[k] \in Versions /\ files[SnapFile[k][ver[k]]] = mem[k]
    /\ \A k \in Done, l \in todo \cup ({cur.key} \ {None}) : Pos(k) < Pos(l)
    /\ total = SumFunction([k \in Done |-> Len(mem[k])])

\* Only a kill tears a file: outside a put or put_all every file holds exactly
\* what the last operation to open its name had in memory, unless the process was
\* killed inside that operation; also where two keys share a file name.
OnlyKillsTear == \A f \in Files : files[f] # want[f] => f \in cut \cup {cur.file}

\* A get that no put of the same file overlaps, of a file no kill tore, returns
\* the whole object, and its assertion on the size read holds.
ReadsWhole ==
  rpc # "idle" /\ rwant # None =>
    /\ rsize = Len(rwant) /\ rsize <= Len(files[rfile])
    /\ rgot = SubSeq(rwant, 1, Len(rgot))

-----------------------------------------------------------------------------
(* The inductive invariant: what the writer is in the middle of, and what the  *)
(* reader may rely on.                                                          *)

Writing == pc \in {"opened", "written"}

WriteInv ==
  /\ ~Writing => cur = NoCur
  /\ Writing =>
       /\ cur.key \in Keys /\ Has(cur.key) /\ cur.file \in Files \ cut
       /\ want[cur.file] = mem[cur.key]
       /\ files[cur.file] # None /\ Len(files[cur.file]) <= Len(mem[cur.key])
       /\ files[cur.file] = SubSeq(mem[cur.key], 1, Len(files[cur.file]))
       /\ pc = "opened" => files[cur.file] = <<>>
       /\ cur.snap # 0 => /\ cur.snap = ver[cur.key] + 1
                          /\ cur.file = SnapFile[cur.key][cur.snap]
                          /\ \A l \in todo : Pos(cur.key) < Pos(l)
  /\ InPutAll => cur.key \notin todo /\ \A k \in todo : Has(k)

ReadInv ==
  /\ rpc # "idle" => rfile \in Files /\ files[rfile] # None
  /\ rwant # None =>
       /\ rpc # "idle" /\ rfile # cur.file /\ files[rfile] = rwant
       /\ rsize = Len(rwant) /\ rgot = SubSeq(rwant, 1, Len(rgot))

FileInv == FileTypeOK /\ WriteInv /\ ReadInv /\ OnlyKillsTear /\ SnapshotPrefix
=============================================================================
