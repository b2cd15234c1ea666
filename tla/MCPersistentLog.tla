-------------------------- MODULE MCPersistentLog --------------------------
(* Small instances of PersistentLog: one producer and one consumer. *)
EXTENDS LogPromise

\* a: header and one data vector (put); b: header and two data vectors (put_all)
MCEntries == {"a", "b"}
MCCut == [e \in MCEntries |-> IF e = "a" THEN <<1, 2>> ELSE <<1, 2, 3>>]
=============================================================================
