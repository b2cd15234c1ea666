---------------------------- MODULE MCFileStore -----------------------------
(* Two keys, "a" and "a_", for which put("a_", v) and the put_all that gives  *)
(* "a" version v write the same file.                                         *)
EXTENDS TimingStore, TLC

CONSTANTS a, a_

Perms == Permutations(Vals)

MCKeys == <<a, a_>>
MCSize == (a :> 2) @@ (a_ :> 1)
MCPutFile == [k \in {a, a_} |-> [v \in 1..MaxVer |-> IF k = a THEN <<"a", v>> ELSE <<"a_", v>>]]
MCSnapFile == [k \in {a, a_} |-> [v \in 1..MaxVer |-> IF k = a THEN <<"a_", v>> ELSE <<"a__", v>>]]
=============================================================================
