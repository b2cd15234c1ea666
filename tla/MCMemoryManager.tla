-------------------------- MODULE MCMemoryManager --------------------------
(* Small instances of MemoryManager. *)
EXTENDS MemoryManager, TLC

CONSTANTS p1, p2, p3

\* A producer and a consumer of log 1, and a process whose rank wraps to log 0.
RankShared == (p1 :> 1) @@ (p2 :> 1) @@ (p3 :> IdRange)
\* One process per log.
RankDistinct == (p1 :> 0) @@ (p2 :> 1) @@ (p3 :> 2)
=============================================================================
