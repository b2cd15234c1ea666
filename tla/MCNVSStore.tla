----------------------------- MODULE MCNVSStore -----------------------------
(* Small instances of NVSStore. *)
EXTENDS NVSStore

CONSTANTS k1, k2

Keys2 == <<k1, k2>>
\* Keys of fewer than KEY_LEN characters.
MCName == [k \in {k1, k2} |-> k]

\* Which address malloc returns makes no difference.
AddrSymmetry == Permutations(Addrs)
=============================================================================
