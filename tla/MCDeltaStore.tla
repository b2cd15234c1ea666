---------------------------- MODULE MCDeltaStore ----------------------------
(* Small instances of DeltaStore. *)
EXTENDS DeltaStore

CONSTANTS k1, k2

MCKeys == <<k1, k2>>
\* With pages of two bytes: four pages, the last one half used, and one page.
MCSize == [k \in {k1, k2} |-> IF k = k1 THEN 7 ELSE 2]
MCFrames == 0..4
=============================================================================
