----------------------------- MODULE AtomicLog -----------------------------
(***************************************************************************)
(* What the persistent log promises its users: a sequence of whole         *)
(* entries that only grows at its end.  An entry is published to readers   *)
(* at one instant and becomes durable at one later instant; an append      *)
(* returns only once it is durable; a power failure may cost entries that  *)
(* were published and not yet durable, and nothing else.                   *)
(***************************************************************************)
EXTENDS Naturals, Sequences

CONSTANT Entries

VARIABLES
  vlog,   \* what a walk reads
  dlog,   \* what a restart would find
  nack    \* how many entries belong to appends that returned

avars == <<vlog, dlog, nack>>

AInit == vlog = <<>> /\ dlog = <<>> /\ nack = 0

Publish(e) ==
  /\ vlog' = Append(vlog, e)
  /\ UNCHANGED <<dlog, nack>>

\* Durable and acknowledged.
Return ==
  /\ dlog' = vlog
  /\ nack' = Len(vlog)
  /\ UNCHANGED vlog

\* A power failure finds the published entries durable, or undoes those
\* nobody was promised.
Recover ==
  /\ \/ dlog' = vlog
     \/ dlog' = dlog
  /\ vlog' = dlog'
  /\ UNCHANGED nack

ANext == (\E e \in Entries : Publish(e)) \/ Return \/ Recover

ASpec == AInit /\ [][ANext]_avars
=============================================================================
