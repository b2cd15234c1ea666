---------------------------- MODULE OneInstance ----------------------------
(***************************************************************************)
(* What GetInstance promises: until the process ends, at most one instance *)
(* is ever chosen, and every caller that returns holds it.                 *)
(***************************************************************************)
CONSTANTS Threads, Null

VARIABLES
  value,  \* the instance, or Null
  got     \* got[t]: what the last call of t returned, or Null

OIInit == value = Null /\ got = [t \in Threads |-> Null]

Choose ==
  /\ value = Null
  /\ value' \in Threads
  /\ UNCHANGED got

Return(t) ==
  /\ value # Null
  /\ got' = [got EXCEPT ![t] = value]
  /\ UNCHANGED value

Forget(t) ==
  /\ got' = [got EXCEPT ![t] = Null]
  /\ UNCHANGED value

End == value' = Null /\ got' = [t \in Threads |-> Null]

OINext == Choose \/ (\E t \in Threads : Return(t) \/ Forget(t)) \/ End

OISpec == OIInit /\ [][OINext]_<<value, got>>
=============================================================================
