------------------------------ MODULE Semaphore -----------------------------
(***************************************************************************)
(* What a pool of slots promises: a thread takes one slot, keeps it for a  *)
(* while and gives it back, and never more than Limit of them are taken.   *)
(***************************************************************************)
EXTENDS Integers, FiniteSets

CONSTANTS
  Users,   \* the threads
  Limit    \* the number of slots

VARIABLE holders   \* the threads that hold a slot

Take(t) ==
  /\ t \notin holders
  /\ Cardinality(holders) < Limit
  /\ holders' = holders \cup {t}

GiveBack(t) ==
  /\ t \in holders
  /\ holders' = holders \ {t}

SemaphoreSpec ==
  /\ holders = {}
  /\ [][\E t \in Users : Take(t) \/ GiveBack(t)]_holders

=============================================================================
