---------------------------- MODULE InstancePool -----------------------------
(***************************************************************************)
(* What the instance manager promises its clients: a pool of slots.  A     *)
(* name is granted the lowest free slot, and no second one; what runs for  *)
(* a name runs while it has its slot; and a slot is returned only when     *)
(* nothing runs on it any more.  The manager's process can lose the pool.  *)
(***************************************************************************)
EXTENDS Integers

CONSTANTS
  Names,  \* instance names
  Slots   \* what there is to be granted

VARIABLES
  free,     \* slots nobody has
  granted,  \* pairs of a name and its slot
  serving   \* names for which something runs

poolVars == <<free, granted, serving>>

Has(n) == \E s \in Slots : <<n, s>> \in granted

PoolInit ==
  /\ free = Slots
  /\ granted = {}
  /\ serving = {}

Grant(n) ==
  /\ ~ Has(n)
  /\ \E s \in free :
       /\ \A t \in free : s <= t
       /\ free' = free \ {s}
       /\ granted' = granted \cup {<<n, s>>}
  /\ UNCHANGED serving

Serve(n) ==
  /\ Has(n)
  /\ serving' = serving \cup {n}
  /\ UNCHANGED <<free, granted>>

EndService(n) ==
  /\ serving' = serving \ {n}
  /\ UNCHANGED <<free, granted>>

Return(n, s) ==
  /\ <<n, s>> \in granted
  /\ n \notin serving
  /\ free' = free \cup {s}
  /\ granted' = granted \ {<<n, s>>}
  /\ UNCHANGED serving

(* Whatever still runs is no concern of the new process.                   *)
StartOver ==
  /\ free' = Slots
  /\ granted' = {}
  /\ serving' = {}

PoolNext ==
  \/ \E n \in Names : Grant(n) \/ Serve(n) \/ EndService(n)
  \/ \E n \in Names, s \in Slots : Return(n, s)
  \/ StartOver

PoolSpec == PoolInit /\ [][PoolNext]_poolVars
=============================================================================
