------------------------------ MODULE SlotPool ------------------------------
(***************************************************************************)
(* What the admission scheduler promises its callers, with every detail of *)
(* queueing left out: a counting semaphore whose size can be moved while   *)
(* slots are held.  A slot is handed out only when fewer than `limit' are  *)
(* held; lowering the limit never takes a slot back, it only stops new     *)
(* ones until enough holders have returned theirs.                         *)
(***************************************************************************)
EXTENDS Naturals, FiniteSets

CONSTANT Requests   \* the requests that may ever hold a slot

VARIABLES holders,  \* the requests that hold a slot
          limit     \* how many slots may be handed out

vars == <<holders, limit>>

Init ==
    /\ holders = {}
    /\ limit \in Nat \ {0}

(* A free slot goes to a request that has none. *)
Grant(r) ==
    /\ r \notin holders
    /\ Cardinality(holders) < limit
    /\ holders' = holders \cup {r}
    /\ UNCHANGED limit

(* A holder returns its slot. *)
Return(r) ==
    /\ r \in holders
    /\ holders' = holders \ {r}
    /\ UNCHANGED limit

(* The limit moves; nobody gains or loses a slot in that step. *)
Move ==
    /\ limit' \in Nat \ {0}
    /\ UNCHANGED holders

Next ==
    \/ \E r \in Requests : Grant(r) \/ Return(r)
    \/ Move

Spec == Init /\ [][Next]_vars
=============================================================================
