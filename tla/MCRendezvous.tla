---------------------------- MODULE MCRendezvous ----------------------------
(* A launch and a finder that want different models. *)
EXTENDS Rendezvous

CONSTANTS m1, m2, l1, f1

MCWant == [c \in Launches \cup Finders |-> IF c = l1 THEN m1 ELSE m2]
=============================================================================
