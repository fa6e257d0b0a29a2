-------------------------- MODULE MCIncidentThreads --------------------------
(* One incident that two people can be assigned to. *)
EXTENDS IncidentThreads, TLC

CONSTANTS o1, o2

(* The owners are never compared but for equality, and nothing here is a  *)
(* liveness property.                                                      *)
OwnerSymmetry == Permutations({o1, o2})
=============================================================================
