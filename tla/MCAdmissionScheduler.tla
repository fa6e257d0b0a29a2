------------------------ MODULE MCAdmissionScheduler ------------------------
(* Small instance: two long requests, one of middling length and one that  *)
(* qualifies for the fast lane.                                            *)
EXTENDS AdmissionScheduler

CONSTANTS b1, b2, m1, f1

MCRequests == {b1, b2, m1, f1}
MCWeight == [r \in MCRequests |->
               CASE r \in {b1, b2} -> 20 [] r = m1 -> 12 [] OTHER -> 3]
=============================================================================
