------------------------- MODULE MCAdmittingBackend -------------------------
(* Two residents share the GPU gate; the first gets two requests. *)
EXTENDS AdmittingBackend

CONSTANTS A, B, a1, a2, c1

MCBackends == {A, B}
MCRequests == {a1, a2, c1}
MCBackendOf == [r \in MCRequests |-> IF r = c1 THEN B ELSE A]
MCCapacity == [b \in MCBackends |-> IF b = A THEN 2 ELSE 1]

(* One resident. *)
OneBackend == {A}
ThreeBackendOf == [r \in MCRequests |-> A]
OneCapacity == [b \in OneBackend |-> 2]
=============================================================================
