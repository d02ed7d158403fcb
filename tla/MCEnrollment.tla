---------------------------- MODULE MCEnrollment ----------------------------
(* Instances of Enrollment for TLC, and the endpoint's documented validation. *)
EXTENDS Enrollment, TLC

\* routers.py:33, "Course offering exists and is not at capacity".
CapacityKept == Cardinality(rows) <= MaxCapacity

\* routers.py:34, "Student is not already enrolled".
EnrolledOnce == \A q, r \in rows : who[q] = who[r] => q = r

Symmetry == Permutations(Requests) \cup Permutations(Students)
=============================================================================
