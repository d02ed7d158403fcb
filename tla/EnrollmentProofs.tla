--------------------------- MODULE EnrollmentProofs ---------------------------
(* By how much concurrent enrolment can break the two rules of the endpoint,  *)
(* for every number of requests, students, places and threads.                *)
EXTENDS Enrollment, FiniteSetTheorems, TLAPS

\* Requests that hold a place, or have been promised one by CheckCapacity.
Booked == {r \in Requests : pc[r] \in {"save", "enrolled"}}

\* Requests of a student that have passed the duplicate check.
Claims(s) == {r \in Requests : who[r] = s /\ pc[r] \in {"capacity", "save", "enrolled"}}

\* The bounds count promises and not only rows: a row is saved long after the
\* check that allowed it.
PlacesInv == Cardinality(Booked) <= MaxCapacity + (Workers - 1)
ClaimsInv == \A s \in Students : Cardinality(Claims(s)) <= Workers
ThreadsInv == Cardinality(InFlight) <= Workers

IInv == TypeOK /\ ThreadsInv /\ PlacesInv /\ ClaimsInv

\* A subset of the requests is finite and its size is a number.
LEMMA RequestSets ==
    ASSUME NEW S \in SUBSET Requests
    PROVE  IsFiniteSet(S) /\ Cardinality(S) \in Nat
BY FS_Subset, FS_CardinalityType, EnrollmentAssumption

\* A smaller set of requests has at most as many elements.
LEMMA FewerRequests ==
    ASSUME NEW T \in SUBSET Requests, NEW S \in SUBSET T
    PROVE  Cardinality(S) <= Cardinality(T)
BY FS_Subset, RequestSets

\* Initially nothing is in flight, booked or claimed.
LEMMA InitIInv == Init => IInv
<1> SUFFICES ASSUME Init PROVE IInv
  OBVIOUS
<1>1. InFlight = {} /\ Booked = {} /\ \A s \in Students : Claims(s) = {}
  BY DEF Init, InFlight, Booked, Claims
<1>2. Cardinality({}) = 0
  BY FS_EmptySet
<1>3. TypeOK
  BY DEF Init, TypeOK
<1>4. 0 <= Workers /\ 0 <= MaxCapacity + (Workers - 1)
  BY EnrollmentAssumption
<1>5. ThreadsInv /\ PlacesInv
  BY <1>1, <1>2, <1>4 DEF ThreadsInv, PlacesInv
<1>6. ClaimsInv
  BY <1>1, <1>2, <1>4 DEF ClaimsInv
<1> QED
  BY <1>3, <1>5, <1>6 DEF IInv

\* Every step keeps the types.
LEMMA TypeStep == TypeOK /\ [Next]_vars => TypeOK'
<1> SUFFICES ASSUME TypeOK, [Next]_vars PROVE TypeOK'
  OBVIOUS
<1> USE DEF TypeOK, Goto
<1>1. CASE UNCHANGED vars
  BY <1>1 DEF vars
<1>2. ASSUME NEW r \in Requests, Receive(r) PROVE TypeOK'
  BY <1>2 DEF Receive
<1>3. ASSUME NEW r \in Requests, FindOffering(r) PROVE TypeOK'
  BY <1>3 DEF FindOffering
<1>4. ASSUME NEW r \in Requests, CheckDuplicate(r) PROVE TypeOK'
  BY <1>4 DEF CheckDuplicate
<1>5. ASSUME NEW r \in Requests, CheckCapacity(r) PROVE TypeOK'
  BY <1>5 DEF CheckCapacity
<1>6. ASSUME NEW r \in Requests, Save(r) PROVE TypeOK'
  BY <1>6 DEF Save
<1> QED
  BY <1>1, <1>2, <1>3, <1>4, <1>5, <1>6 DEF Next

\* Only Receive puts a request in flight, and only when a thread is free.
LEMMA ThreadsStep == TypeOK /\ ThreadsInv /\ [Next]_vars => ThreadsInv'
<1> SUFFICES ASSUME TypeOK, ThreadsInv, [Next]_vars PROVE ThreadsInv'
  OBVIOUS
<1> USE DEF ThreadsInv
<1>1. InFlight \in SUBSET Requests /\ InFlight' \in SUBSET Requests
  BY DEF InFlight
<1>2. Cardinality(InFlight) \in Nat /\ Cardinality(InFlight') \in Nat /\ IsFiniteSet(InFlight)
  BY <1>1, RequestSets
<1>3. ASSUME NEW r \in Requests, Receive(r) PROVE ThreadsInv'
  <2>1. r \notin InFlight /\ InFlight' = InFlight \cup {r}
    BY <1>3 DEF Receive, InFlight, Goto, TypeOK
  <2>2. Cardinality(InFlight') = Cardinality(InFlight) + 1
    BY <2>1, <1>2, FS_AddElement
  <2> QED
    BY <2>2, <1>2, <1>3, EnrollmentAssumption DEF Receive
<1>4. ASSUME InFlight' \subseteq InFlight PROVE ThreadsInv'
  BY <1>4, <1>1, <1>2, FewerRequests, EnrollmentAssumption
<1>5. ASSUME NEW r \in Requests,
             FindOffering(r) \/ CheckDuplicate(r) \/ CheckCapacity(r) \/ Save(r)
      PROVE  InFlight' \subseteq InFlight
  BY <1>5 DEF FindOffering, CheckDuplicate, CheckCapacity, Save, Goto, InFlight, TypeOK
<1>6. CASE UNCHANGED vars
  BY <1>6, <1>4 DEF vars, InFlight
<1> QED
  BY <1>3, <1>4, <1>5, <1>6 DEF Next

\* A place is promised when fewer than MaxCapacity rows are there: what is booked
\* besides them is in flight.
LEMMA PlacesStep == IInv /\ ThreadsInv' /\ [Next]_vars => PlacesInv'
<1> SUFFICES ASSUME IInv, ThreadsInv', [Next]_vars PROVE PlacesInv'
  OBVIOUS
<1> USE DEF PlacesInv
<1> TypeOK /\ PlacesInv
  BY DEF IInv
<1>1. Booked \in SUBSET Requests /\ Booked' \in SUBSET Requests /\ rows \in SUBSET Requests
      /\ InFlight' \in SUBSET Requests
  BY DEF Booked, InFlight, TypeOK
<1>2. /\ Cardinality(Booked) \in Nat /\ Cardinality(Booked') \in Nat
      /\ Cardinality(rows) \in Nat /\ IsFiniteSet(rows)
      /\ Cardinality(InFlight') \in Nat /\ IsFiniteSet(InFlight')
  BY <1>1, RequestSets
<1>3. ASSUME Booked' \subseteq Booked PROVE PlacesInv'
  BY <1>3, <1>1, <1>2, FewerRequests, EnrollmentAssumption
<1>4. ASSUME NEW r \in Requests, CheckCapacity(r) PROVE PlacesInv'
  <2>1. CASE Cardinality(rows) >= MaxCapacity
    BY <2>1, <1>3, <1>4 DEF CheckCapacity, Goto, Booked, TypeOK
  <2>2. CASE Cardinality(rows) < MaxCapacity
    <3>1. Booked' \subseteq rows \cup InFlight'
      BY <1>4 DEF CheckCapacity, Goto, Booked, InFlight, TypeOK
    <3>2. Cardinality(rows \cup InFlight')
             = Cardinality(rows) + Cardinality(InFlight') - Cardinality(rows \cap InFlight')
      BY <1>2, FS_Union
    <3>3. Cardinality(rows \cap InFlight') \in Nat /\ Cardinality(rows \cup InFlight') \in Nat
      BY <1>1, RequestSets
    <3>4. Cardinality(Booked') <= Cardinality(rows \cup InFlight')
      BY <3>1, <1>1, FewerRequests
    <3>5. Cardinality(InFlight') <= Workers
      BY DEF ThreadsInv
    <3> QED
      BY <3>2, <3>3, <3>4, <3>5, <2>2, <1>2, EnrollmentAssumption
  <2> QED
    BY <2>1, <2>2, <1>2, EnrollmentAssumption
<1>5. ASSUME NEW r \in Requests, Receive(r) \/ FindOffering(r) \/ CheckDuplicate(r) \/ Save(r)
      PROVE  Booked' \subseteq Booked
  BY <1>5 DEF Receive, FindOffering, CheckDuplicate, Save, Goto, Booked, TypeOK
<1>6. CASE UNCHANGED vars
  BY <1>6, <1>3 DEF vars, Booked
<1> QED
  BY <1>3, <1>4, <1>5, <1>6 DEF Next

\* A request passes the duplicate check when its student has no row: every other
\* claim of the student is in flight.
LEMMA ClaimsStep == IInv /\ ThreadsInv' /\ [Next]_vars => ClaimsInv'
<1> SUFFICES ASSUME IInv, ThreadsInv', [Next]_vars, NEW s \in Students
             PROVE  Cardinality(Claims(s)') <= Workers
  BY DEF ClaimsInv
<1> TypeOK /\ Cardinality(Claims(s)) <= Workers /\ Cardinality(InFlight') <= Workers
  BY DEF IInv, ClaimsInv, ThreadsInv
<1>1. Claims(s) \in SUBSET Requests /\ Claims(s)' \in SUBSET Requests
      /\ InFlight' \in SUBSET Requests
  BY DEF Claims, InFlight
<1>2. /\ Cardinality(Claims(s)) \in Nat /\ Cardinality(Claims(s)') \in Nat
      /\ Cardinality(InFlight') \in Nat
  BY <1>1, RequestSets
<1>3. ASSUME Claims(s)' \subseteq Claims(s) \/ Claims(s)' \subseteq InFlight'
      PROVE  Cardinality(Claims(s)') <= Workers
  BY <1>3, <1>1, <1>2, FewerRequests, EnrollmentAssumption
<1>4. ASSUME NEW r \in Requests, CheckDuplicate(r)
      PROVE  Claims(s)' \subseteq Claims(s) \/ Claims(s)' \subseteq InFlight'
  <2>1. CASE who[r] = s /\ RowsOf(s) = {}
    <3>1. \A q \in Requests : who[q] = s => pc[q] # "enrolled"
      BY <2>1 DEF RowsOf, TypeOK
    <3> QED
      BY <3>1, <2>1, <1>4 DEF CheckDuplicate, Goto, Claims, InFlight, TypeOK
  <2>2. CASE who[r] # s \/ RowsOf(s) # {}
    BY <2>2, <1>4 DEF CheckDuplicate, Goto, Claims, TypeOK
  <2> QED
    BY <2>1, <2>2
<1>5. ASSUME NEW r \in Requests, Receive(r) \/ FindOffering(r) \/ CheckCapacity(r) \/ Save(r)
      PROVE  Claims(s)' \subseteq Claims(s)
  BY <1>5 DEF Receive, FindOffering, CheckCapacity, Save, Goto, Claims, TypeOK
<1>6. CASE UNCHANGED vars
  BY <1>6, <1>3 DEF vars, Claims
<1> QED
  BY <1>3, <1>4, <1>5, <1>6 DEF Next

\* The inductive invariant holds in every reachable state.
THEOREM Invariance == Spec => []IInv
<1>1. IInv /\ [Next]_vars => IInv'
  <2> SUFFICES ASSUME IInv, [Next]_vars PROVE IInv'
    OBVIOUS
  <2>1. TypeOK' /\ ThreadsInv'
    BY TypeStep, ThreadsStep DEF IInv
  <2> QED
    BY <2>1, PlacesStep, ClaimsStep DEF IInv
<1> QED
  BY InitIInv, <1>1, PTL DEF Spec

\* Whatever the requests, the offering is overbooked by at most Workers - 1 rows,
\* one for each thread of enroll_student that can race past the capacity check.
THEOREM Overbooking == Spec => []OverbookingBounded
<1>1. IInv => OverbookingBounded
  <2> SUFFICES ASSUME IInv PROVE OverbookingBounded
    OBVIOUS
  <2>1. rows \in SUBSET Booked /\ Booked \in SUBSET Requests /\ rows \in SUBSET Requests
    BY DEF IInv, TypeOK, Booked
  <2>2. Cardinality(rows) <= Cardinality(Booked)
    BY <2>1, FewerRequests
  <2>3. Cardinality(rows) \in Nat /\ Cardinality(Booked) \in Nat
    BY <2>1, RequestSets
  <2> QED
    BY <2>2, <2>3, EnrollmentAssumption DEF IInv, PlacesInv, OverbookingBounded
<1> QED
  BY <1>1, Invariance, PTL

\* Whatever the requests, a student has at most Workers rows in one offering.
THEOREM Duplicates == Spec => []DuplicatesBounded
<1>1. IInv => DuplicatesBounded
  <2> SUFFICES ASSUME IInv, NEW s \in Students PROVE Cardinality(RowsOf(s)) <= Workers
    BY DEF DuplicatesBounded
  <2>1. RowsOf(s) \in SUBSET Claims(s) /\ Claims(s) \in SUBSET Requests
        /\ RowsOf(s) \in SUBSET Requests
    BY DEF IInv, TypeOK, RowsOf, Claims
  <2>2. Cardinality(RowsOf(s)) <= Cardinality(Claims(s))
    BY <2>1, FewerRequests
  <2>3. Cardinality(RowsOf(s)) \in Nat /\ Cardinality(Claims(s)) \in Nat
    BY <2>1, RequestSets
  <2> QED
    BY <2>2, <2>3, EnrollmentAssumption DEF IInv, ClaimsInv
<1> QED
  BY <1>1, Invariance, PTL

\* Type correctness, and that exactly the requests answered with 201 have a row.
THEOREM Typed == Spec => []TypeOK
<1>1. IInv => TypeOK
  BY DEF IInv
<1> QED
  BY <1>1, Invariance, PTL
=============================================================================
